---------------------------- MODULE ConsoleProofs -----------------------------
(***************************************************************************)
(* Settings and alerts for every console and every farm: any number of     *)
(* boards, knobs, patches, hand edits and failures.                        *)
(***************************************************************************)
EXTENDS ConsoleProperties, FiniteSetTheorems, SequenceTheorems, TLAPS

Configs == [Paths -> Int]
Counts == [Metrics -> Nat]

IsFile(content) == DOMAIN content \subseteq Paths /\ content \in [DOMAIN content -> Int]

LiveOK == Up => live \in Configs /\ live["api_token"] # NoToken
FileOK == file # Null /\ file # Torn => IsFile(file)
LabelsOK == labels \in Counts /\ (stored # Null /\ stored # Torn => stored \in Counts)

\* The console was told of knobs, and of a token that is one.
ToldOK ==
  /\ DOMAIN told \subseteq CONSOLE_WRITABLE \cup {"api_token"}
  /\ "api_token" \in DOMAIN told => told["api_token"] # NoToken

\* The file that the next start reads holds what was told, or stops that start.
ToldIsFiled ==
  file # Torn => \A path \in DOMAIN told :
    file # Null /\ path \in DOMAIN file /\ file[path] = told[path]

SettingsInv ==
  LiveOK /\ FileOK /\ LabelsOK /\ tokens \in Nat /\ ToldOK /\ ToldIsFiled /\ ToldSurvives

-----------------------------------------------------------------------------
(* The operators on configurations.                                        *)

LEMMA OverridingFacts ==
  ASSUME NEW f, NEW g
  PROVE  /\ DOMAIN Overriding(f, g) = DOMAIN f \cup DOMAIN g
         /\ \A path \in DOMAIN f : Overriding(f, g)[path] = f[path]
         /\ \A path \in DOMAIN g \ DOMAIN f : Overriding(f, g)[path] = g[path]
BY DEF Overriding

LEMMA OverridingType ==
  ASSUME NEW f, NEW g, f \in [DOMAIN f -> Int], g \in [DOMAIN g -> Int]
  PROVE  Overriding(f, g) \in [DOMAIN f \cup DOMAIN g -> Int]
BY DEF Overriding

LEMMA DefaultFacts ==
  /\ Paths = CONSOLE_WRITABLE \cup DOMAIN OperatorDefaults \cup {"api_token"}
  /\ default_config \in Configs /\ default_config["api_token"] = NoToken
<1> DEFINE knobs == [path \in CONSOLE_WRITABLE |-> Field[path].default]
           token == [api_token |-> NoToken]
           rest == Overriding(OperatorDefaults, token)
<1>1. knobs \in [CONSOLE_WRITABLE -> Int] /\ DOMAIN knobs = CONSOLE_WRITABLE
  BY KnobsAssumption
<1>2. token \in [{"api_token"} -> Int] /\ DOMAIN token = {"api_token"} /\ token["api_token"] = NoToken
  BY DEF NoToken
<1>3. rest \in [DOMAIN OperatorDefaults \cup {"api_token"} -> Int] /\ rest["api_token"] = NoToken
  BY <1>2, OperatorAssumption DEF Overriding
<1>4. default_config = Overriding(knobs, rest)
  BY DEF default_config
<1> HIDE DEF knobs, token, rest
<1>5. DOMAIN default_config = CONSOLE_WRITABLE \cup DOMAIN OperatorDefaults \cup {"api_token"}
  BY <1>1, <1>3, <1>4 DEF Overriding
<1>6. default_config \in [DOMAIN default_config -> Int]
  BY <1>1, <1>3, <1>4, <1>5, OverridingType
<1>7. default_config["api_token"] = NoToken
  BY <1>1, <1>3, <1>4, OperatorAssumption DEF Overriding
<1> QED BY <1>5, <1>6, <1>7 DEF Paths, Configs

LEMMA KnobPaths ==
  /\ CONSOLE_WRITABLE \subseteq Paths /\ "api_token" \in Paths
  /\ "api_token" \notin CONSOLE_WRITABLE
  /\ "window" \in CONSOLE_WRITABLE /\ "enabled" \in CONSOLE_WRITABLE
  /\ "persistence" \in CONSOLE_WRITABLE
  /\ \A metric \in Metrics : METRIC_TO_THRESHOLD[metric] \in CONSOLE_WRITABLE
BY DefaultFacts, KnobsAssumption, OperatorAssumption DEF METRIC_TO_THRESHOLD, Metrics

LEMMA PatchFacts ==
  ASSUME NEW config \in Configs, NEW patch
  PROVE  LET patched == apply_console_patch(config, patch) IN
         /\ patched \in Configs /\ patched["api_token"] = config["api_token"]
         /\ Applied(patch) \subseteq DOMAIN patch /\ Applied(patch) \subseteq CONSOLE_WRITABLE
         /\ \A path \in Applied(patch) : patched[path] = patch[path]
         /\ \A path \in Paths \ Applied(patch) : patched[path] = config[path]
<1> DEFINE sent == [path \in Applied(patch) |-> patch[path]]
<1>1. Applied(patch) \subseteq DOMAIN patch /\ Applied(patch) \subseteq CONSOLE_WRITABLE
  BY DEF Applied
<1>2. \A path \in Applied(patch) : patch[path] \in Int
  BY KnobsAssumption DEF Applied, Coerces
<1>3. sent \in [DOMAIN sent -> Int] /\ DOMAIN sent = Applied(patch)
  BY <1>2
<1>4. DOMAIN config = Paths /\ config \in [DOMAIN config -> Int]
  BY DEF Configs
<1>5. apply_console_patch(config, patch) = Overriding(sent, config)
  BY DEF apply_console_patch
<1>6. \A path \in Applied(patch) : sent[path] = patch[path]
  OBVIOUS
<1> HIDE DEF sent
<1>7. Overriding(sent, config) \in Configs
  <2>1. DOMAIN sent \cup DOMAIN config = Paths
    BY <1>1, <1>3, <1>4, KnobPaths
  <2> QED BY <1>3, <1>4, <2>1, OverridingType DEF Configs
<1>8. \A path \in Applied(patch) : Overriding(sent, config)[path] = patch[path]
  BY <1>3, <1>6 DEF Overriding
<1>9. \A path \in Paths \ Applied(patch) : Overriding(sent, config)[path] = config[path]
  BY <1>3, <1>4 DEF Overriding
<1>10. Overriding(sent, config)["api_token"] = config["api_token"]
  BY <1>1, <1>9, KnobPaths
<1> QED BY <1>1, <1>5, <1>7, <1>8, <1>9, <1>10

LEMMA MergeFacts ==
  ASSUME FileOK, Accepted
  PROVE  /\ file # Torn /\ _deep_merge \in Configs
         /\ file = Null => _deep_merge = default_config
         /\ file # Null => \A path \in DOMAIN file : path \in Paths /\ _deep_merge[path] = file[path]
         /\ file # Null /\ "api_token" \notin DOMAIN file => _deep_merge["api_token"] = NoToken
         /\ _deep_merge["window"] \in Nat
<1>1. _deep_merge # Torn /\ problems(_deep_merge) = {}
  BY DEF Accepted
<1>2. default_config \in Configs /\ default_config["api_token"] = NoToken
      /\ DOMAIN default_config = Paths
  BY DefaultFacts DEF Configs
<1>3. ASSUME _deep_merge \in Configs
      PROVE  _deep_merge["window"] \in Nat
  <2>1. Coerces("window", _deep_merge["window"])
    BY <1>1, KnobPaths DEF problems
  <2>2. _deep_merge["window"] \in Int
    BY <1>3, KnobPaths DEF Configs
  <2> QED BY <2>1, <2>2, KnobsAssumption DEF Coerces
<1>4. CASE file = Null
  <2>1. _deep_merge = default_config
    BY <1>4 DEF _deep_merge
  <2> QED BY <1>1, <1>2, <1>3, <1>4, <2>1, NoFileAssumption
<1>5. CASE file # Null
  <2>1. file # Torn /\ _deep_merge = Overriding(file, default_config)
    BY <1>1, <1>5 DEF _deep_merge
  <2>2. DOMAIN file \subseteq Paths /\ file \in [DOMAIN file -> Int]
    BY <1>5, <2>1 DEF FileOK, IsFile
  <2>3. Overriding(file, default_config) \in Configs
    BY <1>2, <2>2, OverridingType DEF Configs
  <2>4. \A path \in DOMAIN file : Overriding(file, default_config)[path] = file[path]
    BY DEF Overriding
  <2>5. "api_token" \notin DOMAIN file =>
          Overriding(file, default_config)["api_token"] = NoToken
    BY <1>2, KnobPaths DEF Overriding
  <2> QED BY <1>3, <1>5, <2>1, <2>2, <2>3, <2>4, <2>5
<1> QED BY <1>4, <1>5

LEMMA MintedFacts ==
  ASSUME tokens \in Nat, NEW config \in Configs
  PROVE  /\ Minted(config) \in Configs /\ Minted(config)["api_token"] # NoToken
         /\ \A path \in Paths \ {"api_token"} : Minted(config)[path] = config[path]
         /\ config["api_token"] # NoToken => Minted(config) = config
<1>1. "api_token" \in Paths /\ tokens + 1 \in Int /\ tokens + 1 # NoToken
  BY KnobPaths DEF NoToken
<1> QED BY <1>1 DEF Minted, Configs
-----------------------------------------------------------------------------
(* Steps that change a setting, a label or a file.                         *)

LEMMA StartKeepsSettings ==
  ASSUME SettingsInv, Start
  PROVE  SettingsInv'
<1> DEFINE merged == _deep_merge
<1>1. /\ Accepted /\ live' = Minted(merged) /\ stored' = stored
      /\ \/ live' = merged /\ file' = file /\ tokens' = tokens
         \/ file' = live' /\ tokens' = tokens + 1
      /\ labels' = IF stored = Null \/ stored = Torn THEN NoLabels ELSE stored
      /\ told' = Overriding(told, [api_token |-> live'["api_token"]])
  BY DEF Start, StartAgent, load, LoadLabels
<1>2. LiveOK /\ FileOK /\ LabelsOK /\ tokens \in Nat /\ ToldOK /\ ToldIsFiled
  BY DEF SettingsInv
<1>3. /\ file # Torn /\ merged \in Configs
      /\ file = Null => merged["api_token"] = NoToken
      /\ file # Null => \A path \in DOMAIN file : path \in Paths /\ merged[path] = file[path]
      /\ file # Null /\ "api_token" \notin DOMAIN file => merged["api_token"] = NoToken
  BY <1>1, <1>2, MergeFacts, DefaultFacts
<1> HIDE DEF merged
<1>4. /\ live' \in Configs /\ live'["api_token"] # NoToken
      /\ \A path \in Paths \ {"api_token"} : live'[path] = merged[path]
      /\ merged["api_token"] # NoToken => live' = merged
  BY <1>1, <1>2, <1>3, MintedFacts
<1>5. LiveOK' /\ tokens' \in Nat
  BY <1>1, <1>2, <1>4 DEF LiveOK
<1>6. FileOK'
  <2>1. CASE file' = file
    BY <1>2, <2>1 DEF FileOK
  <2>2. CASE file' = live'
    BY <1>4, <2>2 DEF FileOK, IsFile, Configs
  <2> QED BY <1>1, <2>1, <2>2
<1>7. LabelsOK'
  BY <1>1, <1>2 DEF LabelsOK, NoLabels, Counts
<1>8. /\ DOMAIN told' = DOMAIN told \cup {"api_token"}
      /\ \A path \in DOMAIN told : told'[path] = told[path]
      /\ "api_token" \notin DOMAIN told => told'["api_token"] = live'["api_token"]
  BY <1>1 DEF Overriding
<1>9. ToldOK'
  BY <1>2, <1>4, <1>8 DEF ToldOK
<1>10. \A path \in DOMAIN told :
         path \in Paths /\ file # Null /\ path \in DOMAIN file /\ file[path] = told[path]
         /\ live'[path] = told[path]
  <2> TAKE path \in DOMAIN told
  <2>1. file # Null /\ path \in DOMAIN file /\ file[path] = told[path]
    BY <1>2, <1>3 DEF ToldIsFiled
  <2>2. path \in Paths /\ merged[path] = told[path]
    BY <1>3, <2>1
  <2>3. CASE path = "api_token"
    BY <1>2, <1>4, <2>1, <2>2, <2>3 DEF ToldOK
  <2>4. CASE path # "api_token"
    BY <1>4, <2>1, <2>2, <2>4
  <2> QED BY <2>3, <2>4
<1>11. ToldSurvives'
  BY <1>8, <1>10 DEF ToldSurvives
<1>12. ToldIsFiled'
  <2>1. CASE file' = live'
    <3>1. live' # Null /\ DOMAIN live' = Paths
      BY <1>4, NoFileAssumption DEF Configs
    <3>2. \A path \in DOMAIN told' : path \in Paths /\ live'[path] = told'[path]
      BY <1>8, <1>10, KnobPaths
    <3> QED BY <2>1, <3>1, <3>2 DEF ToldIsFiled
  <2>2. CASE live' = merged /\ file' = file
    <3>1. file # Null /\ "api_token" \in DOMAIN file
      BY <1>3, <1>4, <2>2
    <3>2. file["api_token"] = live'["api_token"]
      BY <1>3, <2>2, <3>1
    <3> QED BY <1>8, <1>10, <2>2, <3>1, <3>2 DEF ToldIsFiled
  <2> QED BY <1>1, <2>1, <2>2
<1> QED BY <1>5, <1>6, <1>7, <1>9, <1>11, <1>12 DEF SettingsInv
LEMMA StartFailsKeepsSettings ==
  ASSUME SettingsInv, StartFails
  PROVE  SettingsInv'
<1> DEFINE minted == Minted(_deep_merge)
<1>1. /\ ~ Up /\ Accepted /\ file' \in {file, Torn, minted} /\ tokens' = tokens + 1
      /\ live' = live /\ labels' = labels /\ stored' = stored /\ told' = told
  BY DEF StartFails, StartInterrupted, Interrupted
<1>2. LiveOK /\ FileOK /\ LabelsOK /\ tokens \in Nat /\ ToldOK /\ ToldIsFiled
  BY DEF SettingsInv
<1>3. /\ file # Torn /\ _deep_merge \in Configs
      /\ file # Null => \A path \in DOMAIN file : path \in Paths /\ _deep_merge[path] = file[path]
  BY <1>1, <1>2, MergeFacts
<1>4. /\ minted \in Configs
      /\ \A path \in Paths \ {"api_token"} : minted[path] = _deep_merge[path]
      /\ _deep_merge["api_token"] # NoToken => minted = _deep_merge
  BY <1>2, <1>3, MintedFacts
<1> HIDE DEF minted
<1>5. LiveOK' /\ LabelsOK' /\ ToldOK' /\ ToldSurvives' /\ tokens' \in Nat
  BY <1>1, <1>2 DEF LiveOK, LabelsOK, ToldOK, ToldSurvives, Up
<1>6. FileOK'
  BY <1>1, <1>2, <1>4 DEF FileOK, IsFile, Configs
<1>7. ToldIsFiled'
  <2>1. SUFFICES ASSUME file' = minted
                 PROVE  ToldIsFiled'
    BY <1>1, <1>2 DEF ToldIsFiled
  <2>2. minted # Null /\ DOMAIN minted = Paths
    BY <1>4, NoFileAssumption DEF Configs
  <2>3. ASSUME NEW path \in DOMAIN told
        PROVE  path \in Paths /\ minted[path] = told[path]
    <3>1. file # Null /\ path \in DOMAIN file /\ file[path] = told[path]
      BY <1>2, <1>3 DEF ToldIsFiled
    <3>2. path \in Paths /\ _deep_merge[path] = told[path]
      BY <1>3, <3>1
    <3>3. CASE path = "api_token"
      BY <1>2, <1>4, <3>2, <3>3 DEF ToldOK
    <3>4. CASE path # "api_token"
      BY <1>4, <3>2, <3>4
    <3> QED BY <3>3, <3>4
  <2> QED BY <1>1, <2>1, <2>2, <2>3 DEF ToldIsFiled
<1> QED BY <1>5, <1>6, <1>7 DEF SettingsInv

LEMMA NoCounts == NoLabels \in Counts
BY DEF NoLabels, Counts

LEMMA ConfigureKeepsSettings ==
  ASSUME SettingsInv, NEW patch, Configure(patch)
  PROVE  SettingsInv'
<1> DEFINE patched == apply_console_patch(live, patch)
<1>1. /\ Up /\ live' = patched
      /\ file' = IF Saved(patch) THEN live' ELSE file
      /\ labels' = labels /\ stored' = stored /\ tokens' = tokens
      /\ told' = Overriding([path \in Applied(patch) |-> patch[path]], told)
  BY DEF Configure, Patch
<1>2. LiveOK /\ FileOK /\ LabelsOK /\ tokens \in Nat /\ ToldOK /\ ToldIsFiled /\ ToldSurvives
  BY DEF SettingsInv
<1>3. live \in Configs /\ live["api_token"] # NoToken
  BY <1>1, <1>2 DEF LiveOK
<1>4. /\ patched \in Configs /\ patched["api_token"] = live["api_token"]
      /\ Applied(patch) \subseteq DOMAIN patch /\ Applied(patch) \subseteq CONSOLE_WRITABLE
      /\ \A path \in Applied(patch) : patched[path] = patch[path]
      /\ \A path \in Paths \ Applied(patch) : patched[path] = live[path]
  BY <1>3, PatchFacts
<1> HIDE DEF patched
<1>5. LiveOK' /\ LabelsOK' /\ tokens' \in Nat
  BY <1>1, <1>2, <1>3, <1>4 DEF LiveOK, LabelsOK
<1>6. FileOK'
  BY <1>1, <1>2, <1>4 DEF FileOK, IsFile, Configs
<1>7. /\ DOMAIN told' = Applied(patch) \cup DOMAIN told
      /\ \A path \in Applied(patch) : told'[path] = patch[path]
      /\ \A path \in DOMAIN told \ Applied(patch) : told'[path] = told[path]
  BY <1>1 DEF Overriding
<1>8. ToldOK'
  BY <1>2, <1>4, <1>7, KnobPaths DEF ToldOK
<1>9. \A path \in DOMAIN told' : path \in Paths /\ live'[path] = told'[path]
  BY <1>1, <1>2, <1>4, <1>7, KnobPaths DEF ToldOK, ToldSurvives
<1>10. ToldIsFiled'
  <2>1. CASE Saved(patch)
    <3>1. file' = live' /\ live' # Null /\ DOMAIN live' = Paths
      BY <1>1, <1>4, <2>1, NoFileAssumption DEF Configs
    <3> QED BY <1>9, <3>1 DEF ToldIsFiled
  <2>2. CASE ~ Saved(patch)
    <3>1. Applied(patch) = {} /\ file' = file
      BY <1>1, <2>2 DEF Saved
    <3> QED BY <1>2, <1>7, <3>1 DEF ToldIsFiled
  <2> QED BY <2>1, <2>2
<1> QED BY <1>5, <1>6, <1>8, <1>9, <1>10 DEF SettingsInv, ToldSurvives

LEMMA ConfigureFailsKeepsSettings ==
  ASSUME SettingsInv, NEW patch, ConfigureFails(patch)
  PROVE  SettingsInv'
<1> DEFINE patched == apply_console_patch(live, patch)
<1>1. /\ Up /\ file' \in {file, Torn, patched} /\ live' \in {Null, patched}
      /\ labels' \in {labels, NoLabels} /\ stored' = stored /\ tokens' = tokens
      /\ told' = [path \in DOMAIN told \ DOMAIN patch |-> told[path]]
  BY DEF ConfigureFails, PatchUnsaved, PatchCrashes, Dead, Interrupted, Without
<1>2. LiveOK /\ FileOK /\ LabelsOK /\ tokens \in Nat /\ ToldOK /\ ToldIsFiled /\ ToldSurvives
  BY DEF SettingsInv
<1>3. live \in Configs /\ live["api_token"] # NoToken
  BY <1>1, <1>2 DEF LiveOK
<1>4. /\ patched \in Configs /\ patched["api_token"] = live["api_token"]
      /\ Applied(patch) \subseteq DOMAIN patch
      /\ \A path \in Paths \ Applied(patch) : patched[path] = live[path]
  BY <1>3, PatchFacts
<1> HIDE DEF patched
<1>5. LiveOK' /\ LabelsOK' /\ tokens' \in Nat
  BY <1>1, <1>2, <1>3, <1>4, NoCounts DEF LiveOK, LabelsOK, Up
<1>6. FileOK'
  BY <1>1, <1>2, <1>4 DEF FileOK, IsFile, Configs
<1>7. /\ DOMAIN told' = DOMAIN told \ DOMAIN patch
      /\ \A path \in DOMAIN told' : told'[path] = told[path]
  BY <1>1
<1>8. ToldOK'
  BY <1>2, <1>7 DEF ToldOK
<1>9. \A path \in DOMAIN told' : path \in Paths /\ patched[path] = told'[path]
  BY <1>1, <1>2, <1>4, <1>7, KnobPaths DEF ToldOK, ToldSurvives
<1>10. ToldSurvives'
  BY <1>1, <1>9 DEF ToldSurvives, Up
<1>11. patched # Null /\ DOMAIN patched = Paths
  BY <1>4, NoFileAssumption DEF Configs
<1>12. ToldIsFiled'
  BY <1>1, <1>2, <1>7, <1>9, <1>11 DEF ToldIsFiled
<1> QED BY <1>5, <1>6, <1>8, <1>10, <1>12 DEF SettingsInv

\* What a label does to the settings, whether or not its answer is lost with the process.
LEMMA LabelKeepsSettings ==
  ASSUME SettingsInv, Up, NEW metric \in Metrics, feedback(metric) \/ FeedbackCrashes(metric),
         file' = file, tokens' = tokens, told' = Without({METRIC_TO_THRESHOLD[metric]})
  PROVE  SettingsInv'
<1> DEFINE key == METRIC_TO_THRESHOLD[metric]
<1>1. LiveOK /\ FileOK /\ LabelsOK /\ tokens \in Nat /\ ToldOK /\ ToldIsFiled /\ ToldSurvives
  BY DEF SettingsInv
<1>2. live \in Configs /\ live["api_token"] # NoToken /\ key \in Paths /\ key # "api_token"
  BY <1>1, KnobPaths DEF LiveOK
<1>3. /\ DOMAIN told' = DOMAIN told \ {key}
      /\ \A path \in DOMAIN told' : told'[path] = told[path]
  BY DEF Without
<1> HIDE DEF key
<1>4. /\ FileOK' /\ tokens' \in Nat /\ ToldOK' /\ ToldIsFiled'
  BY <1>1, <1>3 DEF FileOK, ToldOK, ToldIsFiled
<1>5. CASE FeedbackCrashes(metric)
  <2>1. live' = Null /\ labels' = NoLabels /\ stored' = Torn
    BY <1>5 DEF FeedbackCrashes, Dead
  <2> QED BY <1>4, <2>1, NoCounts DEF SettingsInv, LiveOK, LabelsOK, ToldSurvives, Up
<1>6. CASE feedback(metric)
  <2>1. CASE live["enabled"] = 0
    <3>1. live' = live /\ labels' = labels /\ stored' = stored
      BY <1>6, <2>1 DEF feedback
    <3> QED BY <1>1, <1>3, <1>4, <3>1 DEF SettingsInv, LiveOK, LabelsOK, ToldSurvives, Up
  <2>2. CASE live["enabled"] # 0
    <3>1. /\ labels' = [labels EXCEPT ![metric] = @ + 1] /\ stored' \in {labels', stored, Torn}
          /\ \E delta \in Deltas(metric) : live' = [live EXCEPT ![key] = Clamped(@ + delta)]
      BY <1>6, <2>2 DEF feedback, Relabelled, key
    <3>2. labels' \in Counts
      BY <1>1, <3>1 DEF LabelsOK, Counts
    <3>3. PICK moved : live' = [live EXCEPT ![key] = moved] /\ moved \in Int
      <4>1. PICK delta \in Deltas(metric) : live' = [live EXCEPT ![key] = Clamped(@ + delta)]
        BY <3>1
      <4>2. delta \in Int
        BY <4>1, AdaptiveAssumption DEF Deltas
      <4>3. live[key] + delta \in Int
        BY <1>2, <4>2 DEF Configs
      <4>4. Clamped(live[key] + delta) \in Int
        BY <4>3, AdaptiveAssumption DEF Clamped
      <4> QED BY <4>1, <4>4
    <3>4. live' \in Configs /\ \A path \in Paths \ {key} : live'[path] = live[path]
      BY <1>2, <3>3 DEF Configs
    <3>5. LiveOK' /\ LabelsOK'
      BY <1>1, <1>2, <3>1, <3>2, <3>4, KnobPaths DEF LiveOK, LabelsOK
    <3>6. ToldSurvives'
      BY <1>1, <1>3, <3>4, KnobPaths DEF ToldOK, ToldSurvives
    <3> QED BY <1>4, <3>5, <3>6 DEF SettingsInv
  <2> QED BY <2>1, <2>2
<1> QED BY <1>5, <1>6

LEMMA EditKeepsSettings ==
  ASSUME SettingsInv, NEW content \in Edits, EditByHand(content)
  PROVE  SettingsInv'
<1>1. file' = content /\ live' = live /\ labels' = labels /\ stored' = stored /\ tokens' = tokens
      /\ told' = <<>>
  BY DEF EditByHand, HandEdit
<1>2. IsFile(content)
  BY EditsAssumption DEF IsFile
<1>3. DOMAIN told' = {}
  BY <1>1
<1> QED BY <1>1, <1>2, <1>3
        DEF SettingsInv, LiveOK, FileOK, LabelsOK, ToldOK, ToldIsFiled, ToldSurvives, Up

LEMMA StopKeepsSettings ==
  ASSUME SettingsInv, Stop
  PROVE  SettingsInv'
<1>1. /\ live' = Null /\ labels' = NoLabels
      /\ file' = file /\ stored' = stored /\ tokens' = tokens /\ told' = told
  BY DEF Stop, StopAgent, Dead
<1> QED BY <1>1, NoCounts
        DEF SettingsInv, LiveOK, FileOK, LabelsOK, ToldOK, ToldIsFiled, ToldSurvives, Up

LEMMA SameSettings ==
  ASSUME SettingsInv, UNCHANGED <<settings, told>>
  PROVE  SettingsInv'
BY DEF SettingsInv, settings, LiveOK, FileOK, LabelsOK, ToldOK, ToldIsFiled, ToldSurvives, Up

LEMMA InitSettings ==
  ASSUME Init
  PROVE  SettingsInv
<1>1. DOMAIN told = {}
  BY DEF Init
<1> QED BY <1>1, NoCounts
        DEF Init, SettingsInv, LiveOK, FileOK, LabelsOK, ToldOK, ToldIsFiled, ToldSurvives, Up

-----------------------------------------------------------------------------
(* The list of alerts.                                                     *)

Targets == Boards \cup Machines
AlertRecords ==
  [metric : Metrics, target : Targets, severity : {"ALERT", "CRITICAL"}, id : Nat, open : BOOLEAN]

\* The ids of a list grow, up to the last one given.
IdsGrow(list, last) ==
  \A i \in 1..Len(list) :
    list[i].id \in 1..last /\ \A j \in 1..Len(list) : i < j => list[i].id < list[j].id

OneOpen(list) ==
  \A i, j \in 1..Len(list) :
    /\ list[i].open /\ list[j].open
    /\ list[i].metric = list[j].metric /\ list[i].target = list[j].target
    => i = j

Findings == [metric : Metrics, target : Targets, severity : {"ALERT", "CRITICAL"}]

\* Alerts as a poll finds them: one of each board and trend.
IsFound(found) ==
  /\ IsFiniteSet(found)
  /\ found \subseteq Findings
  /\ \A a, b \in found : a.metric = b.metric /\ a.target = b.target => a = b

OpenIds(list) == {list[i].id : i \in {k \in 1..Len(list) : list[k].open}}

ListOK == alerts \in Seq(AlertRecords) /\ raised \in Nat /\ IdsGrow(alerts, raised) /\ OneOpen(alerts)

LEMMA SetToSeqFacts ==
  ASSUME NEW S, IsFiniteSet(S)
  PROVE  LET s == SetToSeq(S) IN
         /\ s \in Seq(S) /\ Len(s) = Cardinality(S) /\ DOMAIN s = 1..Len(s)
         /\ \A i, j \in 1..Len(s) : s[i] = s[j] => i = j
         /\ \A x \in S : \E i \in 1..Len(s) : s[i] = x
<1> DEFINE n == Cardinality(S)
           s == SetToSeq(S)
<1>1. n \in Nat /\ ExistsBijection(1..n, S) /\ IsFiniteSet(1..n) /\ Cardinality(1..n) = n
  BY FS_CardinalityType, FS_Interval
<1>2. \E f \in [1..n -> S] : IsInjective(f)
  BY <1>1 DEF ExistsBijection, Bijection, Injection
<1>3. s \in [1..n -> S] /\ IsInjective(s)
  BY <1>2 DEF SetToSeq
<1> HIDE DEF s, n
<1>4. s \in Injection(1..n, S)
  BY <1>3 DEF Injection
<1>5. n = Cardinality(S)
  BY DEF n
<1>6. s \in Surjection(1..n, S)
  BY <1>1, <1>4, <1>5, FS_Injection
<1>7. s \in Seq(S) /\ Len(s) = n /\ DOMAIN s = 1..n
  BY <1>1, <1>3
<1>8. \A x \in S : \E i \in 1..n : s[i] = x
  BY <1>6 DEF Surjection
<1>9. \A i, j \in 1..n : s[i] = s[j] => i = j
  BY <1>3, <1>7 DEF IsInjective
<1> QED BY <1>5, <1>7, <1>8, <1>9 DEF s

\* What Extend numbers, before the deque drops anything.
Fresh(found) == SetToSeq({alert \in found : ~ IsOpen(alert)})
Numbered(found) ==
  [i \in DOMAIN Fresh(found) |->
     [metric |-> Fresh(found)[i].metric, target |-> Fresh(found)[i].target,
      severity |-> Fresh(found)[i].severity, id |-> raised + i, open |-> TRUE]]
All(found) == alerts \o Numbered(found)

LEMMA FreshFacts ==
  ASSUME NEW found, IsFound(found)
  PROVE  /\ Fresh(found) \in Seq(found) /\ DOMAIN Fresh(found) = 1..Len(Fresh(found))
         /\ \A i \in 1..Len(Fresh(found)) : ~ IsOpen(Fresh(found)[i])
         /\ \A i, j \in 1..Len(Fresh(found)) : Fresh(found)[i] = Fresh(found)[j] => i = j
         /\ \A alert \in found : ~ IsOpen(alert) =>
              \E i \in 1..Len(Fresh(found)) : Fresh(found)[i] = alert
<1> DEFINE new == {alert \in found : ~ IsOpen(alert)}
           s == SetToSeq(new)
<1>1. new \subseteq found /\ \A alert \in found : alert \in new <=> ~ IsOpen(alert)
  OBVIOUS
<1> HIDE DEF new
<1>2. IsFiniteSet(new)
  BY <1>1, FS_Subset DEF IsFound
<1>3. /\ s \in Seq(new) /\ DOMAIN s = 1..Len(s)
      /\ \A i, j \in 1..Len(s) : s[i] = s[j] => i = j
      /\ \A x \in new : \E i \in 1..Len(s) : s[i] = x
  BY <1>2, SetToSeqFacts
<1> HIDE DEF s
<1>4. s \in Seq(found)
  BY <1>1, <1>3, SeqMonotonic
<1>5. \A i \in 1..Len(s) : ~ IsOpen(s[i])
  BY <1>1, <1>3, ElementOfSeq
<1>6. s = Fresh(found)
  BY DEF s, Fresh, new
<1> QED BY <1>1, <1>3, <1>4, <1>5, <1>6

LEMMA NumberedFacts ==
  ASSUME NEW found, IsFound(found), raised \in Nat
  PROVE  LET fresh == Fresh(found)
             numbered == Numbered(found) IN
         /\ numbered \in Seq(AlertRecords) /\ Len(numbered) = Len(fresh) /\ Len(fresh) \in Nat
         /\ \A i \in 1..Len(fresh) :
              /\ fresh[i] \in found
              /\ numbered[i].metric = fresh[i].metric /\ numbered[i].target = fresh[i].target
              /\ numbered[i].id = raised + i /\ numbered[i].open
<1> DEFINE fresh == Fresh(found)
           numbered == Numbered(found)
<1>1. fresh \in Seq(found) /\ DOMAIN fresh = 1..Len(fresh)
  BY FreshFacts
<1>2. Len(fresh) \in Nat /\ \A i \in 1..Len(fresh) : fresh[i] \in found
  BY <1>1, LenProperties, ElementOfSeq
<1>3. numbered = [i \in 1..Len(fresh) |->
        [metric |-> fresh[i].metric, target |-> fresh[i].target,
         severity |-> fresh[i].severity, id |-> raised + i, open |-> TRUE]]
  BY <1>1 DEF Numbered
<1> HIDE DEF numbered, fresh
<1>4. ASSUME NEW i \in 1..Len(fresh)
      PROVE  /\ numbered[i].metric = fresh[i].metric /\ numbered[i].target = fresh[i].target
             /\ numbered[i].id = raised + i /\ numbered[i].open
             /\ numbered[i] \in AlertRecords
  <2>1. fresh[i] \in [metric : Metrics, target : Targets, severity : {"ALERT", "CRITICAL"}]
    BY <1>2 DEF IsFound, Findings
  <2>2. /\ fresh[i].metric \in Metrics /\ fresh[i].target \in Targets
        /\ fresh[i].severity \in {"ALERT", "CRITICAL"} /\ raised + i \in Nat
    BY <2>1, <1>2
  <2>3. numbered[i] = [metric |-> fresh[i].metric, target |-> fresh[i].target,
         severity |-> fresh[i].severity, id |-> raised + i, open |-> TRUE]
    BY <1>3
  <2> QED BY <2>2, <2>3 DEF AlertRecords
<1>5. numbered \in [1..Len(fresh) -> AlertRecords]
  BY <1>3, <1>4
<1>6. numbered \in Seq(AlertRecords) /\ Len(numbered) = Len(fresh)
  BY <1>2, <1>5
<1> QED BY <1>2, <1>4, <1>6 DEF fresh, numbered
\* A list where each of what was found is open.
IsShown(list, alert) ==
  \E i \in 1..Len(list) :
    list[i].open /\ list[i].metric = alert.metric /\ list[i].target = alert.target

\* The entries after the first ones: the alerts raised now, each for something found.
RaisedFor(list, last, found) ==
  \A i \in 1..Len(list) : list[i].id > last =>
    \E alert \in found : list[i].metric = alert.metric /\ list[i].target = alert.target

LEMMA AllFacts ==
  ASSUME ListOK, NEW found, IsFound(found)
  PROVE  LET all == All(found)
             last == raised + Len(Fresh(found)) IN
         /\ all \in Seq(AlertRecords) /\ last \in Nat /\ last >= raised
         /\ IdsGrow(all, last) /\ OneOpen(all)
         /\ \A alert \in found : IsShown(all, alert)
         /\ RaisedFor(all, raised, found)
         /\ OpenIds(all) \subseteq OpenIds(alerts) \cup (raised + 1)..last
<1> DEFINE fresh == Fresh(found)
           numbered == Numbered(found)
           all == All(found)
           n == Len(alerts)
           m == Len(fresh)
<1>1. alerts \in Seq(AlertRecords) /\ raised \in Nat /\ IdsGrow(alerts, raised) /\ OneOpen(alerts)
  BY DEF ListOK
<1>2. /\ DOMAIN fresh = 1..m
      /\ \A i \in 1..m : ~ IsOpen(fresh[i])
      /\ \A i, j \in 1..m : fresh[i] = fresh[j] => i = j
      /\ \A alert \in found : ~ IsOpen(alert) => \E i \in 1..m : fresh[i] = alert
  BY FreshFacts
<1>3. /\ numbered \in Seq(AlertRecords) /\ Len(numbered) = m /\ m \in Nat
      /\ \A i \in 1..m :
           /\ fresh[i] \in found
           /\ numbered[i].metric = fresh[i].metric /\ numbered[i].target = fresh[i].target
           /\ numbered[i].id = raised + i /\ numbered[i].open
  BY <1>1, NumberedFacts
<1>4. n \in Nat /\ DOMAIN alerts = 1..n
  BY <1>1, LenProperties
<1>5. all = alerts \o numbered
  BY DEF All
<1> HIDE DEF numbered, fresh, all, n, m
<1>6. /\ all \in Seq(AlertRecords) /\ Len(all) = n + m
      /\ \A i \in 1..n + m : all[i] = IF i <= n THEN alerts[i] ELSE numbered[i - n]
  BY <1>1, <1>3, <1>5, ConcatProperties DEF n
<1>7. \A i \in 1..n : all[i] = alerts[i] /\ i \in 1..n + m
  BY <1>3, <1>4, <1>6
<1>8. \A i \in 1..m : all[n + i] = numbered[i] /\ n + i \in 1..n + m
  BY <1>3, <1>4, <1>6
<1>9. \A i \in 1..n + m : i \in 1..n \/ (i - n \in 1..m /\ all[i] = numbered[i - n])
  BY <1>3, <1>4, <1>6
<1>10. \A i \in 1..n : alerts[i].id \in 1..raised
                       /\ \A j \in 1..n : i < j => alerts[i].id < alerts[j].id
  BY <1>1 DEF IdsGrow, n
<1>11. IdsGrow(all, raised + m)
  <2>1. ASSUME NEW i \in 1..n + m
        PROVE  all[i].id \in 1..raised + m
    <3>1. CASE i \in 1..n
      BY <1>1, <1>3, <1>7, <1>10, <3>1
    <3>2. CASE i - n \in 1..m /\ all[i] = numbered[i - n]
      BY <1>1, <1>3, <1>4, <3>2
    <3> QED BY <1>9, <3>1, <3>2
  <2>2. ASSUME NEW i \in 1..n + m, NEW j \in 1..n + m, i < j
        PROVE  all[i].id < all[j].id
    <3>1. CASE i \in 1..n /\ j \in 1..n
      BY <1>7, <1>10, <2>2, <3>1
    <3>2. CASE i \in 1..n /\ j - n \in 1..m /\ all[j] = numbered[j - n]
      <4>1. all[i].id \in 1..raised /\ all[j].id = raised + (j - n) /\ j - n \in 1..m
        BY <1>3, <1>7, <1>10, <3>2
      <4> QED BY <1>1, <1>3, <4>1
    <3>3. CASE i - n \in 1..m /\ all[i] = numbered[i - n] /\ j - n \in 1..m /\ all[j] = numbered[j - n]
      <4>1. all[i].id = raised + (i - n) /\ all[j].id = raised + (j - n)
        BY <1>3, <3>3
      <4> QED BY <1>1, <1>3, <1>4, <2>2, <4>1
    <3>4. CASE i - n \in 1..m /\ j \in 1..n
      BY <1>3, <1>4, <2>2, <3>4
    <3> QED BY <1>9, <3>1, <3>2, <3>3, <3>4
  <2> QED BY <1>6, <2>1, <2>2 DEF IdsGrow
<1>12. \A i \in 1..m : ~ \E k \in 1..n :
         alerts[k].open /\ alerts[k].metric = numbered[i].metric /\ alerts[k].target = numbered[i].target
  BY <1>2, <1>3, <1>4 DEF IsOpen
<1>13. ASSUME NEW i \in 1..m, NEW j \in 1..m,
              numbered[i].metric = numbered[j].metric, numbered[i].target = numbered[j].target
       PROVE  i = j
  BY <1>2, <1>3, <1>13 DEF IsFound
<1>14. OneOpen(all)
  <2> SUFFICES ASSUME NEW i \in 1..n + m, NEW j \in 1..n + m, all[i].open, all[j].open,
                      all[i].metric = all[j].metric, all[i].target = all[j].target
               PROVE  i = j
    BY <1>6 DEF OneOpen
  <2>1. CASE i \in 1..n /\ j \in 1..n
    BY <1>1, <1>7, <2>1 DEF OneOpen, n
  <2>2. CASE i \in 1..n /\ j - n \in 1..m /\ all[j] = numbered[j - n]
    BY <1>7, <1>12, <2>2
  <2>3. CASE i - n \in 1..m /\ all[i] = numbered[i - n] /\ j \in 1..n
    BY <1>7, <1>12, <2>3
  <2>4. CASE i - n \in 1..m /\ all[i] = numbered[i - n] /\ j - n \in 1..m /\ all[j] = numbered[j - n]
    <3>1. i - n = j - n
      BY <1>13, <2>4
    <3> QED BY <1>3, <1>4, <3>1
  <2> QED BY <1>9, <2>1, <2>2, <2>3, <2>4
<1>15. ASSUME NEW alert \in found
       PROVE  IsShown(all, alert)
  <2>1. CASE IsOpen(alert)
    BY <1>4, <1>6, <1>7, <2>1 DEF IsOpen, IsShown
  <2>2. CASE ~ IsOpen(alert)
    <3>1. PICK i \in 1..m : fresh[i] = alert
      BY <1>2, <2>2
    <3> QED BY <1>3, <1>6, <1>8, <3>1 DEF IsShown
  <2> QED BY <2>1, <2>2
<1>16. RaisedFor(all, raised, found)
  <2> SUFFICES ASSUME NEW i \in 1..n + m, all[i].id > raised
               PROVE  \E alert \in found : all[i].metric = alert.metric /\ all[i].target = alert.target
    BY <1>6 DEF RaisedFor
  <2>1. i \notin 1..n
    BY <1>1, <1>7, <1>10
  <2> QED BY <1>3, <1>9, <2>1
<1>17. raised + m \in Nat /\ raised + m >= raised
  BY <1>1, <1>3
<1>18. OpenIds(all) \subseteq OpenIds(alerts) \cup (raised + 1)..(raised + m)
  <2> SUFFICES ASSUME NEW i \in 1..n + m, all[i].open
               PROVE  all[i].id \in OpenIds(alerts) \cup (raised + 1)..(raised + m)
    BY <1>6 DEF OpenIds
  <2>1. CASE i \in 1..n
    BY <1>7, <2>1 DEF OpenIds, n
  <2>2. CASE i - n \in 1..m /\ all[i] = numbered[i - n]
    <3>1. all[i].id = raised + (i - n) /\ i - n \in 1..m
      BY <1>3, <2>2
    <3> QED BY <1>1, <1>3, <3>1
  <2> QED BY <1>9, <2>1, <2>2
<1> QED BY <1>6, <1>11, <1>14, <1>15, <1>16, <1>17, <1>18 DEF all, m, fresh
\* The deque after the alerts numbered up to last: the last MaxAlerts of the list.
LEMMA DequeFacts ==
  ASSUME NEW list \in Seq(AlertRecords), NEW last \in Nat, NEW before \in Nat, NEW found,
         IdsGrow(list, last), OneOpen(list), RaisedFor(list, before, found),
         \A alert \in found : IsShown(list, alert)
  PROVE  LET kept == IF Len(list) > MaxAlerts
                     THEN SubSeq(list, Len(list) - MaxAlerts + 1, Len(list)) ELSE list IN
         /\ kept \in Seq(AlertRecords) /\ Len(kept) <= MaxAlerts
         /\ IdsGrow(kept, last) /\ OneOpen(kept) /\ RaisedFor(kept, before, found)
         /\ OpenIds(kept) \subseteq OpenIds(list)
         /\ Len(kept) < MaxAlerts => \A alert \in found : IsShown(kept, alert)
<1> DEFINE kept == IF Len(list) > MaxAlerts
                   THEN SubSeq(list, Len(list) - MaxAlerts + 1, Len(list)) ELSE list
<1>1. Len(list) \in Nat /\ MaxAlerts \in Nat /\ \A i \in 1..Len(list) : list[i] \in AlertRecords
  BY LenProperties, ElementOfSeq, AlertsAssumption
<1>2. CASE Len(list) <= MaxAlerts
  BY <1>1, <1>2
<1>3. CASE Len(list) > MaxAlerts
  <2> DEFINE d == Len(list) - MaxAlerts
             tail == SubSeq(list, d + 1, Len(list))
  <2>1. d \in Nat /\ d + 1 \in Int /\ Len(list) = d + MaxAlerts
    BY <1>1, <1>3
  <2>2. kept = tail
    BY <1>3
  <2> HIDE DEF d, kept
  <2>3. /\ tail \in Seq(AlertRecords) /\ Len(tail) = MaxAlerts
        /\ \A i \in 1..MaxAlerts : tail[i] = list[d + i]
    <3>1. \A i \in d + 1..Len(list) : list[i] \in AlertRecords
      BY <1>1, <2>1
    <3>2. /\ tail \in Seq(AlertRecords)
          /\ Len(tail) = IF d + 1 <= Len(list) THEN Len(list) - (d + 1) + 1 ELSE 0
          /\ \A i \in 1..Len(list) - (d + 1) + 1 : tail[i] = list[d + 1 + i - 1]
      BY <1>1, <2>1, <3>1, SubSeqProperties
    <3>3. Len(list) - (d + 1) + 1 = MaxAlerts /\ Len(tail) = MaxAlerts
      BY <1>1, <2>1, <3>2
    <3>4. \A i \in 1..MaxAlerts : d + 1 + i - 1 = d + i
      BY <1>1, <2>1
    <3> QED BY <3>2, <3>3, <3>4
  <2> HIDE DEF tail
  <2>4. \A i \in 1..MaxAlerts : d + i \in 1..Len(list)
    BY <1>1, <2>1
  <2>5. \A i, j \in 1..MaxAlerts : (i < j => d + i < d + j) /\ (d + i = d + j => i = j)
    BY <1>1, <2>1
  <2>6. IdsGrow(tail, last)
    BY <2>3, <2>4, <2>5 DEF IdsGrow
  <2>7. OneOpen(tail)
    BY <2>3, <2>4, <2>5 DEF OneOpen
  <2>8. RaisedFor(tail, before, found)
    BY <2>3, <2>4 DEF RaisedFor
  <2>9. OpenIds(tail) \subseteq OpenIds(list)
    BY <2>3, <2>4 DEF OpenIds
  <2>10. /\ kept \in Seq(AlertRecords) /\ Len(kept) = MaxAlerts
         /\ IdsGrow(kept, last) /\ OneOpen(kept) /\ RaisedFor(kept, before, found)
         /\ OpenIds(kept) \subseteq OpenIds(list)
    BY <2>2, <2>3, <2>6, <2>7, <2>8, <2>9
  <2>11. Len(kept) <= MaxAlerts /\ ~ (Len(kept) < MaxAlerts)
    BY <1>1, <2>10
  <2> QED BY <2>10, <2>11 DEF kept
<1> QED BY <1>1, <1>2, <1>3

LEMMA ExtendFacts ==
  ASSUME ListOK, NEW found, IsFound(found), Extend(found)
  PROVE  /\ alerts' \in Seq(AlertRecords) /\ Len(alerts') <= MaxAlerts
         /\ raised' \in Nat /\ raised' <= MaxRaised /\ raised' >= raised
         /\ IdsGrow(alerts', raised') /\ OneOpen(alerts')
         /\ RaisedFor(alerts', raised, found)
         /\ OpenIds(alerts') \subseteq OpenIds(alerts) \cup (raised + 1)..raised'
         /\ Len(alerts') < MaxAlerts => \A alert \in found : IsShown(alerts', alert)
<1> DEFINE all == All(found)
           last == raised + Len(Fresh(found))
<1>1. /\ last <= MaxRaised /\ raised' = last
      /\ alerts' = IF Len(all) > MaxAlerts THEN SubSeq(all, Len(all) - MaxAlerts + 1, Len(all)) ELSE all
  BY DEF Extend, All, Numbered, Fresh
<1>2. /\ all \in Seq(AlertRecords) /\ last \in Nat /\ last >= raised
      /\ IdsGrow(all, last) /\ OneOpen(all)
      /\ \A alert \in found : IsShown(all, alert)
      /\ RaisedFor(all, raised, found)
      /\ OpenIds(all) \subseteq OpenIds(alerts) \cup (raised + 1)..last
  BY AllFacts
<1>3. raised \in Nat
  BY DEF ListOK
<1> HIDE DEF all, last
<1>4. /\ alerts' \in Seq(AlertRecords) /\ Len(alerts') <= MaxAlerts
      /\ IdsGrow(alerts', last) /\ OneOpen(alerts') /\ RaisedFor(alerts', raised, found)
      /\ OpenIds(alerts') \subseteq OpenIds(all)
      /\ Len(alerts') < MaxAlerts => \A alert \in found : IsShown(alerts', alert)
  BY <1>1, <1>2, <1>3, DequeFacts
<1> QED BY <1>1, <1>2, <1>4

-----------------------------------------------------------------------------
(* What a poll finds.                                                      *)

LEMMA MetricNames == Metrics = {"hashrate", "fan", "hw_errors"}
BY DEF Metrics, METRIC_TO_THRESHOLD

LEMMA FiniteImage ==
  ASSUME NEW S, IsFiniteSet(S), NEW f, DOMAIN f = S
  PROVE  IsFiniteSet({f[x] : x \in S})
<1> DEFINE T == {f[x] : x \in S}
           g == [x \in S |-> f[x]]
<1>1. g \in Surjection(S, T)
  BY DEF Surjection
<1> QED BY <1>1, FS_Surjection

LEMMA BoardFindings ==
  ASSUME NEW thresholds, NEW score, NEW judged \in SUBSET Boards
  PROVE  LET found == BoardAlerts(thresholds, judged, score) IN
         /\ IsFiniteSet(found) /\ found \subseteq Findings
         /\ \A alert \in found :
              /\ alert.metric = "hashrate" /\ alert.target \in judged
              /\ Below(thresholds, score, alert.target)
              /\ Breaches(thresholds, judged, score)[alert.target] >= thresholds["persistence"]
         /\ \A a, b \in found : a.target = b.target => a = b
<1> DEFINE raisedOn == {c \in judged :
             /\ Below(thresholds, score, c)
             /\ Breaches(thresholds, judged, score)[c] >= thresholds["persistence"]}
           how(b) == IF score[b] > thresholds["z_critical"] THEN "CRITICAL" ELSE "ALERT"
           f == [b \in raisedOn |-> [metric |-> "hashrate", target |-> b, severity |-> how(b)]]
           found == BoardAlerts(thresholds, judged, score)
<1>1. found = {f[b] : b \in raisedOn}
  BY DEF BoardAlerts
<1>2. raisedOn \subseteq judged
      /\ \A b \in raisedOn :
           /\ Below(thresholds, score, b)
           /\ Breaches(thresholds, judged, score)[b] >= thresholds["persistence"]
  OBVIOUS
<1>3. \A b : how(b) \in {"ALERT", "CRITICAL"}
  OBVIOUS
<1>4. DOMAIN f = raisedOn /\ \A b \in raisedOn :
        f[b] = [metric |-> "hashrate", target |-> b, severity |-> how(b)]
  OBVIOUS
<1> HIDE DEF raisedOn, how, f, found
<1>5. IsFiniteSet(raisedOn)
  BY <1>2, FarmAssumption, FS_Subset
<1>6. IsFiniteSet(found)
  BY <1>1, <1>4, <1>5, FiniteImage
<1>7. ASSUME NEW alert \in found
      PROVE  /\ alert \in Findings /\ alert.metric = "hashrate" /\ alert.target \in raisedOn
             /\ alert = f[alert.target]
  <2>1. PICK b \in raisedOn : alert = [metric |-> "hashrate", target |-> b, severity |-> how(b)]
    BY <1>1, <1>4
  <2>2. b \in Targets /\ "hashrate" \in Metrics
    BY <1>2, MetricNames DEF Targets
  <2> QED BY <1>3, <1>4, <2>1, <2>2 DEF Findings
<1>8. \A a, b \in found : a.target = b.target => a = b
  BY <1>7
<1>9. found \subseteq Findings
  BY <1>7
<1>10. \A alert \in found :
         /\ alert.metric = "hashrate" /\ alert.target \in judged
         /\ Below(thresholds, score, alert.target)
         /\ Breaches(thresholds, judged, score)[alert.target] >= thresholds["persistence"]
  BY <1>2, <1>7
<1> QED BY <1>6, <1>8, <1>9, <1>10 DEF found

LEMMA TrendFindings ==
  ASSUME NEW thresholds, NEW score, NEW answered
  PROVE  LET found == TrendAlerts(thresholds, answered, score) IN
         /\ IsFiniteSet(found) /\ found \subseteq Findings
         /\ \A alert \in found : alert.metric # "hashrate"
         /\ \A a, b \in found : a.metric = b.metric /\ a.target = b.target => a = b
<1> DEFINE raisedOn == {t \in Trends \X Machines :
       /\ Fold(answered)[t] >= TrendSamples
       /\ score[t] > thresholds[IF t[1] = "fan" THEN "fan_temp_alert" ELSE "hw_err_slope_alert"]}
           f == [t \in raisedOn |-> [metric |-> t[1], target |-> t[2], severity |-> "ALERT"]]
           found == TrendAlerts(thresholds, answered, score)
<1>1. found = {f[t] : t \in raisedOn}
  BY DEF TrendAlerts
<1>2. raisedOn \subseteq Trends \X Machines
  OBVIOUS
<1>3. DOMAIN f = raisedOn /\ \A t \in raisedOn :
        f[t] = [metric |-> t[1], target |-> t[2], severity |-> "ALERT"]
  OBVIOUS
<1> HIDE DEF raisedOn, f, found
<1>4. IsFiniteSet(raisedOn)
  <2>1. IsFiniteSet({"fan", "hw_errors"})
    <3>1. IsFiniteSet({"fan"})
      BY FS_Singleton
    <3>2. {"fan", "hw_errors"} = {"fan"} \cup {"hw_errors"}
      OBVIOUS
    <3> QED BY <3>1, <3>2, FS_AddElement
  <2>2. IsFiniteSet(Trends)
    BY <2>1, FarmAssumption, FS_Subset
  <2>3. IsFiniteSet(Trends \X Machines)
    BY <2>2, FarmAssumption, FS_Product
  <2> QED BY <1>2, <2>3, FS_Subset
<1>5. IsFiniteSet(found)
  BY <1>1, <1>3, <1>4, FiniteImage
<1>6. ASSUME NEW alert \in found
      PROVE  /\ alert \in Findings /\ alert.metric # "hashrate"
             /\ alert = [metric |-> alert.metric, target |-> alert.target, severity |-> "ALERT"]
  <2>1. PICK t \in raisedOn : alert = [metric |-> t[1], target |-> t[2], severity |-> "ALERT"]
    BY <1>1, <1>3
  <2>2. t[1] \in {"fan", "hw_errors"} /\ t[2] \in Machines
    BY <1>2, FarmAssumption
  <2>3. t[1] \in Metrics /\ t[2] \in Targets /\ t[1] # "hashrate"
    BY <2>2, MetricNames DEF Targets
  <2> QED BY <2>1, <2>3 DEF Findings
<1>7. \A a, b \in found : a.metric = b.metric /\ a.target = b.target => a = b
  BY <1>6
<1>8. found \subseteq Findings /\ \A alert \in found : alert.metric # "hashrate"
  BY <1>6
<1> QED BY <1>5, <1>7, <1>8 DEF found

LEMMA JudgedBoards ==
  ASSUME NEW thresholds, NEW answered
  PROVE  Judged(thresholds, answered) \in SUBSET Boards
BY DEF Judged

LEMMA FindingsFacts ==
  ASSUME NEW thresholds, NEW answered, NEW score
  PROVE  IsFound(BoardAlerts(thresholds, Judged(thresholds, answered), score)
                 \cup TrendAlerts(thresholds, answered, score))
<1> DEFINE judged == Judged(thresholds, answered)
           boards == BoardAlerts(thresholds, judged, score)
           trends == TrendAlerts(thresholds, answered, score)
<1>1. judged \in SUBSET Boards
  BY JudgedBoards
<1>2. /\ IsFiniteSet(boards) /\ boards \subseteq Findings
      /\ \A alert \in boards : alert.metric = "hashrate"
      /\ \A a, b \in boards : a.target = b.target => a = b
  BY <1>1, BoardFindings
<1>3. /\ IsFiniteSet(trends) /\ trends \subseteq Findings
      /\ \A alert \in trends : alert.metric # "hashrate"
      /\ \A a, b \in trends : a.metric = b.metric /\ a.target = b.target => a = b
  BY TrendFindings
<1> HIDE DEF boards, trends
<1>4. IsFiniteSet(boards \cup trends)
  BY <1>2, <1>3, FS_Union
<1>5. \A a, b \in boards \cup trends : a.metric = b.metric /\ a.target = b.target => a = b
  BY <1>2, <1>3
<1>6. boards \cup trends \subseteq Findings
  BY <1>2, <1>3
<1> QED BY <1>4, <1>5, <1>6 DEF IsFound, Findings, boards, trends

-----------------------------------------------------------------------------
(* How often a board was below the threshold.                              *)

\* A board's count is that of its last judgements, all of them below the threshold.
Counted(count, history) ==
  /\ history \in Seq(BOOLEAN) /\ count \in 0..MaxPersistence /\ count <= Len(history)
  /\ \A k \in 1..count : history[k]

LEMMA MinOfTwo ==
  ASSUME NEW a \in Int, NEW b \in Int
  PROVE  Min({a, b}) = IF a <= b THEN a ELSE b
BY DEF Min

LEMMA Prepended ==
  ASSUME NEW S, NEW x \in S, NEW s \in Seq(S)
  PROVE  /\ <<x>> \o s \in Seq(S) /\ Len(<<x>> \o s) = 1 + Len(s)
         /\ (<<x>> \o s)[1] = x
         /\ \A i \in 1..Len(s) : (<<x>> \o s)[1 + i] = s[i]
<1> DEFINE one == <<x>>
<1>1. one \in Seq(S) /\ Len(one) = 1 /\ one[1] = x
  OBVIOUS
<1> HIDE DEF one
<1>2. /\ one \o s \in Seq(S) /\ Len(one \o s) = 1 + Len(s)
      /\ \A i \in 1..1 + Len(s) : (one \o s)[i] = IF i <= 1 THEN one[i] ELSE s[i - 1]
  <2>1. /\ one \o s \in Seq(S) /\ Len(one \o s) = Len(one) + Len(s)
        /\ \A i \in 1..Len(one) + Len(s) :
             (one \o s)[i] = IF i <= Len(one) THEN one[i] ELSE s[i - Len(one)]
    BY <1>1, ConcatProperties
  <2> QED BY <1>1, <2>1
<1>3. Len(s) \in Nat
  BY LenProperties
<1>4. (one \o s)[1] = x /\ \A i \in 1..Len(s) : (one \o s)[1 + i] = s[i]
  BY <1>1, <1>2, <1>3
<1> QED BY <1>2, <1>4 DEF one

LEMMA BelowCounts ==
  ASSUME NEW count, NEW history, Counted(count, history)
  PROVE  Counted(OneMore(count), Latest(TRUE, history))
<1> DEFINE longer == <<TRUE>> \o history
           n == IF MaxPersistence <= Len(history) + 1 THEN MaxPersistence ELSE Len(history) + 1
           latest == Latest(TRUE, history)
<1>1. /\ history \in Seq(BOOLEAN) /\ count \in Nat /\ count <= MaxPersistence /\ count <= Len(history)
      /\ Len(history) \in Nat /\ MaxPersistence \in Nat
      /\ \A k \in 1..count : history[k]
  BY AlertsAssumption, LenProperties DEF Counted
<1>2. n \in Nat /\ n <= Len(history) + 1 /\ n <= MaxPersistence
  BY <1>1
<1>3. latest = SubSeq(longer, 1, n)
  BY <1>1, MinOfTwo DEF Latest
<1>4. /\ longer \in Seq(BOOLEAN) /\ Len(longer) = 1 + Len(history) /\ longer[1] = TRUE
      /\ \A i \in 1..Len(history) : longer[1 + i] = history[i]
  BY <1>1, Prepended
<1> HIDE DEF longer, latest
<1>6. \A i \in 1..n : longer[i] \in BOOLEAN
  BY <1>1, <1>2, <1>4, ElementOfSeq
<1>7. /\ latest \in Seq(BOOLEAN) /\ Len(latest) = n
      /\ \A i \in 1..n : latest[i] = longer[i]
  <2>1. /\ latest \in Seq(BOOLEAN) /\ Len(latest) = IF 1 <= n THEN n - 1 + 1 ELSE 0
        /\ \A i \in 1..n - 1 + 1 : latest[i] = longer[1 + i - 1]
    BY <1>2, <1>3, <1>6, SubSeqProperties
  <2>2. (IF 1 <= n THEN n - 1 + 1 ELSE 0) = n /\ n - 1 + 1 = n
    BY <1>2
  <2>3. \A i \in 1..n : 1 + i - 1 = i
    BY <1>2
  <2> QED BY <2>1, <2>2, <2>3
<1>8. OneMore(count) \in 0..MaxPersistence /\ OneMore(count) <= n /\ OneMore(count) <= count + 1
  BY <1>1 DEF OneMore
<1>9. ASSUME NEW k \in 1..OneMore(count)
      PROVE  latest[k] = TRUE
  <2>1. k \in 1..n /\ k \in 1..1 + Len(history) /\ (k = 1 \/ k - 1 \in 1..count)
    BY <1>1, <1>2, <1>8
  <2>2. CASE k = 1
    BY <1>4, <1>7, <2>1, <2>2
  <2>3. CASE k - 1 \in 1..count
    <3>1. longer[1 + (k - 1)] = history[k - 1] /\ 1 + (k - 1) = k
      BY <1>1, <1>4, <2>1, <2>3
    <3>2. history[k - 1] \in BOOLEAN
      BY <1>1, <2>3, ElementOfSeq
    <3>3. history[k - 1] = TRUE
      BY <1>1, <2>3, <3>2
    <3> QED BY <1>7, <2>1, <3>1, <3>3
  <2> QED BY <2>1, <2>2, <2>3
<1>10. \A k \in 1..OneMore(count) : latest[k]
  BY <1>9
<1>11. OneMore(count) <= Len(latest)
  BY <1>7, <1>8
<1> QED BY <1>7, <1>8, <1>10, <1>11 DEF Counted, latest

LEMMA WithinCounts ==
  ASSUME NEW history
  PROVE  Counted(0, Latest(FALSE, history))
<1>1. Latest(FALSE, history) = <<FALSE>>
  BY DEF Latest
<1>2. <<FALSE>> \in Seq(BOOLEAN) /\ Len(<<FALSE>>) = 1
  OBVIOUS
<1>3. 0 \in 0..MaxPersistence /\ 0 <= Len(<<FALSE>>)
  BY <1>2, AlertsAssumption
<1>4. \A k \in 1..0 : FALSE
  OBVIOUS
<1> QED BY <1>1, <1>2, <1>3, <1>4 DEF Counted

JudgedInv ==
  /\ breaches \in [Boards -> 0..MaxPersistence]
  /\ DOMAIN verdicts = Boards
  /\ \A b \in Boards : Counted(breaches[b], verdicts[b])
  /\ streak \in [Boards -> 0..MaxPersistence]

LEMMA UpdateKeepsCounts ==
  ASSUME JudgedInv, NEW thresholds, NEW answered, NEW score, update(thresholds, answered, score)
  PROVE  JudgedInv'
<1> DEFINE judged == Judged(thresholds, answered)
<1>1. /\ breaches' = Breaches(thresholds, judged, score)
      /\ verdicts' = [b \in Boards |-> IF b \in judged
                                       THEN Latest(Below(thresholds, score, b), verdicts[b])
                                       ELSE verdicts[b]]
  BY DEF update
<1>2. judged \in SUBSET Boards
  BY JudgedBoards
<1> HIDE DEF judged
<1>3. breaches' = [b \in Boards |-> IF b \notin judged THEN breaches[b]
                    ELSE IF Below(thresholds, score, b) THEN OneMore(breaches[b]) ELSE 0]
  BY <1>1 DEF Breaches
<1>4. ASSUME NEW b \in Boards
      PROVE  Counted(breaches'[b], verdicts'[b])
  <2>1. Counted(breaches[b], verdicts[b])
    BY DEF JudgedInv
  <2>2. CASE b \notin judged
    BY <1>1, <1>3, <2>1, <2>2
  <2>3. CASE b \in judged /\ Below(thresholds, score, b)
    <3>1. Below(thresholds, score, b) = TRUE
      BY <2>3 DEF Below
    <3>2. verdicts'[b] = Latest(TRUE, verdicts[b])
      BY <1>1, <2>3, <3>1
    <3>3. breaches'[b] = OneMore(breaches[b])
      BY <1>3, <2>3
    <3> QED BY <2>1, <3>2, <3>3, BelowCounts
  <2>4. CASE b \in judged /\ ~ Below(thresholds, score, b)
    <3>1. Below(thresholds, score, b) = FALSE
      BY <2>4 DEF Below
    <3>2. verdicts'[b] = Latest(FALSE, verdicts[b])
      BY <1>1, <2>4, <3>1
    <3>3. breaches'[b] = 0
      BY <1>3, <2>4
    <3> QED BY <3>2, <3>3, WithinCounts
  <2> QED BY <2>2, <2>3, <2>4
<1>5. DOMAIN verdicts' = Boards
  BY <1>1
<1>6. breaches' \in [Boards -> 0..MaxPersistence]
  BY <1>3, <1>4 DEF Counted
<1>7. streak' \in [Boards -> 0..MaxPersistence]
  <2>1. \A count \in 0..MaxPersistence : OneMore(count) \in 0..MaxPersistence
    BY AlertsAssumption DEF OneMore
  <2>2. streak' = [b \in Boards |-> IF b \in judged /\ Below(thresholds, score, b)
                                    THEN OneMore(streak[b]) ELSE 0]
    BY DEF update, judged
  <2>3. 0 \in 0..MaxPersistence
    BY AlertsAssumption
  <2> QED BY <2>1, <2>2, <2>3 DEF JudgedInv
<1> QED BY <1>4, <1>5, <1>6, <1>7 DEF JudgedInv

-----------------------------------------------------------------------------
(* The alerts that are open, and the labels.                               *)

Things == [metric : Metrics, target : Targets]

LEMMA OpenIdsFacts ==
  ASSUME NEW list \in Seq(AlertRecords), NEW last \in Nat, IdsGrow(list, last)
  PROVE  /\ OpenIds(list) \subseteq 1..last
         /\ IsFiniteSet(OpenIds(list)) /\ Cardinality(OpenIds(list)) \in Nat
<1>1. OpenIds(list) \subseteq 1..last
  BY DEF OpenIds, IdsGrow
<1>2. IsFiniteSet(1..last)
  BY FS_Interval
<1>3. IsFiniteSet(OpenIds(list))
  BY <1>1, <1>2, FS_Subset
<1> QED BY <1>1, <1>3, FS_CardinalityType

LEMMA RaisedOpenIds ==
  ASSUME NEW before, NEW after, NEW low \in Nat, NEW high \in Nat, low <= high,
         IsFiniteSet(before), after \subseteq before \cup (low + 1)..high
  PROVE  Cardinality(after) <= Cardinality(before) + (high - low)
<1>1. IsFiniteSet((low + 1)..high) /\ Cardinality((low + 1)..high) = high - low
  <2>1. /\ IsFiniteSet((low + 1)..high)
        /\ Cardinality((low + 1)..high) = IF low + 1 > high THEN 0 ELSE high - (low + 1) + 1
    BY FS_Interval
  <2> QED BY <2>1
<1> DEFINE new == (low + 1)..high
<1> HIDE DEF new
<1>2. /\ IsFiniteSet(before \cup new)
      /\ Cardinality(before \cup new)
           = Cardinality(before) + Cardinality(new) - Cardinality(before \cap new)
  BY <1>1, FS_Union DEF new
<1>3. Cardinality(before \cap new) \in Nat /\ Cardinality(before) \in Nat /\ Cardinality(new) \in Nat
  BY <1>1, FS_Intersection, FS_CardinalityType DEF new
<1>4. Cardinality(after) <= Cardinality(before \cup new) /\ IsFiniteSet(after)
  BY <1>2, FS_Subset DEF new
<1>5. Cardinality(after) \in Nat
  BY <1>4, FS_CardinalityType
<1>6. Cardinality(new) = high - low
  BY <1>1 DEF new
<1> QED BY <1>2, <1>3, <1>4, <1>5, <1>6

LEMMA ResolvedFacts ==
  ASSUME ListOK, NEW i \in DOMAIN alerts, alerts[i].open,
         alerts' = [alerts EXCEPT ![i].open = FALSE]
  PROVE  /\ alerts' \in Seq(AlertRecords) /\ Len(alerts') = Len(alerts)
         /\ IdsGrow(alerts', raised) /\ OneOpen(alerts')
         /\ OpenIds(alerts') = OpenIds(alerts) \ {alerts[i].id}
         /\ alerts[i].id \in OpenIds(alerts)
         /\ \A j \in DOMAIN alerts \ {i} : alerts'[j] = alerts[j]
<1>1. alerts \in Seq(AlertRecords) /\ raised \in Nat /\ IdsGrow(alerts, raised) /\ OneOpen(alerts)
  BY DEF ListOK
<1>2. /\ Len(alerts) \in Nat /\ DOMAIN alerts = 1..Len(alerts) /\ i \in 1..Len(alerts)
      /\ alerts[i] \in AlertRecords
  BY <1>1, LenProperties, ElementOfSeq
<1> DEFINE closed == [alerts[i] EXCEPT !.open = FALSE]
<1>3. /\ closed \in AlertRecords /\ ~ closed.open
      /\ closed.metric = alerts[i].metric /\ closed.target = alerts[i].target
      /\ closed.id = alerts[i].id
  BY <1>2 DEF AlertRecords
<1>4. alerts' = [alerts EXCEPT ![i] = closed]
  OBVIOUS
<1> HIDE DEF closed
<1>5. /\ alerts' \in Seq(AlertRecords) /\ Len(alerts') = Len(alerts)
      /\ \A j \in 1..Len(alerts) : alerts'[j] = IF j = i THEN closed ELSE alerts[j]
  <2>1. /\ [alerts EXCEPT ![i] = closed] \in Seq(AlertRecords)
        /\ Len([alerts EXCEPT ![i] = closed]) = Len(alerts)
    BY <1>1, <1>2, <1>3, ExceptSeq
  <2>2. \A j \in 1..Len(alerts) :
          [alerts EXCEPT ![i] = closed][j] = IF j = i THEN closed ELSE alerts[j]
    BY <1>2
  <2> QED BY <1>4, <2>1, <2>2
<1>6. \A j \in 1..Len(alerts) :
        /\ alerts'[j].id = alerts[j].id
        /\ alerts'[j].metric = alerts[j].metric /\ alerts'[j].target = alerts[j].target
        /\ alerts'[j].open => j # i /\ alerts[j].open
  BY <1>3, <1>5
<1>7. IdsGrow(alerts', raised)
  BY <1>1, <1>5, <1>6 DEF IdsGrow
<1>8. OneOpen(alerts')
  BY <1>1, <1>5, <1>6 DEF OneOpen
<1>9. \A j \in 1..Len(alerts) : alerts[j].id = alerts[i].id => j = i
  <2> TAKE j \in 1..Len(alerts)
  <2>1. CASE j < i
    <3>1. alerts[j].id < alerts[i].id /\ alerts[j].id \in Int /\ alerts[i].id \in Int
      BY <1>1, <1>2, <2>1 DEF IdsGrow
    <3> QED BY <3>1
  <2>2. CASE i < j
    <3>1. alerts[i].id < alerts[j].id /\ alerts[j].id \in Int /\ alerts[i].id \in Int
      BY <1>1, <1>2, <2>2 DEF IdsGrow
    <3> QED BY <3>1
  <2> QED BY <1>2, <2>1, <2>2
<1>10. OpenIds(alerts') \subseteq OpenIds(alerts) \ {alerts[i].id}
  BY <1>5, <1>6, <1>9 DEF OpenIds
<1>11. OpenIds(alerts) \ {alerts[i].id} \subseteq OpenIds(alerts')
  BY <1>5 DEF OpenIds
<1>12. alerts[i].id \in OpenIds(alerts)
  BY <1>2 DEF OpenIds
<1>13. \A j \in DOMAIN alerts \ {i} : alerts'[j] = alerts[j]
  BY <1>2, <1>5
<1> QED BY <1>5, <1>7, <1>8, <1>10, <1>11, <1>12, <1>13

\* One label more is counted.
LEMMA LabelledOneMore ==
  ASSUME NEW counts \in [Metrics -> Nat], NEW metric \in Metrics
  PROVE  /\ Labelled(counts) \in Nat
         /\ Labelled([counts EXCEPT ![metric] = @ + 1]) = Labelled(counts) + 1
BY MetricNames DEF Labelled

LEMMA NoneLabelled == Labelled(NoLabels) = 0
BY MetricNames DEF Labelled, NoLabels

-----------------------------------------------------------------------------
(* The invariant.                                                          *)

EngineInv ==
  /\ window \in Nat /\ samples \in [Series -> Nat]
  /\ ListOK /\ Len(alerts) <= MaxAlerts /\ raised <= MaxRaised
  /\ JudgedInv
  /\ standing \subseteq Things /\ FoundIsShown

\* Every alert was raised once: it is open, or it has been labelled at most once.
LabelsInv ==
  /\ Labelled(labels) + Cardinality(OpenIds(alerts)) <= raised
  /\ stored # Null /\ stored # Torn => Labelled(stored) <= raised

Inv == SettingsInv /\ EngineInv /\ LabelsInv

LEMMA ListFacts ==
  ASSUME ListOK
  PROVE  /\ alerts \in Seq(AlertRecords) /\ DOMAIN alerts = 1..Len(alerts) /\ raised \in Nat
         /\ IsFiniteSet(OpenIds(alerts)) /\ Cardinality(OpenIds(alerts)) \in Nat
BY LenProperties, OpenIdsFacts DEF ListOK

LEMMA NewEngineFacts ==
  ASSUME NEW size, size \in Nat, raised \in Nat, raised <= MaxRaised,
         NewEngine(size), raised' = raised
  PROVE  EngineInv' /\ Cardinality(OpenIds(alerts')) = 0 /\ IdsGrow(alerts', raised)
<1>1. alerts' = <<>> /\ <<>> \in Seq(AlertRecords) /\ Len(<<>>) = 0
  BY EmptySeq DEF NewEngine
<1>2. alerts' \in Seq(AlertRecords) /\ Len(alerts') = 0 /\ 1..Len(alerts') = {}
  BY <1>1
<1>3. IdsGrow(alerts', raised) /\ OneOpen(alerts') /\ OpenIds(alerts') = {}
  BY <1>2 DEF IdsGrow, OneOpen, OpenIds
<1>4. ListOK' /\ Len(alerts') <= MaxAlerts /\ raised' <= MaxRaised
  BY <1>2, <1>3, AlertsAssumption DEF ListOK
<1>5. JudgedInv'
  <2>1. Counted(0, <<>>)
    <3>1. <<>> \in Seq(BOOLEAN) /\ 0 \in 0..MaxPersistence /\ 0 <= Len(<<>>)
      BY <1>1, AlertsAssumption
    <3>2. \A k \in 1..0 : FALSE
      OBVIOUS
    <3> QED BY <3>1, <3>2 DEF Counted
  <2>2. /\ breaches' = [b \in Boards |-> 0] /\ verdicts' = [b \in Boards |-> <<>>]
        /\ streak' = [b \in Boards |-> 0]
    BY DEF NewEngine
  <2> QED BY <2>1, <2>2, AlertsAssumption DEF JudgedInv
<1>6. standing' = {} /\ window' = size /\ samples' = [s \in Series |-> 0]
  BY DEF NewEngine
<1>7. FoundIsShown' /\ standing' \subseteq Things
  BY <1>6 DEF FoundIsShown
<1>8. window' \in Nat /\ samples' \in [Series -> Nat]
  BY <1>6
<1> QED BY <1>3, <1>4, <1>5, <1>7, <1>8, FS_EmptySet DEF EngineInv

LEMMA LabelledNat == \A counts \in Counts : Labelled(counts) \in Nat
BY LabelledOneMore, MetricNames DEF Counts

LEMMA ResetKeepsLabels ==
  ASSUME LabelsInv, LabelsOK, raised \in Nat, raised' = raised, ListOK,
         Cardinality(OpenIds(alerts')) = 0,
         labels' = NoLabels \/ (stored # Null /\ stored # Torn /\ labels' = stored),
         stored' = stored \/ stored' = Torn
  PROVE  LabelsInv'
<1>1. Labelled(labels') <= raised
  BY NoneLabelled DEF LabelsInv
<1>2. Labelled(labels') + 0 = Labelled(labels')
  <2>1. labels' \in Counts
    BY NoCounts DEF LabelsOK
  <2>2. Labelled(labels') \in Nat
    BY <2>1, LabelledNat
  <2> QED BY <2>2
<1>3. Labelled(labels') + Cardinality(OpenIds(alerts')) <= raised'
  BY <1>1, <1>2
<1>4. stored' # Null /\ stored' # Torn => Labelled(stored') <= raised'
  BY DEF LabelsInv
<1> QED BY <1>3, <1>4 DEF LabelsInv

LEMMA PollKeeps ==
  ASSUME EngineInv, LabelsInv, LabelsOK, NEW answered, NEW score, Poll(answered, score)
  PROVE  EngineInv' /\ LabelsInv'
<1> DEFINE judged == Judged(live, answered)
           found == BoardAlerts(live, judged, score) \cup TrendAlerts(live, answered, score)
<1>1. /\ samples' = Fold(answered) /\ Extend(found) /\ window' = window
      /\ standing' = {[metric |-> alert.metric, target |-> alert.target] : alert \in found}
      /\ labels' = labels /\ stored' = stored
      /\ update(live, answered, score)
  BY DEF Poll, update, settings
<1>2. IsFound(found)
  BY FindingsFacts
<1>3. /\ window \in Nat /\ samples \in [Series -> Nat] /\ ListOK /\ JudgedInv
  BY DEF EngineInv
<1> HIDE DEF found, judged
<1>4. /\ alerts' \in Seq(AlertRecords) /\ Len(alerts') <= MaxAlerts
      /\ raised' \in Nat /\ raised' <= MaxRaised /\ raised' >= raised
      /\ IdsGrow(alerts', raised') /\ OneOpen(alerts')
      /\ OpenIds(alerts') \subseteq OpenIds(alerts) \cup (raised + 1)..raised'
      /\ Len(alerts') < MaxAlerts => \A alert \in found : IsShown(alerts', alert)
  BY <1>1, <1>2, <1>3, ExtendFacts
<1>5. JudgedInv'
  BY <1>1, <1>3, UpdateKeepsCounts
<1>6. samples' \in [Series -> Nat] /\ window' \in Nat
  BY <1>1, <1>3 DEF Fold
<1>7. \A alert \in found : alert.metric \in Metrics /\ alert.target \in Targets
  BY <1>2 DEF IsFound, Findings
<1>8. standing' \subseteq Things
  BY <1>1, <1>7 DEF Things
<1>9. FoundIsShown'
  <2>1. SUFFICES ASSUME Len(alerts') < MaxAlerts, NEW thing \in standing'
                 PROVE  \E i \in DOMAIN alerts' :
                          /\ alerts'[i].open
                          /\ alerts'[i].metric = thing.metric /\ alerts'[i].target = thing.target
    BY DEF FoundIsShown
  <2>2. PICK alert \in found : thing = [metric |-> alert.metric, target |-> alert.target]
    BY <1>1, <2>1
  <2>3. IsShown(alerts', alert)
    BY <1>4, <2>1
  <2>4. DOMAIN alerts' = 1..Len(alerts')
    BY <1>4, LenProperties
  <2>5. thing.metric = alert.metric /\ thing.target = alert.target
    BY <2>2
  <2> QED BY <2>3, <2>4, <2>5 DEF IsShown
<1>10. EngineInv'
  BY <1>4, <1>5, <1>6, <1>8, <1>9 DEF EngineInv, ListOK
<1>11. LabelsInv'
  <2>1. raised \in Nat /\ IsFiniteSet(OpenIds(alerts)) /\ Cardinality(OpenIds(alerts)) \in Nat
    BY <1>3, ListFacts
  <2>2. Cardinality(OpenIds(alerts')) \in Nat
    BY <1>4, OpenIdsFacts
  <2>3. Cardinality(OpenIds(alerts')) <= Cardinality(OpenIds(alerts)) + (raised' - raised)
    BY <1>4, <2>1, RaisedOpenIds
  <2>4. Labelled(labels) \in Nat
    BY LabelledOneMore, MetricNames DEF LabelsOK, Counts
  <2>5. Labelled(labels) + Cardinality(OpenIds(alerts)) <= raised
        /\ (stored # Null /\ stored # Torn => Labelled(stored) <= raised)
    BY DEF LabelsInv
  <2>6. Labelled(labels') + Cardinality(OpenIds(alerts')) <= raised'
    BY <1>1, <1>4, <2>1, <2>2, <2>3, <2>4, <2>5
  <2>7. stored # Null /\ stored # Torn => Labelled(stored) <= raised'
    <3> SUFFICES ASSUME stored # Null, stored # Torn PROVE Labelled(stored) <= raised'
      OBVIOUS
    <3>1. Labelled(stored) \in Nat
      BY LabelledOneMore, MetricNames DEF LabelsOK, Counts
    <3> QED BY <1>4, <2>1, <2>5, <3>1
  <2> QED BY <1>1, <2>6, <2>7 DEF LabelsInv
<1> QED BY <1>10, <1>11
LEMMA ResolvedKeeps ==
  ASSUME EngineInv, LabelsInv, LabelsOK, NEW i \in DOMAIN alerts, alerts[i].open, Resolved(i)
  PROVE  EngineInv' /\ LabelsInv' /\ IdsGrow(alerts', raised)
<1> DEFINE thing == [metric |-> alerts[i].metric, target |-> alerts[i].target]
<1>1. /\ feedback(alerts[i].metric) /\ alerts' = [alerts EXCEPT ![i].open = FALSE]
      /\ standing' = standing \ {thing}
      /\ window' = window /\ samples' = samples /\ breaches' = breaches
      /\ raised' = raised /\ verdicts' = verdicts /\ streak' = streak
  BY DEF Resolved
<1>2. /\ window \in Nat /\ samples \in [Series -> Nat] /\ ListOK /\ JudgedInv
      /\ Len(alerts) <= MaxAlerts /\ raised <= MaxRaised
      /\ standing \subseteq Things /\ FoundIsShown
  BY DEF EngineInv
<1>3. /\ alerts \in Seq(AlertRecords) /\ DOMAIN alerts = 1..Len(alerts) /\ raised \in Nat
      /\ IsFiniteSet(OpenIds(alerts)) /\ Cardinality(OpenIds(alerts)) \in Nat
  BY <1>2, ListFacts
<1>4. /\ alerts' \in Seq(AlertRecords) /\ Len(alerts') = Len(alerts)
      /\ IdsGrow(alerts', raised) /\ OneOpen(alerts')
      /\ OpenIds(alerts') = OpenIds(alerts) \ {alerts[i].id}
      /\ alerts[i].id \in OpenIds(alerts)
      /\ \A j \in DOMAIN alerts \ {i} : alerts'[j] = alerts[j]
  BY <1>1, <1>2, ResolvedFacts
<1>5. DOMAIN alerts' = DOMAIN alerts
  BY <1>3, <1>4, LenProperties
<1>6. FoundIsShown'
  <2>1. SUFFICES ASSUME Len(alerts') < MaxAlerts, NEW found \in standing'
                 PROVE  \E j \in DOMAIN alerts' :
                          /\ alerts'[j].open
                          /\ alerts'[j].metric = found.metric /\ alerts'[j].target = found.target
    BY DEF FoundIsShown
  <2>2. found \in standing /\ found # thing /\ found \in Things
    BY <1>1, <1>2, <2>1
  <2>3. PICK j \in DOMAIN alerts :
          alerts[j].open /\ alerts[j].metric = found.metric /\ alerts[j].target = found.target
    BY <1>2, <1>4, <2>1, <2>2 DEF FoundIsShown
  <2>4. found = [metric |-> found.metric, target |-> found.target]
    BY <2>2 DEF Things
  <2>5. j # i
    BY <2>2, <2>3, <2>4
  <2> QED BY <1>4, <1>5, <2>3, <2>5
<1>7. JudgedInv'
  BY <1>1, <1>2 DEF JudgedInv
<1>8. EngineInv'
  BY <1>1, <1>2, <1>3, <1>4, <1>6, <1>7 DEF EngineInv, ListOK
<1>9. Cardinality(OpenIds(alerts')) = Cardinality(OpenIds(alerts)) - 1
  <2> DEFINE ids == OpenIds(alerts)
             id == alerts[i].id
  <2>1. IsFiniteSet(ids) /\ id \in ids
    BY <1>3, <1>4
  <2> HIDE DEF ids, id
  <2>2. Cardinality(ids \ {id}) = Cardinality(ids) - 1
    BY <2>1, FS_RemoveElement
  <2>3. OpenIds(alerts') = ids \ {id}
    BY <1>4 DEF ids, id
  <2> QED BY <2>2, <2>3 DEF ids
<1>10. /\ Labelled(labels) + Cardinality(OpenIds(alerts)) <= raised
       /\ stored # Null /\ stored # Torn => Labelled(stored) <= raised
  BY DEF LabelsInv
<1>11. alerts[i].metric \in Metrics
  <2>1. alerts[i] \in AlertRecords
    BY <1>3, ElementOfSeq
  <2> QED BY <2>1 DEF AlertRecords
<1>12. /\ Labelled(labels) \in Nat
       /\ Labelled([labels EXCEPT ![alerts[i].metric] = @ + 1]) = Labelled(labels) + 1
  BY <1>11, LabelledOneMore DEF LabelsOK, Counts
<1>13. LabelsInv'
  <2>1. CASE live["enabled"] = 0
    <3>1. labels' = labels /\ stored' = stored
      BY <1>1, <2>1 DEF feedback
    <3>2. Labelled(labels) + Cardinality(OpenIds(alerts')) <= raised
      BY <1>3, <1>9, <1>10, <1>12
    <3> QED BY <1>1, <1>10, <3>1, <3>2 DEF LabelsInv
  <2>2. CASE live["enabled"] # 0
    <3>1. /\ labels' = [labels EXCEPT ![alerts[i].metric] = @ + 1]
          /\ stored' \in {labels', stored, Torn}
      BY <1>1, <2>2 DEF feedback, Relabelled
    <3>2. Labelled(labels') = Labelled(labels) + 1
      BY <1>12, <3>1
    <3>3. /\ Labelled(labels') + Cardinality(OpenIds(alerts')) <= raised
          /\ Labelled(labels') <= raised
      <4>1. Cardinality(OpenIds(alerts)) >= 1
        <5>1. Cardinality(OpenIds(alerts)) # 0
          BY <1>3, <1>4, FS_EmptySet
        <5> QED BY <1>3, <5>1
      <4> QED BY <1>3, <1>9, <1>10, <1>12, <3>2, <4>1
    <3> QED BY <1>1, <1>10, <3>1, <3>3 DEF LabelsInv
  <2> QED BY <2>1, <2>2
<1> QED BY <1>4, <1>8, <1>13

-----------------------------------------------------------------------------
(* The steps, and what follows of them.                                    *)

\* What RaisedAfterPersistence says of a step.
RaisedRightly ==
  \A i \in DOMAIN alerts' :
    alerts'[i].id > raised /\ alerts'[i].metric = "hashrate" =>
      LET history == verdicts'[alerts'[i].target] IN
      /\ Len(history) >= live["persistence"]
      /\ \A k \in 1..live["persistence"] : history[k]

LEMMA NoneRaised ==
  ASSUME raised \in Nat, IdsGrow(alerts', raised), DOMAIN alerts' = 1..Len(alerts')
  PROVE  RaisedRightly
BY DEF IdsGrow, RaisedRightly

LEMMA PollRaises ==
  ASSUME Inv, JudgedInv', NEW answered, NEW score, Poll(answered, score)
  PROVE  RaisedRightly
<1> DEFINE judged == Judged(live, answered)
           boards == BoardAlerts(live, judged, score)
           trends == TrendAlerts(live, answered, score)
<1>1. Up /\ Extend(boards \cup trends) /\ breaches' = Breaches(live, judged, score)
  BY DEF Poll, update
<1>2. IsFound(boards \cup trends)
  BY FindingsFacts
<1>3. judged \in SUBSET Boards
  BY JudgedBoards
<1>4. \A alert \in boards :
        alert.target \in judged /\ Breaches(live, judged, score)[alert.target] >= live["persistence"]
  BY <1>3, BoardFindings
<1>5. \A alert \in trends : alert.metric # "hashrate"
  BY TrendFindings
<1>6. live["persistence"] \in Int
  BY <1>1, KnobPaths DEF Inv, SettingsInv, LiveOK, Configs
<1> HIDE DEF judged, boards, trends
<1>7. ListOK
  BY DEF Inv, EngineInv
<1>8. alerts' \in Seq(AlertRecords) /\ RaisedFor(alerts', raised, boards \cup trends)
  BY <1>1, <1>2, <1>7, ExtendFacts
<1>9. DOMAIN alerts' = 1..Len(alerts')
  BY <1>8, LenProperties
<1>10. SUFFICES ASSUME NEW i \in 1..Len(alerts'), alerts'[i].id > raised, alerts'[i].metric = "hashrate"
                PROVE  LET history == verdicts'[alerts'[i].target] IN
                       /\ Len(history) >= live["persistence"]
                       /\ \A k \in 1..live["persistence"] : history[k]
  BY <1>9 DEF RaisedRightly
<1>11. PICK alert \in boards \cup trends :
         alerts'[i].metric = alert.metric /\ alerts'[i].target = alert.target
  BY <1>8, <1>10 DEF RaisedFor
<1>12. alert \in boards
  BY <1>5, <1>10, <1>11
<1>13. PICK b \in Boards : alerts'[i].target = b /\ breaches'[b] >= live["persistence"]
  BY <1>1, <1>3, <1>4, <1>11, <1>12
<1>14. Counted(breaches'[b], verdicts'[b])
  BY DEF JudgedInv
<1>15. PICK count, history : count = breaches'[b] /\ history = verdicts'[b]
  OBVIOUS
<1>16. /\ history \in Seq(BOOLEAN) /\ count \in Nat /\ count <= Len(history)
       /\ \A k \in 1..count : history[k]
  BY <1>14, <1>15, AlertsAssumption DEF Counted
<1>17. Len(history) \in Nat
  BY <1>16, LenProperties
<1>18. Len(history) >= live["persistence"] /\ 1..live["persistence"] \subseteq 1..count
  BY <1>6, <1>13, <1>15, <1>16, <1>17
<1>19. \A k \in 1..live["persistence"] : history[k]
  BY <1>16, <1>18
<1> QED BY <1>13, <1>15, <1>18, <1>19

LEMMA SameEngine ==
  ASSUME EngineInv, LabelsInv, UNCHANGED <<engine, labels, stored>>
  PROVE  EngineInv' /\ LabelsInv' /\ RaisedRightly
<1>1. ListOK /\ alerts' = alerts /\ raised' = raised
  BY DEF EngineInv, engine
<1>2. IdsGrow(alerts, raised) /\ raised \in Nat /\ DOMAIN alerts = 1..Len(alerts)
  BY <1>1, ListFacts DEF ListOK
<1>3. RaisedRightly
  BY <1>1, <1>2, NoneRaised
<1>4. EngineInv'
  BY DEF EngineInv, engine, ListOK, JudgedInv, FoundIsShown
<1> QED BY <1>1, <1>3, <1>4 DEF LabelsInv

\* The engine and the labels after a start, a stop or a crash.
LEMMA ResetKeeps ==
  ASSUME Inv, NEW size \in Nat, NewEngine(size), raised' = raised,
         labels' = NoLabels \/ (stored # Null /\ stored # Torn /\ labels' = stored),
         stored' = stored \/ stored' = Torn
  PROVE  EngineInv' /\ LabelsInv' /\ RaisedRightly
<1>1. ListOK /\ raised <= MaxRaised /\ LabelsInv /\ LabelsOK
  BY DEF Inv, EngineInv, SettingsInv
<1>2. raised \in Nat
  BY <1>1, ListFacts
<1>3. EngineInv' /\ Cardinality(OpenIds(alerts')) = 0 /\ IdsGrow(alerts', raised)
  BY <1>1, <1>2, NewEngineFacts
<1>4. LabelsInv'
  BY <1>1, <1>2, <1>3, ResetKeepsLabels
<1>5. DOMAIN alerts' = 1..Len(alerts')
  <2>1. alerts' = <<>>
    BY DEF NewEngine
  <2> QED BY <2>1
<1> QED BY <1>2, <1>3, <1>4, <1>5, NoneRaised

LEMMA StartWindow ==
  ASSUME SettingsInv, Start
  PROVE  live'["window"] \in Nat
<1>1. FileOK /\ tokens \in Nat /\ Accepted /\ live' = Minted(_deep_merge)
  BY DEF SettingsInv, Start, StartAgent, load
<1>2. _deep_merge \in Configs /\ _deep_merge["window"] \in Nat
  BY <1>1, MergeFacts
<1>3. "window" \in Paths \ {"api_token"}
  BY KnobPaths
<1> QED BY <1>1, <1>2, <1>3, MintedFacts

LEMMA FeedbackKeeps ==
  ASSUME Inv, NEW id, Feedback(id)
  PROVE  Inv' /\ RaisedRightly
<1>1. PICK i \in DOMAIN alerts :
        /\ Resolvable(i, id)
        /\ Resolved(i) \/ (FeedbackCrashes(alerts[i].metric) /\ EngineGone)
        /\ told' = Without({METRIC_TO_THRESHOLD[alerts[i].metric]})
  BY DEF Feedback
<1>2. Up /\ alerts[i].open
  BY <1>1 DEF Feedback, Resolvable
<1>3. SettingsInv /\ EngineInv /\ LabelsInv /\ LabelsOK /\ ListOK
  BY DEF Inv, SettingsInv, EngineInv
<1>4. /\ alerts \in Seq(AlertRecords) /\ DOMAIN alerts = 1..Len(alerts) /\ raised \in Nat
  BY <1>3, ListFacts
<1>5. alerts[i].metric \in Metrics
  <2>1. alerts[i] \in AlertRecords
    BY <1>4, ElementOfSeq
  <2> QED BY <2>1 DEF AlertRecords
<1>6. CASE Resolved(i)
  <2>1. EngineInv' /\ LabelsInv' /\ IdsGrow(alerts', raised)
    BY <1>2, <1>3, <1>6, ResolvedKeeps
  <2>2. SettingsInv'
    BY <1>1, <1>2, <1>3, <1>5, <1>6, LabelKeepsSettings DEF Resolved
  <2>3. DOMAIN alerts' = 1..Len(alerts')
    BY <2>1, LenProperties DEF EngineInv, ListOK
  <2> QED BY <1>4, <2>1, <2>2, <2>3, NoneRaised DEF Inv
<1>7. CASE FeedbackCrashes(alerts[i].metric) /\ EngineGone
  <2>1. SettingsInv'
    BY <1>1, <1>2, <1>3, <1>5, <1>7, LabelKeepsSettings DEF FeedbackCrashes
  <2>2. /\ NewEngine(0) /\ raised' = raised /\ labels' = NoLabels /\ stored' = Torn /\ 0 \in Nat
    BY <1>7 DEF FeedbackCrashes, EngineGone, Dead
  <2> QED BY <2>1, <2>2, ResetKeeps DEF Inv
<1> QED BY <1>1, <1>6, <1>7

LEMMA StepFacts ==
  ASSUME Inv, [Next]_vars
  PROVE  Inv' /\ (RaisedRightly \/ UNCHANGED vars)
<1>1. SettingsInv /\ EngineInv /\ LabelsInv /\ LabelsOK
  BY DEF Inv, SettingsInv
<1>2. CASE Start
  <2>1. SettingsInv' /\ live'["window"] \in Nat
    BY <1>1, <1>2, StartKeepsSettings, StartWindow
  <2>2. /\ NewEngine(live'["window"]) /\ raised' = raised /\ stored' = stored
        /\ labels' = NoLabels \/ (stored # Null /\ stored # Torn /\ labels' = stored)
    BY <1>2 DEF Start, StartAgent, LoadLabels
  <2>3. PICK size : size = live'["window"]
    OBVIOUS
  <2>4. size \in Nat /\ NewEngine(size)
    BY <2>1, <2>2, <2>3
  <2>5. EngineInv' /\ LabelsInv' /\ RaisedRightly
    BY <2>2, <2>4, ResetKeeps
  <2> QED BY <2>1, <2>5 DEF Inv
<1>3. CASE StartFails
  <2>1. SettingsInv'
    BY <1>1, <1>3, StartFailsKeepsSettings
  <2>2. UNCHANGED <<engine, labels, stored>>
    BY <1>3 DEF StartFails, StartInterrupted
  <2> QED BY <1>1, <2>1, <2>2, SameEngine DEF Inv
<1>4. CASE Stop
  <2>1. SettingsInv'
    BY <1>1, <1>4, StopKeepsSettings
  <2>2. NewEngine(0) /\ raised' = raised /\ labels' = NoLabels /\ stored' = stored /\ 0 \in Nat
    BY <1>4 DEF Stop, StopAgent, EngineGone, Dead
  <2> QED BY <2>1, <2>2, ResetKeeps DEF Inv
<1>5. ASSUME NEW answered, NEW score, Poll(answered, score)
      PROVE  Inv' /\ RaisedRightly
  <2>1. SettingsInv'
    BY <1>1, <1>5, SameSettings DEF Poll
  <2>2. EngineInv' /\ LabelsInv'
    BY <1>1, <1>5, PollKeeps
  <2>3. JudgedInv'
    BY <2>2 DEF EngineInv
  <2> QED BY <1>5, <2>1, <2>2, <2>3, PollRaises DEF Inv
<1>6. ASSUME NEW patch, Configure(patch)
      PROVE  Inv' /\ RaisedRightly
  <2>1. SettingsInv'
    BY <1>1, <1>6, ConfigureKeepsSettings
  <2>2. UNCHANGED <<engine, labels, stored>>
    BY <1>6 DEF Configure, Patch
  <2> QED BY <1>1, <2>1, <2>2, SameEngine DEF Inv
<1>7. ASSUME NEW patch, ConfigureFails(patch)
      PROVE  Inv' /\ RaisedRightly
  <2>1. SettingsInv'
    BY <1>1, <1>7, ConfigureFailsKeepsSettings
  <2>2. CASE PatchUnsaved(patch) /\ UNCHANGED engine
    <3>1. UNCHANGED <<engine, labels, stored>>
      BY <2>2 DEF PatchUnsaved
    <3> QED BY <1>1, <2>1, <3>1, SameEngine DEF Inv
  <2>3. CASE PatchCrashes(patch) /\ EngineGone
    <3>1. NewEngine(0) /\ raised' = raised /\ labels' = NoLabels /\ stored' = stored /\ 0 \in Nat
      BY <2>3 DEF PatchCrashes, EngineGone, Dead
    <3> QED BY <2>1, <3>1, ResetKeeps DEF Inv
  <2> QED BY <1>7, <2>2, <2>3 DEF ConfigureFails
<1>8. ASSUME NEW content \in Edits, EditByHand(content)
      PROVE  Inv' /\ RaisedRightly
  <2>1. SettingsInv'
    BY <1>1, <1>8, EditKeepsSettings
  <2>2. UNCHANGED <<engine, labels, stored>>
    BY <1>8 DEF EditByHand, HandEdit
  <2> QED BY <1>1, <2>1, <2>2, SameEngine DEF Inv
<1>9. CASE UNCHANGED vars
  <2>1. UNCHANGED <<engine, labels, stored>> /\ UNCHANGED <<settings, told>>
    BY <1>9 DEF vars, settings
  <2> QED BY <1>1, <1>9, <2>1, SameSettings, SameEngine DEF Inv
<1> QED BY <1>2, <1>3, <1>4, <1>5, <1>6, <1>7, <1>8, <1>9, FeedbackKeeps DEF Next

LEMMA InitInv ==
  ASSUME Init
  PROVE  Inv
<1>1. SettingsInv
  BY InitSettings
<1>2. alerts = <<>> /\ <<>> \in Seq(AlertRecords) /\ Len(<<>>) = 0 /\ raised = 0
  BY EmptySeq DEF Init
<1>3. alerts \in Seq(AlertRecords) /\ Len(alerts) = 0 /\ 1..Len(alerts) = {}
  BY <1>2
<1>4. IdsGrow(alerts, raised) /\ OneOpen(alerts) /\ OpenIds(alerts) = {}
  BY <1>3 DEF IdsGrow, OneOpen, OpenIds
<1>5. ListOK /\ Len(alerts) <= MaxAlerts /\ raised <= MaxRaised
  BY <1>2, <1>3, <1>4, AlertsAssumption DEF ListOK
<1>6. JudgedInv
  <2>1. Counted(0, <<>>)
    <3>1. <<>> \in Seq(BOOLEAN) /\ 0 \in 0..MaxPersistence /\ 0 <= Len(<<>>)
      BY <1>2, AlertsAssumption
    <3>2. \A k \in 1..0 : FALSE
      OBVIOUS
    <3> QED BY <3>1, <3>2 DEF Counted
  <2>2. /\ breaches = [b \in Boards |-> 0] /\ verdicts = [b \in Boards |-> <<>>]
        /\ streak = [b \in Boards |-> 0]
    BY DEF Init
  <2> QED BY <2>1, <2>2, AlertsAssumption DEF JudgedInv
<1>7. FoundIsShown /\ standing \subseteq Things /\ window \in Nat /\ samples \in [Series -> Nat]
  BY DEF Init, FoundIsShown
<1>8. EngineInv
  BY <1>5, <1>6, <1>7 DEF EngineInv
<1>9. LabelsInv
  BY <1>2, <1>4, FS_EmptySet, NoneLabelled DEF Init, LabelsInv
<1> QED BY <1>1, <1>8, <1>9 DEF Inv

LEMMA Invariance == Spec => []Inv
<1>1. Inv /\ [Next]_vars => Inv'
  BY StepFacts
<1> QED BY <1>1, InitInv, PTL DEF Spec

\* A running configuration has every path and a token, and the rest is typed, whatever
\* was patched, edited, torn or lost.
THEOREM ConsoleTyped == Spec => []ConsoleTypeOK
<1>1. Inv => ConsoleTypeOK
  <2> SUFFICES ASSUME Inv PROVE ConsoleTypeOK
    OBVIOUS
  <2>1. LiveOK /\ FileOK /\ LabelsOK /\ ToldOK /\ EngineInv /\ ListOK /\ JudgedInv
    BY DEF Inv, SettingsInv, EngineInv
  <2>2. raised \in 0..MaxRaised
    BY <2>1, ListFacts, AlertsAssumption DEF EngineInv
  <2> QED BY <2>1, <2>2
          DEF ConsoleTypeOK, LiveOK, FileOK, IsFile, LabelsOK, ToldOK, EngineInv, JudgedInv,
              Configs, Counts
<1> QED BY <1>1, Invariance, PTL

\* What the console was told is set is what the agent runs with, after any stop, crash
\* or failed save: load() takes it from the file or refuses to start.
THEOREM SettingsOutliveTheProcess == Spec => []ToldSurvives
<1>1. Inv => ToldSurvives
  BY DEF Inv, SettingsInv
<1> QED BY <1>1, Invariance, PTL

\* The thresholds that labels have moved, and may have moved out of bounds.
Moved(counts) == {METRIC_TO_THRESHOLD[metric] : metric \in {m \in Metrics : counts[m] > 0}}

LEMMA PatchedWithinBounds ==
  ASSUME NEW config \in Configs, NEW patch
  PROVE  problems(apply_console_patch(config, patch)) \subseteq problems(config)
<1> DEFINE patched == apply_console_patch(config, patch)
<1>1. /\ \A path \in Applied(patch) : patched[path] = patch[path] /\ path \in CONSOLE_WRITABLE
      /\ \A path \in Paths \ Applied(patch) : patched[path] = config[path]
  BY PatchFacts
<1>2. \A path \in Applied(patch) : Coerces(path, patch[path])
  BY DEF Applied
<1>3. CONSOLE_WRITABLE \subseteq Paths /\ DOMAIN OperatorDefaults \subseteq Paths
      /\ DOMAIN OperatorDefaults \cap CONSOLE_WRITABLE = {}
  BY DefaultFacts, OperatorAssumption
<1> HIDE DEF patched
<1>4. \A path \in CONSOLE_WRITABLE : Coerces(path, config[path]) => Coerces(path, patched[path])
  BY <1>1, <1>2, <1>3
<1>5. \A path \in DOMAIN OperatorDefaults : patched[path] = config[path]
  BY <1>1, <1>3
<1> QED BY <1>4, <1>5 DEF problems, patched

LEMMA StepsStayWithinBounds ==
  ASSUME Inv, OnlyLabelsOvershoot, [Next]_vars
  PROVE  OnlyLabelsOvershoot'
<1>1. LiveOK /\ FileOK /\ LabelsOK /\ tokens \in Nat
  BY DEF Inv, SettingsInv
<1>2. OnlyLabelsOvershoot <=> (Up => problems(live) \subseteq Moved(labels))
  BY DEF OnlyLabelsOvershoot, Moved
<1>3. OnlyLabelsOvershoot' <=> (live' # Null => problems(live') \subseteq Moved(labels'))
  BY DEF OnlyLabelsOvershoot, Moved, Up, problems, Coerces
<1>4. live' = Null => OnlyLabelsOvershoot'
  BY <1>3
<1>5. live' = live /\ labels' = labels => OnlyLabelsOvershoot'
  BY <1>2, <1>3 DEF Up
<1>6. CASE Start
  <2>1. /\ Accepted /\ live' = Minted(_deep_merge) /\ _deep_merge \in Configs
        /\ problems(_deep_merge) = {}
    BY <1>1, <1>6, MergeFacts DEF Start, StartAgent, load, Accepted
  <2>2. \A path \in Paths \ {"api_token"} : live'[path] = _deep_merge[path]
    BY <1>1, <2>1, MintedFacts
  <2>3. /\ CONSOLE_WRITABLE \subseteq Paths \ {"api_token"}
        /\ DOMAIN OperatorDefaults \subseteq Paths \ {"api_token"}
    BY DefaultFacts, OperatorAssumption
  <2>4. problems(live') = {}
    BY <2>1, <2>2, <2>3 DEF problems
  <2> QED BY <1>3, <2>4
<1>7. ASSUME NEW patch, Configure(patch) \/ ConfigureFails(patch)
      PROVE  OnlyLabelsOvershoot'
  <2>1. /\ Up /\ live \in Configs
        /\ live' = Null \/ (live' = apply_console_patch(live, patch) /\ labels' = labels)
    BY <1>1, <1>7 DEF Configure, ConfigureFails, Patch, PatchUnsaved, PatchCrashes, Dead, LiveOK
  <2> QED BY <1>2, <1>3, <2>1, PatchedWithinBounds
<1>8. ASSUME NEW id, Feedback(id)
      PROVE  OnlyLabelsOvershoot'
  <2>1. PICK i \in DOMAIN alerts :
          Resolved(i) \/ (FeedbackCrashes(alerts[i].metric) /\ EngineGone)
    BY <1>8 DEF Feedback
  <2>2. Up /\ live \in Configs /\ alerts[i].metric \in Metrics
    <3>1. ListOK /\ alerts \in Seq(AlertRecords)
      BY ListFacts DEF Inv, EngineInv
    <3>2. alerts[i] \in AlertRecords
      BY <3>1, LenProperties, ElementOfSeq
    <3> QED BY <1>1, <1>8, <3>2 DEF Feedback, LiveOK, AlertRecords
  <2>3. PICK metric \in Metrics : metric = alerts[i].metric
    BY <2>2
  <2>4. CASE FeedbackCrashes(metric)
    BY <1>4, <2>4 DEF FeedbackCrashes, Dead
  <2>5. CASE feedback(metric) /\ live["enabled"] = 0
    BY <1>5, <2>5 DEF feedback
  <2>6. CASE feedback(metric) /\ live["enabled"] # 0
    <3> DEFINE key == METRIC_TO_THRESHOLD[metric]
    <3>1. /\ labels' = [labels EXCEPT ![metric] = @ + 1]
          /\ \E value : live' = [live EXCEPT ![key] = value]
      BY <2>6 DEF feedback, Relabelled
    <3>2. labels'[metric] > 0 /\ \A m \in Metrics : labels[m] > 0 => labels'[m] > 0
      BY <1>1, <3>1 DEF LabelsOK, Counts
    <3>3. Moved(labels) \cup {key} \subseteq Moved(labels')
      BY <3>2 DEF Moved
    <3> HIDE DEF key
    <3>4. \A path : path # key => live'[path] = live[path]
      BY <2>2, <3>1 DEF Configs
    <3>5. problems(live') \subseteq problems(live) \cup {key}
      BY <3>4 DEF problems
    <3> QED BY <1>2, <1>3, <2>2, <3>3, <3>5
  <2> QED BY <2>1, <2>3, <2>4, <2>5, <2>6 DEF Resolved
<1>9. CASE Stop
  BY <1>4, <1>9 DEF Stop, StopAgent, Dead
<1>10. CASE StartFails
  BY <1>5, <1>10 DEF StartFails, StartInterrupted
<1>11. ASSUME NEW answered, NEW score, Poll(answered, score)
       PROVE  OnlyLabelsOvershoot'
  BY <1>5, <1>11 DEF Poll, settings
<1>12. ASSUME NEW content, EditByHand(content)
       PROVE  OnlyLabelsOvershoot'
  BY <1>5, <1>12 DEF EditByHand, HandEdit
<1>13. CASE UNCHANGED vars
  BY <1>5, <1>13 DEF vars, settings
<1> QED BY <1>6, <1>7, <1>8, <1>9, <1>10, <1>11, <1>12, <1>13 DEF Next

\* A running configuration is within the bounds of the console, but for thresholds that
\* labels moved: the next start refuses nothing else of it.
THEOREM BoundsAreKept == Spec => []OnlyLabelsOvershoot
<1>1. Init => OnlyLabelsOvershoot
  BY DEF Init, OnlyLabelsOvershoot, Up
<1>2. Inv /\ OnlyLabelsOvershoot /\ [Next]_vars => OnlyLabelsOvershoot'
  BY StepsStayWithinBounds
<1> QED BY <1>1, <1>2, Invariance, PTL DEF Spec

\* However often a label is sent, and whatever a crash leaves of its file, no more
\* labels are counted than alerts were raised.
THEOREM LabelsCountOnce == Spec => []LabelsAreOfAlerts
<1>1. Inv => LabelsAreOfAlerts
  <2> SUFFICES ASSUME Inv PROVE LabelsAreOfAlerts
    OBVIOUS
  <2>1. LabelsInv /\ ListOK /\ LabelsOK
    BY DEF Inv, SettingsInv, EngineInv
  <2>2. Cardinality(OpenIds(alerts)) \in Nat /\ Labelled(labels) \in Nat /\ raised \in Nat
    BY <2>1, ListFacts, LabelledNat DEF LabelsOK
  <2> QED BY <2>1, <2>2 DEF LabelsInv, LabelsAreOfAlerts
<1> QED BY <1>1, Invariance, PTL

\* A board or machine has one open alert of a metric at most.
THEOREM OneAlertIsOpen == Spec => []OneOpenAlert
<1>1. Inv => OneOpenAlert
  BY ListFacts DEF Inv, EngineInv, ListOK, OneOpen, OneOpenAlert
<1> QED BY <1>1, Invariance, PTL

\* What the last poll found is open in the list until it is resolved, unless the list
\* is full.
THEOREM FindingsAreShown == Spec => []FoundIsShown
<1>1. Inv => FoundIsShown
  BY DEF Inv, EngineInv
<1> QED BY <1>1, Invariance, PTL

\* A board is raised only after qtmp.persistence judgements in a row, all below the
\* threshold.
THEOREM PersistenceComesFirst == Spec => RaisedAfterPersistence
<1>1. Inv /\ [Next]_vars => [RaisedRightly]_vars
  BY StepFacts
<1>2. RaisedAfterPersistence <=> [][RaisedRightly]_vars
  BY DEF RaisedAfterPersistence, RaisedRightly
<1> QED BY <1>1, <1>2, Invariance, PTL DEF Spec
=============================================================================
