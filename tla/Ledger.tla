------------------------------- MODULE Ledger -------------------------------
(***************************************************************************)
(* GuardedLedger of src/hashguard/ledger.py: one process appends records   *)
(* to one file per UTC day, seals the days that are over, and comes back   *)
(* after a stop from what the disk holds.                                  *)
(*                                                                         *)
(* The disk is days (the day files that exist), records (their lines),     *)
(* seals (seals.jsonl) and activation (activation.json); everything else   *)
(* but the clock is the memory of the running process.  Sealing holds the  *)
(* lock from the listing of the pending days to the last seal, so no       *)
(* record is appended while sealing is non-empty; a stop may come between  *)
(* any two seals.                                                          *)
(*                                                                         *)
(* Digests are collision-free: the hash of a record is the id of the line  *)
(* that carries it, and the hash of a seal is the sequence of the Merkle   *)
(* roots it chains.  The Merkle root of a day is its sequence of leaves,   *)
(* which the leaf count signed beside the root makes faithful.             *)
(***************************************************************************)
EXTENDS Integers, Sequences, FiniteSets, SequencesExt

CONSTANTS
  Farms,          \* farm ids a device key may carry
  NoFarm,         \* a key without a farm id: the v2.0.0 program
  Forced,         \* values of HASHGUARD_ACTIVATE_FROM; NoDay when it is unset
  Bodies,         \* what a record says of its interval; the ledger never reads it
  Skews,          \* local day minus UTC day: {0} on UTC, {-1,0} west of it, {0,1} east
  ErrorOutcomes,  \* what reaches the file when an append raises
  CrashOutcomes,  \* what reaches the file when the process dies in an append
  LastDay,        \* bound: the last UTC day
  MaxAppends,     \* bound: calls of record()
  MaxFaults       \* bound: stops, crashes and failed appends

NoDay == -1
Days == 0..LastDay
Outcomes == {"lost", "torn", "whole"}

ASSUME FarmsAssumption == NoFarm \notin Farms
ASSUME ForcedAssumption == Forced \subseteq Int
ASSUME SkewsAssumption == Skews \subseteq -1..1 /\ Skews # {}
ASSUME OutcomesAssumption ==
  ErrorOutcomes \subseteq Outcomes /\ CrashOutcomes \subseteq Outcomes
ASSUME BoundsAssumption ==
  LastDay \in Nat /\ MaxAppends \in Nat /\ MaxFaults \in Nat

VARIABLES
  utc, local,   \* the UTC day, by which records are filed, and the day of date.today()
  days, records, seals, activation,        \* the disk
  up, farm, seq, prev_hash, sealing,       \* the running process
  appends, faults                          \* bounds

clock == <<utc, local>>
disk == <<days, records, seals, activation>>
memory == <<up, farm, seq, prev_hash, sealing>>
bounds == <<appends, faults>>
vars == <<clock, disk, memory, bounds>>

-----------------------------------------------------------------------------
(* Lines of a JSON-lines file.  A torn line is a prefix without its newline *)
(* and whatever is appended next ends up on the same, unparsable, line.     *)

Parses == "parses"
Torn == "torn"
Garbled == "garbled"
GENESIS == 0

Lines == [seq : Nat, prev : Nat, id : Nat, body : Bodies, json : {Parses, Torn, Garbled}]

OpenEnded(file) == file # <<>> /\ Last(file).json = Torn

AppendLine(file, line) ==
  IF OpenEnded(file)
  THEN [file EXCEPT ![Len(file)].json = IF line.json = Torn THEN Torn ELSE Garbled]
  ELSE Append(file, line)

\* The file after an append of line that did not return.
Interrupted(file, line, outcome) ==
  CASE outcome = "lost"  -> file
    [] outcome = "torn"  -> AppendLine(file, [line EXCEPT !.json = Torn])
    [] outcome = "whole" -> AppendLine(file, line)

Readable(file) == \A i \in DOMAIN file : file[i].json = Parses

record_hash(r) == r.id
leaves(file) == [i \in 1..Len(file) |-> record_hash(file[i])]

-----------------------------------------------------------------------------
(* Seals and the rule they are signed under.                               *)

SEAL_RULE_LEGACY == 1
SEAL_RULE_FARM_BOUND == 2
GENESIS_SEAL == <<>>

Seals == [day : Nat, prev_seal : Seq(Seq(Nat)), merkle_root : Seq(Nat),
          first_seq : Nat, last_seq : Nat, rule : {SEAL_RULE_LEGACY, SEAL_RULE_FARM_BOUND},
          farm_id : Farms \cup {NoFarm}, json : {Parses, Torn, Garbled}]

seal_hash(s) == Append(s.prev_seal, s.merkle_root)
SealedDays == {seals[i].day : i \in DOMAIN seals}

Activations == [from_day : Int, farm_id : Farms \cup {NoFarm}, file : {"absent", "valid", "torn"}]
NotActivated == [from_day |-> NoDay, farm_id |-> NoFarm, file |-> "absent"]

seal_rule_for(day, entry) ==
  IF entry.file = "valid" /\ day >= entry.from_day
  THEN SEAL_RULE_FARM_BOUND
  ELSE SEAL_RULE_LEGACY

-----------------------------------------------------------------------------
(* Opening the ledger: the activation entry, then the head of the chain.   *)

Init ==
  /\ utc = 0 /\ local \in {0 + k : k \in Skews}
  /\ days = {} /\ records = [d \in Days |-> <<>>] /\ seals = <<>>
  /\ activation = NotActivated
  /\ up = FALSE /\ farm = NoFarm /\ seq = 0 /\ prev_hash = GENESIS /\ sealing = {}
  /\ appends = 0 /\ faults = 0

FromDay(force) == IF force = NoDay THEN local ELSE force

KeepsActivation(f, force) ==
  \/ /\ activation.file = "valid" /\ activation.farm_id = f
     /\ force \in {NoDay, activation.from_day}
  \/ activation.file = "absent" /\ f = NoFarm

\* Mutation: the sealed days are not consulted before activating.
ActivatesOverSeals(f, force) == activation.file = "absent" /\ f \in Farms /\ Readable(seals)

WritesActivation(f, force) ==
  /\ activation.file = "absent" /\ f \in Farms
  /\ Readable(seals)
  /\ \A d \in SealedDays : FromDay(force) > d

NewActivation(f, force, file) == [from_day |-> FromDay(force), farm_id |-> f, file |-> file]

load_or_write_activation(f, force) ==
  \/ KeepsActivation(f, force) /\ UNCHANGED activation
  \/ WritesActivation(f, force) /\ activation' = NewActivation(f, force, "valid")

LastFile(d) == d \in days /\ \A e \in days : e <= d

\* Mutations: an empty ledger counts from -1; the head's own seq is taken again.
ResumesFromMinusOne(s, p) ==
  \/ days = {} /\ s = -1 /\ p = GENESIS
  \/ \E d \in days :
       /\ LastFile(d) /\ records[d] # <<>> /\ Readable(records[d])
       /\ s = Last(records[d]).seq + 1 /\ p = record_hash(Last(records[d]))

ResumesAtHead(s, p) ==
  \/ days = {} /\ s = 0 /\ p = GENESIS
  \/ \E d \in days :
       /\ LastFile(d) /\ records[d] # <<>> /\ Readable(records[d])
       /\ s = Last(records[d]).seq /\ p = record_hash(Last(records[d]))

\* _resume: the head is the last line of the last day file, whatever the others hold.
Resumes(s, p) ==
  \/ days = {} /\ s = 0 /\ p = GENESIS
  \/ \E d \in days :
       /\ LastFile(d) /\ records[d] # <<>> /\ Readable(records[d])
       /\ s = Last(records[d]).seq + 1 /\ p = record_hash(Last(records[d]))

ResumeRefused ==
  \E d \in days : LastFile(d) /\ (records[d] = <<>> \/ ~ Readable(records[d]))

Start(f, force) ==
  /\ ~up
  /\ load_or_write_activation(f, force)
  /\ Resumes(seq', prev_hash')
  /\ up' = TRUE /\ farm' = f /\ sealing' = {}
  /\ UNCHANGED <<clock, days, records, seals, bounds>>

\* The activation entry stays behind when the head of the chain is refused.
StartRefused(f, force) ==
  /\ ~up
  /\ WritesActivation(f, force) /\ activation' = NewActivation(f, force, "valid")
  /\ ResumeRefused
  /\ UNCHANGED <<clock, days, records, seals, memory, bounds>>

StartCrashes(f, force) ==
  /\ ~up /\ faults < MaxFaults
  /\ WritesActivation(f, force)
  /\ \E outcome \in CrashOutcomes :
       activation' = NewActivation(f, force, IF outcome = "whole" THEN "valid" ELSE "torn")
  /\ faults' = faults + 1
  /\ UNCHANGED <<clock, days, records, seals, memory, appends>>

-----------------------------------------------------------------------------
(* record(): one line in the file of the UTC day the caller read.          *)

NextLine(body) ==
  [seq |-> seq, prev |-> prev_hash, id |-> appends + 1, body |-> body, json |-> Parses]

Appending == up /\ sealing = {} /\ appends < MaxAppends

RecordOn(day, body) ==
  /\ Appending
  /\ days' = days \cup {day}
  /\ records' = [records EXCEPT ![day] = AppendLine(@, NextLine(body))]
  /\ seq' = seq + 1
  /\ prev_hash' = record_hash(NextLine(body))
  /\ appends' = appends + 1
  /\ UNCHANGED <<clock, seals, activation, up, farm, sealing>>

\* Mutation: seq and prev_hash move on before the line is on the disk.
RecordCountedFirst(day, body, outcomes) ==
  /\ Appending /\ faults < MaxFaults
  /\ days' = days \cup {day}
  /\ \E outcome \in outcomes :
       records' = [records EXCEPT ![day] = Interrupted(@, NextLine(body), outcome)]
  /\ seq' = seq + 1 /\ prev_hash' = record_hash(NextLine(body))
  /\ appends' = appends + 1 /\ faults' = faults + 1
  /\ UNCHANGED <<clock, seals, activation, farm, sealing>>

\* open(), write(), flush() or fsync() did not return: seq and prev_hash stay.
RecordInterrupted(day, body, outcomes) ==
  /\ Appending /\ faults < MaxFaults
  /\ days' = days \cup {day}
  /\ \E outcome \in outcomes :
       records' = [records EXCEPT ![day] = Interrupted(@, NextLine(body), outcome)]
  /\ appends' = appends + 1 /\ faults' = faults + 1
  /\ UNCHANGED <<clock, seals, activation, farm, seq, prev_hash, sealing>>

Record(body) == RecordOn(utc, body) /\ UNCHANGED faults
RecordFails(body) == RecordInterrupted(utc, body, ErrorOutcomes) /\ UNCHANGED up
RecordCrashes(body) == RecordInterrupted(utc, body, CrashOutcomes) /\ up' = FALSE

-----------------------------------------------------------------------------
(* seal_pending(): the finished unsealed days, oldest first; the first     *)
(* that cannot be sealed ends the call.                                    *)

\* Mutation: today counts as finished.
FinishedToday(day) == day <= local

Finished(day) == day < local

\* Mutation: only yesterday is looked at, not every unsealed day.
SealYesterday ==
  /\ up /\ sealing = {} /\ Readable(seals)
  /\ sealing' = {d \in days : d = local - 1 /\ d \notin SealedDays}
  /\ UNCHANGED <<clock, disk, up, farm, seq, prev_hash, bounds>>

SealPending ==
  /\ up /\ sealing = {} /\ Readable(seals)
  /\ sealing' = {d \in days : Finished(d) /\ d \notin SealedDays}
  /\ UNCHANGED <<clock, disk, up, farm, seq, prev_hash, bounds>>

\* Mutation: the days are taken as the directory lists them, unsorted.
AnyListed(day) == day \in sealing

Oldest(day) == day \in sealing /\ \A e \in sealing : day <= e

PrevSeal == IF seals = <<>> THEN GENESIS_SEAL ELSE seal_hash(Last(seals))

Sealable(day) ==
  /\ Readable(seals) /\ day \notin SealedDays
  /\ Finished(day)
  /\ records[day] # <<>> /\ Readable(records[day])

SealOf(day) ==
  LET rule == seal_rule_for(day, activation) IN
  [day |-> day, prev_seal |-> PrevSeal, merkle_root |-> leaves(records[day]),
   first_seq |-> Head(records[day]).seq, last_seq |-> Last(records[day]).seq,
   rule |-> rule, farm_id |-> IF rule = SEAL_RULE_FARM_BOUND THEN farm ELSE NoFarm,
   json |-> Parses]

SealDay(day) ==
  /\ up /\ Oldest(day) /\ Sealable(day)
  /\ seals' = AppendLine(seals, SealOf(day))
  /\ sealing' = sealing \ {day}
  /\ UNCHANGED <<clock, days, records, activation, up, farm, seq, prev_hash, bounds>>

\* Mutation: a day that cannot be sealed is skipped instead of ending the call.
SealSkipped(day) ==
  /\ up /\ Oldest(day) /\ ~ Sealable(day)
  /\ sealing' = sealing \ {day}
  /\ UNCHANGED <<clock, disk, up, farm, seq, prev_hash, bounds>>

SealRefused(day) ==
  /\ up /\ Oldest(day) /\ ~ Sealable(day)
  /\ sealing' = {}
  /\ UNCHANGED <<clock, disk, up, farm, seq, prev_hash, bounds>>

SealInterrupted(day, outcomes) ==
  /\ up /\ Oldest(day) /\ Sealable(day) /\ faults < MaxFaults
  /\ \E outcome \in outcomes : seals' = Interrupted(seals, SealOf(day), outcome)
  /\ sealing' = {} /\ faults' = faults + 1
  /\ UNCHANGED <<clock, days, records, activation, farm, seq, prev_hash, appends>>

SealFails(day) == SealInterrupted(day, ErrorOutcomes) /\ UNCHANGED up
SealCrashes(day) == SealInterrupted(day, CrashOutcomes) /\ up' = FALSE

-----------------------------------------------------------------------------
(* The process stops, or is killed, between two steps; midnights pass.     *)

Stop ==
  /\ up /\ faults < MaxFaults
  /\ up' = FALSE /\ sealing' = {} /\ faults' = faults + 1
  /\ UNCHANGED <<clock, disk, farm, seq, prev_hash, appends>>

Midnight ==
  /\ \E du \in 0..1, dl \in 0..1 :
       /\ du + dl > 0 /\ utc + du <= LastDay
       /\ utc' = utc + du /\ local' = local + dl
       /\ local' - utc' \in Skews
  /\ UNCHANGED <<disk, memory, bounds>>

LedgerNext ==
  \/ \E f \in Farms \cup {NoFarm}, force \in Forced :
       Start(f, force) \/ StartRefused(f, force) \/ StartCrashes(f, force)
  \/ \E d \in days : SealDay(d) \/ SealRefused(d) \/ SealFails(d) \/ SealCrashes(d)
  \/ SealPending \/ Stop \/ Midnight

Next ==
  \/ LedgerNext
  \/ \E body \in Bodies : Record(body) \/ RecordFails(body) \/ RecordCrashes(body)

Spec == Init /\ [][Next]_vars

\* Whoever runs the agent starts it again, with the farm key it was installed with,
\* and seal_pending is called again whatever became of the last call: poll_loop calls
\* it at the first poll of every local day, main() before a statement and at the end.
Fairness ==
  /\ WF_vars(\E f \in Farms, force \in Forced : Start(f, force))
  /\ WF_vars(SealPending)
  /\ WF_vars(\E d \in days : SealDay(d) \/ SealRefused(d))

FairSpec == Spec /\ Fairness
=============================================================================
