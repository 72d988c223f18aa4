-------------------------------- MODULE Agent --------------------------------
(***************************************************************************)
(* The polling agent of src/hashguard/agent.py over its ledger: each poll  *)
(* closes the interval the previous one opened, decides and commands the   *)
(* relays, and writes one record that reveals the decision just closed and *)
(* commits the one just taken.  After a poll that came through, poll_loop  *)
(* seals the pending days if the local day has changed.                    *)
(*                                                                         *)
(* A poll runs under the lock, so no other thread sees it half done, but   *)
(* its append may fail (the loop goes on) or the process die in it, and by *)
(* then the relays have moved.  Prices, telemetry values and durations are *)
(* left out: an interval is its action, the poll that opened it, and the   *)
(* nonce drawn there; a commitment is those three, free of collisions.     *)
(***************************************************************************)
EXTENDS Ledger, Commit

CONSTANTS
  Miners,    \* the machines of the farm
  Wired,     \* those that have a relay webhook
  MaxPolls   \* bound: polls between two midnights

ASSUME MinersAssumption == Wired \subseteq Miners /\ IsFiniteSet(Miners)
ASSUME MaxPollsAssumption == MaxPolls \in Nat
ASSUME DecisionFieldsAssumption == DecisionFields = {"action", "opened"}

VARIABLES
  open_interval,   \* AgentState.open_interval: the interval now running, or Null
  decision,        \* Curtailment.decision: the action the relays were last sent
  mode,            \* curtailment.mode, read from the file when the process starts
  baseline,        \* the decisions in force when the baseline's samples were read
  phase,           \* poll_loop: "poll", "check" the day, the day has "changed", "sealing"
  today,           \* the local day poll_loop read before sealing
  last_seal_day,
  off,             \* the machines that are switched off at their relay
  polls            \* bound

loop == <<phase, today, last_seal_day>>
session == <<open_interval, decision, mode, baseline, loop>>
agent == <<session, off, polls>>
agentVars == <<vars, agent>>

Actions == {"MINE", "PAUSE"}

-----------------------------------------------------------------------------
(* The committed intervals, and the record before a day.                   *)

Commits == [decision : [action : Actions, opened : Nat], nonce : Nat]
Reveals == [commit_seq : Int, nonce : Nat]
Intervals == [action : Actions, executed : BOOLEAN, opened : Nat,
              commit : Commits \cup {Null}, reveal : Reveals \cup {Null}]

ASSUME NullAssumption == Null \notin Commits \cup Reveals \cup Lines

\* The record before the first one of a day, looked for in yesterday's file only.
record_before(day) ==
  IF day - 1 \in Days /\ records[day - 1] # <<>> THEN Last(records[day - 1]) ELSE Null

-----------------------------------------------------------------------------
(* One poll.                                                               *)

AgentInit ==
  /\ Init
  /\ open_interval = Null /\ decision = "MINE" /\ mode = "advisory" /\ baseline = {}
  /\ phase = "poll" /\ today = local /\ last_seal_day = local
  /\ off = {} /\ polls = 0

AgentStart(f, force, m) ==
  /\ Start(f, force)
  /\ open_interval' = Null /\ decision' = "MINE" /\ mode' = m /\ baseline' = {}
  /\ phase' = "poll" /\ today' = local /\ last_seal_day' = local
  /\ UNCHANGED <<off, polls>>

\* A machine that does not answer is left out of the total.
Readings == 0..Cardinality(Miners \ off)

BelievedMining == open_interval = Null \/ open_interval.action = "MINE"

Observe(total) ==
  baseline' = IF BelievedMining /\ total > 0 THEN baseline \cup {decision} ELSE baseline

\* Mutation: the relays of all the machines are called, not those with a webhook.
ActOnAll(action) ==
  \/ mode = "advisory" /\ UNCHANGED off
  \/ /\ mode = "webhook"
     /\ off' = IF action = "PAUSE" THEN Miners ELSE {}

\* act(): a relay that does not answer leaves its machine as it is.
Act(action) ==
  \/ mode = "advisory" /\ UNCHANGED off
  \/ /\ mode = "webhook"
     /\ \E answered \in SUBSET Wired :
          off' = IF action = "PAUSE" THEN off \cup answered ELSE off \ answered

Nonce == appends + 1

Opening(action) ==
  LET interval == [action |-> action, opened |-> Nonce] IN
  [action |-> action, executed |-> mode # "advisory", opened |-> Nonce, nonce |-> Nonce,
   commit |-> commit_hash(decision_snapshot(interval), Nonce)]

\* Mutation: the reveal names the record it is written in.
ClosingRecordNamesItself(action) ==
  IF open_interval = Null
  THEN [action |-> "MINE", executed |-> mode # "advisory", opened |-> Nonce,
        commit |-> Opening(action).commit, reveal |-> Null]
  ELSE [action |-> open_interval.action, executed |-> open_interval.executed,
        opened |-> open_interval.opened, commit |-> Opening(action).commit,
        reveal |-> [commit_seq |-> seq, nonce |-> open_interval.nonce]]

\* The interval that closes, in clear, with the commitment of the one that opens.
ClosingRecord(action) ==
  IF open_interval = Null
  THEN [action |-> "MINE", executed |-> mode # "advisory", opened |-> Nonce,
        commit |-> Opening(action).commit, reveal |-> Null]
  ELSE [action |-> open_interval.action, executed |-> open_interval.executed,
        opened |-> open_interval.opened, commit |-> Opening(action).commit,
        reveal |-> [commit_seq |-> seq - 1, nonce |-> open_interval.nonce]]

PollStep(action) ==
  /\ phase = "poll" /\ polls < MaxPolls
  /\ \E total \in Readings : Observe(total)
  /\ decision' = action
  /\ Act(action)
  /\ polls' = polls + 1
  /\ UNCHANGED <<mode, today, last_seal_day>>

Poll(action) ==
  /\ PollStep(action)
  /\ RecordOn(utc, ClosingRecord(action))
  /\ open_interval' = Opening(action)
  /\ phase' = "check"
  /\ UNCHANGED faults

\* The log cannot be written: the record stays, the day is not checked.
PollUnlogged(action) ==
  /\ PollStep(action)
  /\ faults < MaxFaults /\ faults' = faults + 1
  /\ RecordOn(utc, ClosingRecord(action))
  /\ open_interval' = Opening(action)
  /\ UNCHANGED phase

\* Mutation: the new interval is opened before its record is written.
PollFailsOpened(action) ==
  /\ PollStep(action)
  /\ RecordInterrupted(utc, ClosingRecord(action), ErrorOutcomes)
  /\ open_interval' = Opening(action)
  /\ UNCHANGED <<up, phase>>

\* The record cannot be written: poll_loop reports it and sleeps until the next poll.
PollFails(action) ==
  /\ PollStep(action)
  /\ RecordInterrupted(utc, ClosingRecord(action), ErrorOutcomes)
  /\ UNCHANGED <<up, open_interval, phase>>

PollCrashes(action) ==
  /\ PollStep(action)
  /\ RecordInterrupted(utc, ClosingRecord(action), CrashOutcomes)
  /\ up' = FALSE
  /\ UNCHANGED <<open_interval, phase>>

-----------------------------------------------------------------------------
(* poll_loop seals when the local day has changed; an exception on the way *)
(* leaves last_seal_day alone, so the next poll tries again.               *)

Lock == up /\ sealing = {}

\* date.today() is read before the lock is taken.
ReadDay ==
  /\ up /\ phase = "check"
  /\ today' = local
  /\ phase' = IF local = last_seal_day THEN "poll" ELSE "changed"
  /\ UNCHANGED <<vars, open_interval, decision, mode, baseline, last_seal_day, off, polls>>

NewDay ==
  /\ phase = "changed"
  /\ SealPending
  /\ phase' = "sealing"
  /\ UNCHANGED <<open_interval, decision, mode, baseline, today, last_seal_day, off, polls>>

SealsUnreadable ==
  /\ Lock /\ phase = "changed" /\ ~ Readable(seals)
  /\ phase' = "poll"
  /\ UNCHANGED <<vars, open_interval, decision, mode, baseline, today, last_seal_day, off, polls>>

\* Mutation: the date is read again once the days are sealed.
DaySealedReread ==
  /\ Lock /\ phase = "sealing"
  /\ phase' = "poll" /\ last_seal_day' = local
  /\ UNCHANGED <<vars, open_interval, decision, mode, baseline, today, off, polls>>

DaySealed ==
  /\ Lock /\ phase = "sealing"
  /\ phase' = "poll" /\ last_seal_day' = today
  /\ UNCHANGED <<vars, open_interval, decision, mode, baseline, today, off, polls>>

\* POST /ledger/seal, and main() at the end, take the lock between two steps of the loop.
ConsoleSeals == phase # "sealing" /\ SealPending /\ UNCHANGED agent

SealOne(day) == (SealDay(day) \/ SealCrashes(day)) /\ UNCHANGED agent

SealingRaises(day) ==
  /\ SealRefused(day) \/ SealFails(day)
  /\ phase' = IF phase = "sealing" THEN "poll" ELSE phase
  /\ UNCHANGED <<open_interval, decision, mode, baseline, today, last_seal_day, off, polls>>

AgentMidnight ==
  /\ Midnight
  /\ polls' = 0
  /\ UNCHANGED <<session, off>>

AgentStops == Stop /\ UNCHANGED agent

AgentNext ==
  \/ \E f \in Farms, force \in Forced, m \in {"advisory", "webhook"} : AgentStart(f, force, m)
  \/ \E a \in Actions : Poll(a) \/ PollUnlogged(a) \/ PollFails(a) \/ PollCrashes(a)
  \/ ReadDay \/ NewDay \/ SealsUnreadable \/ DaySealed \/ ConsoleSeals
  \/ \E d \in days : SealOne(d) \/ SealingRaises(d)
  \/ AgentMidnight \/ AgentStops

AgentSpec == AgentInit /\ [][AgentNext]_agentVars

\* The loop thread keeps running while the process is up; restarts are not promised.
AgentFairness ==
  /\ WF_agentVars(\E a \in Actions : Poll(a))
  /\ WF_agentVars(ReadDay \/ NewDay \/ SealsUnreadable \/ DaySealed)
  /\ WF_agentVars(\E d \in days : SealDay(d) /\ UNCHANGED agent)
  /\ WF_agentVars(\E d \in days : SealingRaises(d))

AgentFairSpec == AgentSpec /\ AgentFairness
=============================================================================
