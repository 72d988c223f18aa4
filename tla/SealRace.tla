------------------------------ MODULE SealRace ------------------------------
(***************************************************************************)
(* The processes that write one ledger directory, one file access at a     *)
(* time: the agent, which records and seals, and hashguard --seal or       *)
(* --statement run beside it, which only seal.  The agent's threads take   *)
(* turns under its lock, so it is one process here; between processes      *)
(* nothing is locked.  A poll fixes the day of its record when it reads    *)
(* the time, and calls the relays over the network before it writes.       *)
(*                                                                         *)
(* The host is on UTC, every line reaches its file in one write, and a     *)
(* seal is its day, its root and the chain it continues.                   *)
(***************************************************************************)
EXTENDS Integers, Sequences, FiniteSets

CONSTANTS
  Agent,        \* the agent's process
  Sealers,      \* the processes of the command line
  LastDay,      \* bound: the last day
  MaxRecords,   \* bound: records
  MaxCalls      \* bound: calls of seal_pending

Processes == {Agent} \cup Sealers
Days == 0..LastDay

ASSUME AgentAssumption == Agent \notin Sealers /\ IsFiniteSet(Sealers)
ASSUME BoundsAssumption == LastDay \in Nat /\ MaxRecords \in Nat /\ MaxCalls \in Nat

VARIABLES
  today,     \* the day
  files,     \* records/<day>.jsonl: the hashes of its records
  seals,     \* seals.jsonl
  pc,        \* where each process is
  when,      \* the day of the poll under way
  pending,   \* the days a call of seal_pending has listed and not sealed yet
  root,      \* the root computed from the records read
  prev,      \* the chain up to the last seal read
  authors,         \* auxiliary: the process that appended each seal
  overlapped,      \* auxiliary: two processes have been at work at once
  written, calls   \* bounds

vars == <<today, files, seals, pc, when, pending, root, prev, authors, overlapped, written, calls>>

\* Mutation: only the last line of seals.jsonl is looked at.
LastSealedDay == IF seals = <<>> THEN {} ELSE {seals[Len(seals)].day}

SealedDays == {seals[i].day : i \in DOMAIN seals}

ChainHead ==
  IF seals = <<>> THEN <<>> ELSE Append(seals[Len(seals)].prev, seals[Len(seals)].root)

Init ==
  /\ today = 0 /\ files = [d \in Days |-> <<>>] /\ seals = <<>>
  /\ pc = [p \in Processes |-> "idle"] /\ when = 0
  /\ pending = [p \in Processes |-> {}]
  /\ root = [p \in Processes |-> <<>>] /\ prev = [p \in Processes |-> <<>>]
  /\ authors = <<>> /\ overlapped = FALSE /\ written = 0 /\ calls = 0

At(p, here, next) == pc[p] = here /\ pc' = [pc EXCEPT ![p] = next]

-----------------------------------------------------------------------------
(* poll_once: the time, the relays, the record.                            *)

ReadTime ==
  /\ At(Agent, "idle", "polling") /\ written < MaxRecords
  /\ when' = today
  /\ UNCHANGED <<today, files, seals, pending, root, prev, written, calls, authors>>

WriteRecord ==
  /\ At(Agent, "polling", "idle")
  /\ files' = [files EXCEPT ![when] = Append(@, written + 1)]
  /\ written' = written + 1
  /\ UNCHANGED <<today, seals, when, pending, root, prev, calls, authors>>

-----------------------------------------------------------------------------
(* seal_pending, and seal_day on each of the days it has listed.           *)

\* Mutation: today counts as finished.
ListWithToday(p) ==
  /\ At(p, "idle", "listed") /\ calls < MaxCalls
  /\ pending' = [pending EXCEPT ![p] =
       {d \in Days : d <= today /\ files[d] # <<>> /\ d \notin SealedDays}]
  /\ calls' = calls + 1
  /\ UNCHANGED <<today, files, seals, when, root, prev, written, authors>>

ListPending(p) ==
  /\ At(p, "idle", "listed") /\ calls < MaxCalls
  /\ pending' = [pending EXCEPT ![p] =
       {d \in Days : d < today /\ files[d] # <<>> /\ d \notin SealedDays}]
  /\ calls' = calls + 1
  /\ UNCHANGED <<today, files, seals, when, root, prev, written, authors>>

Oldest(p, d) == d \in pending[p] /\ \A e \in pending[p] : d <= e

AlreadySealed(p, d) ==
  /\ pc[p] = "listed" /\ Oldest(p, d) /\ d \in SealedDays
  /\ pending' = [pending EXCEPT ![p] = @ \ {d}]
  /\ UNCHANGED <<today, files, seals, pc, when, root, prev, written, calls, authors>>

NotSealedYet(p, d) ==
  /\ At(p, "listed", "sealing") /\ Oldest(p, d) /\ d \notin SealedDays
  /\ UNCHANGED <<today, files, seals, when, pending, root, prev, written, calls, authors>>

ReadRecords(p, d) ==
  /\ At(p, "sealing", "rooted") /\ Oldest(p, d)
  /\ root' = [root EXCEPT ![p] = files[d]]
  /\ UNCHANGED <<today, files, seals, when, pending, prev, written, calls, authors>>

ReadLastSeal(p) ==
  /\ At(p, "rooted", "chained")
  /\ prev' = [prev EXCEPT ![p] = ChainHead]
  /\ UNCHANGED <<today, files, seals, when, pending, root, written, calls, authors>>

AppendSeal(p, d) ==
  /\ At(p, "chained", "listed") /\ Oldest(p, d)
  /\ seals' = Append(seals, [day |-> d, root |-> root[p], prev |-> prev[p]])
  /\ authors' = Append(authors, p)
  /\ pending' = [pending EXCEPT ![p] = @ \ {d}]
  /\ UNCHANGED <<today, files, when, root, prev, written, calls>>

\* seal_pending has returned, or whatever the process was doing was interrupted.
Ends(p) ==
  /\ pc[p] # "idle" /\ pc' = [pc EXCEPT ![p] = "idle"]
  /\ pending' = [pending EXCEPT ![p] = {}]
  /\ UNCHANGED <<today, files, seals, when, root, prev, written, calls, authors>>

Midnight ==
  /\ today < LastDay /\ today' = today + 1
  /\ UNCHANGED <<files, seals, pc, when, pending, root, prev, written, calls, authors>>

Step ==
  \/ ReadTime \/ WriteRecord \/ Midnight
  \/ \E p \in Processes :
       \/ ListPending(p) \/ ReadLastSeal(p) \/ Ends(p)
       \/ \E d \in pending[p] :
            AlreadySealed(p, d) \/ NotSealedYet(p, d) \/ ReadRecords(p, d) \/ AppendSeal(p, d)

AtWork == {p \in Processes : pc[p] # "idle"}

Next == Step /\ overlapped' = (overlapped \/ Cardinality(AtWork') > 1)

Spec == Init /\ [][Next]_vars
=============================================================================
