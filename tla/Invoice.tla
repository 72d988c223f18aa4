------------------------------- MODULE Invoice --------------------------------
(***************************************************************************)
(* From a poll to a paid bill: the agent records what its telemetry shows  *)
(* of each interval, days are sealed, a statement of the month is handed   *)
(* out with a copy of the records, and an independent reader verifies it.  *)
(*                                                                         *)
(* A poll closes the interval opened by the previous one, so the price it  *)
(* was decided at is the price it is billed at, and reveals its decision.  *)
(* Once, the day sealed last may be sealed a second time by a process that *)
(* found it unsealed (see SealRace); once, what the reader holds may       *)
(* differ in one place from what was handed out.  Appends that fail are in *)
(* Ledger.                                                                 *)
(***************************************************************************)
EXTENDS Billing, FiniteSetsExt

CONSTANTS
  Days, Month,      \* days as integers, and those of the billed month
  Farm,             \* the farm id of the device
  Decisions,        \* [action, price] that decide() may take
  Measurements,     \* [elapsed, baseline_gh, observed_gh]: what a poll reads; the clock may
                    \* have stepped back, and there may be no baseline
  PollSeconds, Watts, Hourly, FeeBp, MarginPpm,  \* the configuration
  MaxRecords        \* bound: records in all; days are sealed once they are written

ASSUME InvoiceDays ==
  /\ Days \subseteq Int /\ \E first, last \in Days : Days = first..last
  /\ \E first, last \in Days : Month = first..last
ASSUME InvoiceAmounts ==
  {PollSeconds, Watts, Hourly, FeeBp, MarginPpm, MaxRecords, MaxProofs} \subseteq Nat
ASSUME InvoiceInputs ==
  /\ \A d \in Decisions : d.action \in {"MINE", "PAUSE"} /\ d.price \in Int
  /\ \A m \in Measurements : m.elapsed \in Int /\ {m.baseline_gh, m.observed_gh} \subseteq Int \cup {Null}
ASSUME InvoiceFields == DecisionFields \subseteq {"action", "price", "opened"}

VARIABLES
  today, files, seals, activation,   \* the ledger
  open_interval, executes,           \* the agent: its open interval, its mode not advisory
  statement, copy,                   \* what the reader was handed
  repeated, altered                  \* a seal was repeated; the hand-over was altered

vars == <<today, files, seals, activation, open_interval, executes, statement, copy,
          repeated, altered>>

FarmId == IF activation = Null THEN Null ELSE Farm

Book == [files |-> files, seals |-> seals, farm_id |-> FarmId, activation |-> activation,
         fee_bp |-> FeeBp, margin_ppm |-> MarginPpm]

ActivationFrom(day) ==
  [from_day |-> day, farm_id |-> Farm, signature |-> Signed([from_day |-> day, farm_id |-> Farm])]

Openings == [action : {"MINE", "PAUSE"}, price : Int, executed : BOOLEAN, opened : Nat]
Commitments == [decision : [DecisionFields -> {"MINE", "PAUSE"} \cup Int], nonce : Nat]
Reveals == [commit_seq : Int, nonce : Nat]
Intervals ==
  [action : {"MINE", "PAUSE"}, executed : BOOLEAN, price : Int, claimed_wh : Nat,
   claimed_mining_lost : Nat, baseline_gh : Int \cup {Null}, observed_gh : Int \cup {Null},
   opened : Nat, commit : Commitments \cup {Null}, reveal : Reveals \cup {Null}]
RecordLines == [seq : Nat, prev : [leaf : Nat] \cup {Null}, id : Nat, body : Intervals]

ASSUME InvoiceNull ==
  /\ Null \notin Int \cup Openings \cup Commitments \cup Reveals \cup RecordLines
  /\ Null # Farm /\ \A d \in Days : ActivationFrom(d) # Null

Written == {d \in Days : files[d] # <<>>}

\* What _resume takes up: the last line of the last file.
ChainHead == IF Written = {} THEN Null ELSE Last(files[Max(Written)])

next_seq == IF ChainHead = Null THEN 0 ELSE ChainHead.seq + 1

LastHash == IF ChainHead = Null THEN Null ELSE record_hash(ChainHead)

Init ==
  /\ today = Min(Days) /\ files = [d \in Days |-> <<>>] /\ seals = <<>>
  /\ activation \in {Null, ActivationFrom(today)}
  /\ open_interval = Null /\ executes = TRUE
  /\ statement = Null /\ copy = Null /\ repeated = FALSE /\ altered = FALSE

-----------------------------------------------------------------------------
(* The agent.                                                              *)

\* Mutation: a clock that stepped back is not considered.
ClaimableBelow(elapsed) == IF elapsed > PollSeconds THEN PollSeconds ELSE elapsed

\* Never more than the poll interval, whatever the clock says.
Claimable(elapsed) == Clamp(elapsed, 0, PollSeconds)

\* The interval that a decision opens.
Opening(decision) ==
  [action |-> decision.action, price |-> decision.price, executed |-> executes,
   opened |-> next_seq]

\* The hash of a decision that v2.0.0 took is committed nowhere.
Commitment(decision) ==
  IF activation = Null
  THEN Null
  ELSE commit_hash(decision_snapshot(Opening(decision)), next_seq)

FirstInterval(decision, read) ==
  [action |-> "MINE", executed |-> executes, price |-> 0, claimed_wh |-> 0,
   claimed_mining_lost |-> 0, baseline_gh |-> read.baseline_gh, observed_gh |-> read.observed_gh,
   opened |-> next_seq, commit |-> Commitment(decision), reveal |-> Null]

ClosedInterval(decision, read) ==
  LET seconds == Claimable(read.elapsed)
      was_paused == open_interval.action = "PAUSE" IN
  [action |-> open_interval.action, executed |-> open_interval.executed,
   price |-> open_interval.price, opened |-> open_interval.opened,
   baseline_gh |-> read.baseline_gh, observed_gh |-> read.observed_gh,
   claimed_wh |-> IF was_paused THEN to_wh(Watts, seconds, 1) ELSE 0,
   claimed_mining_lost |-> IF was_paused THEN to_micro(Hourly, seconds, 1) ELSE 0,
   commit |-> Commitment(decision),
   reveal |-> IF activation = Null
              THEN Null
              ELSE [commit_seq |-> next_seq - 1, nonce |-> open_interval.opened]]

\* The hash of a record is its id; two records never have the same content.
Line(decision, read) ==
  [seq |-> next_seq, prev |-> LastHash, id |-> next_seq,
   body |-> IF open_interval = Null
            THEN FirstInterval(decision, read)
            ELSE ClosedInterval(decision, read)]

Poll(decision, read) ==
  /\ next_seq < MaxRecords
  /\ files' = [files EXCEPT ![today] = Append(@, Line(decision, read))]
  /\ open_interval' = Opening(decision)
  /\ UNCHANGED <<today, seals, activation, executes, statement, copy, repeated, altered>>

\* The agent starts again, perhaps as the version that activates farm-bound seals from
\* the day it is started on, with the records of the old one already in that day.
Restart(mode) ==
  /\ open_interval # Null /\ next_seq < MaxRecords
  /\ open_interval' = Null /\ executes' = mode
  /\ activation' \in {activation} \cup IF activation = Null THEN {ActivationFrom(today)} ELSE {}
  /\ UNCHANGED <<today, files, seals, statement, copy, repeated, altered>>

Midnight ==
  /\ today < Max(Days) /\ statement = Null
  /\ today' = today + 1
  /\ UNCHANGED <<files, seals, activation, open_interval, executes, statement, copy, repeated, altered>>

SealedDays == {seals[i].day : i \in DOMAIN seals}
Pending == {d \in Written : d < today /\ d \notin SealedDays}

SealDay ==
  /\ Pending # {} /\ statement = Null /\ next_seq = MaxRecords
  /\ seals' = Append(seals, SealFor(Book, Min(Pending)))
  /\ UNCHANGED <<today, files, activation, open_interval, executes, statement, copy, repeated, altered>>

\* The book as a process has it that read these seals.
BookWith(read) == [Book EXCEPT !.seals = read]

\* Another process found the day without a seal, and appends its own: it reads the seals once
\* more for the hash to chain to, before the first seal of the day was written or after.
SealAgain ==
  /\ seals # <<>> /\ ~ repeated /\ statement = Null
  /\ \E read \in {Front(seals), seals} :
       seals' = Append(seals, SealFor(BookWith(read), Last(seals).day))
  /\ repeated' = TRUE
  /\ UNCHANGED <<today, files, activation, open_interval, executes, statement, copy, altered>>

-----------------------------------------------------------------------------
(* The bill.                                                               *)

Issue ==
  /\ statement = Null /\ SealedDays \cap Month # {}
  /\ statement' = StatementOf(Book, Month)
  /\ copy' = files
  /\ UNCHANGED <<today, files, seals, activation, open_interval, executes, repeated, altered>>

\* A record that differs in one amount, and so in its hash.
Retyped(line, wh) == [line EXCEPT !.id = MaxRecords, !.body.claimed_wh = wh]

Lines(records) == UNION {{<<d, i>> : i \in DOMAIN records[d]} : d \in Month}

ChangedRecords(records) ==
  {[records EXCEPT ![p[1]][p[2]] = Retyped(@, 2 * @.body.claimed_wh + 1)] : p \in Lines(records)}
  \cup {[records EXCEPT ![d] = Front(@)] : d \in {e \in Month : records[e] # <<>>}}
  \cup {[records EXCEPT ![d] = Append(@, Last(@))] : d \in {e \in Month : records[e] # <<>>}}

Without(days, k) == [j \in DOMAIN days \ {k} |-> days[j]]

LastRepeated(days) ==
  LET last == Max(DOMAIN days) IN
  [k \in DOMAIN days \cup {last + 1} |-> IF k > last THEN days[last] ELSE days[k]]

ShownForAnother(bill, j, records) ==
  {[bill EXCEPT !.proofs[j].record = records[p[1]][p[2]],
                !.proofs[j].leaf = record_hash(records[p[1]][p[2]])] : p \in Lines(records)}

\* The totals retyped so that they still add up; an entry left out or repeated; a tree
\* and its proofs described as one leaf larger; a proof shown for another record.
ChangedStatements(bill, records) ==
  LET more == bill.totals.billable + 100
      fee == fee_micro_eur(more, FeeBp) IN
  {[bill EXCEPT !.totals.billable = more, !.totals.fee = fee, !.totals.keeps = more - fee],
   [bill EXCEPT !.totals.fee = @ + 1, !.totals.keeps = @ - 1],
   [bill EXCEPT !.days = LastRepeated(@)],
   [bill EXCEPT !.uncommitted = @ + 1]}
  \cup {[bill EXCEPT !.days = Without(@, k)] : k \in DOMAIN bill.days}
  \cup {[bill EXCEPT !.proofs[j].proof.leaf_count = @ + 1] : j \in DOMAIN bill.proofs}
  \cup UNION {ShownForAnother(bill, j, records) : j \in DOMAIN bill.proofs}

Differs ==
  /\ statement # Null /\ ~ altered
  /\ altered' = TRUE
  /\ \/ copy' \in ChangedRecords(copy) /\ UNCHANGED statement
     \/ statement' \in ChangedStatements(statement, copy) /\ UNCHANGED copy
  /\ <<statement', copy'>> # <<statement, copy>>
  /\ UNCHANGED <<today, files, seals, activation, open_interval, executes, repeated>>

\* What is read of an interval that mined is not billed, and the decision of the last
\* poll is not recorded: one of each is enough.
Relevant(decision, read) ==
  /\ (open_interval = Null \/ open_interval.action = "MINE") => read = CHOOSE m \in Measurements : TRUE
  /\ next_seq = MaxRecords - 1 => decision = CHOOSE d \in Decisions : TRUE

Next ==
  \/ \E decision \in Decisions, read \in Measurements : Relevant(decision, read) /\ Poll(decision, read)
  \/ \E mode \in BOOLEAN : Restart(mode)
  \/ Midnight \/ SealDay \/ SealAgain \/ Issue \/ Differs

Spec == Init /\ [][Next]_vars
=============================================================================
