------------------------------- MODULE Verifier -------------------------------
(***************************************************************************)
(* tools/hashguard_verify.py: one file that imports nothing from HashGuard *)
(* and recomputes a statement from the raw records.  Every formula is      *)
(* translated from that file, not taken from the modules it checks.        *)
(*                                                                         *)
(* Each section of main() is the set of the checks that fail in it; the    *)
(* statement is accepted when no check fails.  A reader who cannot check   *)
(* signatures (HMAC, or no cryptography installed) only notes them.        *)
(***************************************************************************)
EXTENDS Integers, Sequences, SequencesExt, FiniteSets, FiniteSetsExt, PythonNone

CONSTANT DecisionFields

PPM == 1000000
MIN_DARK_FRACTION_PPM == 50000
RULE_LEGACY == 1
RULE_FARM_BOUND == 2
GENESIS_SEAL == <<>>

rule_for(day, from_day) ==
  IF from_day = Null
  THEN RULE_LEGACY
  ELSE IF day >= from_day THEN RULE_FARM_BOUND ELSE RULE_LEGACY

-----------------------------------------------------------------------------
(* Commit and reveal.                                                      *)

decision_snapshot(body) == [field \in DecisionFields |-> body[field]]
commit_hash(snapshot, nonce) == [decision |-> snapshot, nonce |-> nonce]

CommitOf(line) == IF line = Null THEN Null ELSE line.body.commit

Opens(line, predecessor) ==
  /\ CommitOf(predecessor) # Null
  /\ line.body.reveal.commit_seq = line.seq - 1
  /\ predecessor.seq = line.seq - 1
  /\ commit_hash(decision_snapshot(line.body), line.body.reveal.nonce) = predecessor.body.commit

reveal_state(line, predecessor) ==
  IF line.body.reveal # Null
  THEN IF Opens(line, predecessor) THEN "revealed" ELSE "mismatched"
  ELSE IF CommitOf(predecessor) = Null /\ line.body.commit = Null THEN "legacy" ELSE "unrevealed"

previous_record(records, day) ==
  IF day - 1 \in DOMAIN records
  THEN IF records[day - 1] = <<>> THEN Null ELSE Last(records[day - 1])
  ELSE Null

StateOf(records, day, i) ==
  reveal_state(records[day][i], IF i = 1 THEN previous_record(records, day) ELSE records[day][i - 1])

-----------------------------------------------------------------------------
(* The money, from scratch.                                                *)

\* Mutation: a half is rounded down.
HalfDown(numerator, denominator) ==
  numerator \div denominator + IF 2 * (numerator % denominator) > denominator THEN 1 ELSE 0

half_even(numerator, denominator) ==
  LET whole == numerator \div denominator
      twice == 2 * (numerator % denominator) IN
  whole + IF twice > denominator \/ (twice = denominator /\ whole % 2 # 0) THEN 1 ELSE 0

energy_cost_micro_eur(wh, price) == half_even(wh * price, 1000)

AtLeastOne(n) == IF n > 1 THEN n ELSE 1
Least(a, b) == IF a < b THEN a ELSE b
Most(a, b) == IF a > b THEN a ELSE b

corroborated_wh(body) ==
  IF body.baseline_gh = Null \/ body.observed_gh = Null
  THEN 0
  ELSE IF body.baseline_gh <= 0
       THEN 0
       ELSE LET dark == ((body.baseline_gh - body.observed_gh) * PPM) \div body.baseline_gh
                fraction == Most(0, Least(PPM, dark)) IN
            IF fraction < MIN_DARK_FRACTION_PPM THEN 0 ELSE (body.claimed_wh * fraction) \div PPM

-----------------------------------------------------------------------------
(* The Merkle tree.                                                        *)

record_hash(line) == [leaf |-> line.id]
node(left, right) == [left |-> left, right |-> right]
seal_hash(prev_seal, root) == Append(prev_seal, root)

Even(level) == IF Len(level) % 2 = 0 THEN level ELSE Append(level, Last(level))

NextLevel(level) ==
  [i \in 1..((Len(level) + 1) \div 2) |-> node(Even(level)[2 * i - 1], Even(level)[2 * i])]

depth[width \in Nat] == IF width > 1 THEN 1 + depth[(width + 1) \div 2] ELSE 0

merkle_root(leaves) ==
  LET level[h \in Nat] == IF h = 0 THEN leaves ELSE NextLevel(level[h - 1]) IN
  level[depth[Len(leaves)]][1]

verify_proof(leaf, proof, root) ==
  /\ 0 <= proof.index /\ proof.index < proof.leaf_count
  /\ Len(proof.path) = depth[proof.leaf_count]
  /\ LET cur[h \in Nat] ==
           IF h > 0
           THEN IF proof.path[h].side = "L"
                THEN node(proof.path[h].hash, cur[h - 1])
                ELSE node(cur[h - 1], proof.path[h].hash)
           ELSE leaf IN
     root = cur[Len(proof.path)]

-----------------------------------------------------------------------------
(* main(): records and seals.                                              *)

Unless(ok, label) == IF ok THEN {} ELSE {label}

\* verify_signature; None (only a note) for a reader who cannot check it.
SignatureFails(reader, signature, body, label) ==
  IF reader.checks_signatures THEN Unless(signature = [body |-> body], label) ELSE {}

\* The day from which the statement says that seals name the farm.
FromDay(statement) == IF statement.activation = Null THEN Null ELSE statement.activation.from_day

ActivationFails(statement, reader) ==
  LET entry == statement.activation IN
  IF entry = Null
  THEN {}
  ELSE Unless(statement.farm_id # Null /\ entry.farm_id = statement.farm_id, "same farm")
       \cup SignatureFails(reader, entry.signature,
                           [from_day |-> entry.from_day, farm_id |-> entry.farm_id],
                           "activation entry is signed")

FarmFails(statement, reader) ==
  IF reader.farm_id # Null /\ statement.farm_id # Null
  THEN Unless(reader.farm_id = statement.farm_id, "farm whose key you were given")
  ELSE {}

check_chain(lines) ==
  Unless(\A i \in 2..Len(lines) : /\ lines[i].seq = lines[i - 1].seq + 1
                                  /\ lines[i].prev = record_hash(lines[i - 1]),
         "chain unbroken")

SealedBody(entry, lines, farm_id, declared) ==
  [day |-> entry.day, prev_seal |-> entry.prev_seal, merkle_root |-> entry.merkle_root,
   leaf_count |-> entry.leaf_count, first_seq |-> lines[1].seq, last_seq |-> Last(lines).seq,
   seal_hash |-> entry.seal_hash, corroboration |-> entry.corroboration, rule |-> declared,
   farm_id |-> IF declared = RULE_FARM_BOUND THEN farm_id ELSE Null]

\* Nothing of a seal is checked against its signature unless the rule is the required one.
RuleAndSignature(statement, entry, lines, reader) ==
  IF entry.rule = rule_for(entry.day, FromDay(statement))
  THEN SignatureFails(reader, entry.signature,
                      SealedBody(entry, lines, statement.farm_id, entry.rule), "seal signed")
  ELSE {"rule its date requires"}

\* Mutation: the previous day's seal is not remembered.
ChainsToAnything(statement, k, records) == TRUE

\* The first day present chains to something older, which only gets a note.
ChainsTo(statement, k, records) ==
  LET before == {j \in DOMAIN statement.days :
                   j < k /\ records[statement.days[j].day] # <<>>} IN
  before = {} \/ statement.days[k].prev_seal = statement.days[Max(before)].seal_hash

DayFails(statement, k, records, reader) ==
  LET entry == statement.days[k]
      lines == records[entry.day]
      hashes == [i \in DOMAIN lines |-> record_hash(lines[i])] IN
  IF lines = <<>>
  THEN {"records present"}
  ELSE UNION {
    check_chain(lines),
    Unless(Len(lines) = entry.leaf_count, "record count matches the seal"),
    Unless(merkle_root(hashes) = entry.merkle_root, "sealed Merkle root"),
    Unless(seal_hash(entry.prev_seal, merkle_root(hashes)) = entry.seal_hash, "seal_hash"),
    Unless(ChainsTo(statement, k, records), "chains to the previous sealed day"),
    RuleAndSignature(statement, entry, lines, reader)}

\* roots and counts are dictionaries: the last entry of a day is the one that counts.
EntryOf(statement, day) ==
  statement.days[Max({k \in DOMAIN statement.days : statement.days[k].day = day})]

InclusionFails(statement, item) ==
  LET named == \E k \in DOMAIN statement.days : statement.days[k].day = item.day IN
  Unless(/\ named
         /\ item.proof.leaf_count = EntryOf(statement, item.day).leaf_count
         /\ record_hash(item.record) = item.leaf
         /\ verify_proof(record_hash(item.record), item.proof,
                         EntryOf(statement, item.day).merkle_root),
         "in the sealed tree")

-----------------------------------------------------------------------------
(* main(): the bill, against itself and against the records.               *)

FeeOf(billable, fee_bp) == IF billable > 0 THEN (billable * fee_bp) \div 10000 ELSE 0

BillableExceedsGross == "billable never exceeds gross"

ArithmeticFails(statement) ==
  LET totals == statement.totals IN
  UNION {
    Unless(totals.fee = FeeOf(totals.billable, statement.fee_bp), "fee"),
    Unless(totals.fee + totals.keeps = totals.billable, "fee + what you keep"),
    Unless(totals.billable >= 0 \/ totals.fee = 0, "a month that lost money"),
    Unless(totals.billable <= totals.gross \/ totals.billable <= 0, BillableExceedsGross)}

Payable(body) == Least(body.claimed_wh, corroborated_wh(body))

Net(body) == energy_cost_micro_eur(body.claimed_wh, body.price) - body.claimed_mining_lost

PayableNet(body) ==
  IF Payable(body) <= 0
  THEN 0
  ELSE energy_cost_micro_eur(Payable(body), body.price)
       - (body.claimed_mining_lost * Payable(body)) \div AtLeastOne(body.claimed_wh)

Pauses(records, day, executed) == {i \in DOMAIN records[day] :
  /\ records[day][i].body.action = "PAUSE"
  /\ records[day][i].body.executed = executed}

Unproven(records, from_day, day) == {i \in Pauses(records, day, TRUE) :
  rule_for(day, from_day) = RULE_FARM_BOUND /\ StateOf(records, day, i) # "revealed"}

Proven(records, from_day, day) == Pauses(records, day, TRUE) \ Unproven(records, from_day, day)

Sum(numbers) == FoldFunction(+, 0, numbers)

OverDays(statement, Of(_)) == Sum([k \in DOMAIN statement.days |-> Of(statement.days[k].day)])

Again(statement, records) ==
  LET Amount(Value(_), day, picked) ==
        Sum([i \in picked |-> Value(records[day][i].body)])
      Good(day) == Proven(records, FromDay(statement), day) IN
  [gross |-> OverDays(statement, LAMBDA day : Amount(Net, day, Pauses(records, day, TRUE))),
   advisory |-> OverDays(statement, LAMBDA day : Amount(Net, day, Pauses(records, day, FALSE))),
   billable |-> OverDays(statement, LAMBDA day : Amount(PayableNet, day, Good(day))),
   claimed_wh |-> OverDays(statement, LAMBDA day : Amount(LAMBDA b : b.claimed_wh, day, Good(day))),
   corroborated_wh |-> OverDays(statement, LAMBDA day : Amount(corroborated_wh, day, Good(day))),
   billable_wh |-> OverDays(statement, LAMBDA day : Amount(Payable, day, Good(day))),
   uncommitted |-> OverDays(statement, LAMBDA day :
                     Cardinality(Unproven(records, FromDay(statement), day))),
   mismatched |-> OverDays(statement, LAMBDA day :
     Cardinality({i \in DOMAIN records[day] : StateOf(records, day, i) = "mismatched"}))]

RecomputedFails(statement, records) ==
  LET again == Again(statement, records) IN
  UNION {
    Unless(again.gross = statement.totals.gross, "gross measured savings"),
    Unless(again.billable = statement.totals.billable, "billable savings"),
    Unless(again.advisory = statement.totals.advisory, "advisory savings"),
    Unless(statement.totals.fee = FeeOf(again.billable, statement.fee_bp), "fee follows"),
    Unless(again.claimed_wh = statement.corroboration.claimed_wh, "claimed energy"),
    Unless(again.corroborated_wh = statement.corroboration.corroborated_wh, "corroborated energy"),
    Unless(again.billable_wh = statement.corroboration.billable_wh, "billable energy"),
    Unless(again.mismatched = 0, "every reveal reproduces the commitment"),
    Unless(again.uncommitted = statement.uncommitted, "uncommitted claims"),
    Unless(statement.corroboration.billable_wh <= statement.corroboration.corroborated_wh,
           "no line bills more energy than witnessed")}

\* Only a signed statement is checked as a document; an unsigned one gets a note.
DocumentFails(statement, reader) ==
  LET body == [field \in (DOMAIN statement \ {"signature"}) |-> statement[field]] IN
  IF statement.signature = Null
  THEN {}
  ELSE IF statement.farm_id = Null
       THEN {"a signed statement names the farm"}
       ELSE SignatureFails(reader, statement.signature, body, "statement signed")

Failures(statement, records, reader) ==
  UNION ({ActivationFails(statement, reader), FarmFails(statement, reader),
          ArithmeticFails(statement), RecomputedFails(statement, records),
          DocumentFails(statement, reader)}
         \cup {DayFails(statement, k, records, reader) : k \in DOMAIN statement.days}
         \cup {InclusionFails(statement, statement.proofs[j]) : j \in DOMAIN statement.proofs})
=============================================================================
