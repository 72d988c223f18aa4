------------------------------- MODULE Billing --------------------------------
(***************************************************************************)
(* What src/hashguard/ledger.py computes from its files: the seal of a     *)
(* day, the statement of a month, and the checks that the package offers   *)
(* over them (verify_chain, verify_seal).                                  *)
(*                                                                         *)
(* A book holds the files (a sequence of lines per day), the seals and the *)
(* terms of the farm.  The hash of a record is its id; a signature is the  *)
(* body it signs, with the farm inside or not as the rule says.            *)
(***************************************************************************)
EXTENDS Money, Attest, Merkle, Commit

CONSTANT MaxProofs   \* max_proofs of statement()

SEAL_RULE_LEGACY == 1
SEAL_RULE_FARM_BOUND == 2
GENESIS_SEAL == <<>>

record_hash(line) == Leaf(line.id)
leaves(lines) == [i \in DOMAIN lines |-> record_hash(lines[i])]

\* prev_seal is the sequence of the roots chained before.
seal_hash(prev_seal, root) == Append(prev_seal, root)

\* A ledger that was never activated has no first day.
FromDay(book) == IF book.activation = Null THEN Null ELSE book.activation.from_day

seal_rule_for(day, from_day) ==
  IF from_day = Null
  THEN SEAL_RULE_LEGACY
  ELSE IF day >= from_day THEN SEAL_RULE_FARM_BOUND ELSE SEAL_RULE_LEGACY

Paused(line) == line.body.action = "PAUSE"

ClaimOf(line) ==
  [seq |-> line.seq, claimed_wh |-> line.body.claimed_wh,
   baseline_gh |-> line.body.baseline_gh, observed_gh |-> line.body.observed_gh]

Audit(claims, margin_ppm) == report(Submitted(claims, margin_ppm), margin_ppm)

Advised(book, day) == {i \in DOMAIN book.files[day] :
  Paused(book.files[day][i]) /\ ~ book.files[day][i].body.executed}

Executed(book, day) == {i \in DOMAIN book.files[day] :
  Paused(book.files[day][i]) /\ book.files[day][i].body.executed}

-----------------------------------------------------------------------------
(* seal_day: what the seal of a day says.                                  *)

SealBody(book, day) ==
  LET lines == book.files[day]
      root == merkle_root(leaves(lines))
      prev == IF book.seals = <<>> THEN GENESIS_SEAL ELSE Last(book.seals).seal_hash
      rule == seal_rule_for(day, FromDay(book)) IN
  [day |-> day, prev_seal |-> prev, merkle_root |-> root, leaf_count |-> Len(lines),
   first_seq |-> lines[1].seq, last_seq |-> Last(lines).seq, seal_hash |-> seal_hash(prev, root),
   corroboration |-> Audit([i \in Executed(book, day) |-> ClaimOf(lines[i])], book.margin_ppm),
   rule |-> rule, farm_id |-> IF rule = SEAL_RULE_FARM_BOUND THEN book.farm_id ELSE Null]

Signed(body) == [body |-> body]

WithSignature(body, signature) ==
  [field \in DOMAIN body \cup {"signature"} |->
     IF field = "signature" THEN signature ELSE body[field]]

SealFor(book, day) == WithSignature(SealBody(book, day), Signed(SealBody(book, day)))

-----------------------------------------------------------------------------
(* statement: the month's bill.                                            *)

record_before(files, day) ==
  IF day - 1 \in DOMAIN files
  THEN IF files[day - 1] = <<>> THEN Null ELSE Last(files[day - 1])
  ELSE Null

Predecessor(files, day, i) == IF i = 1 THEN record_before(files, day) ELSE files[day][i - 1]

StateOf(files, day, i) == reveal_state(files[day][i], Predecessor(files, day, i))

ClaimedNet(line) ==
  energy_cost_micro_eur(line.body.claimed_wh, line.body.price) - line.body.claimed_mining_lost

\* The revenue forgone scales with the share of the claim that is billed.
BillableNet(line) ==
  LET wh == billable_wh(ClaimOf(line))
      whole == IF line.body.claimed_wh > 1 THEN line.body.claimed_wh ELSE 1 IN
  energy_cost_micro_eur(wh, line.body.price) - ((line.body.claimed_mining_lost * wh) \div whole)

\* Mutation: a claim of a farm-bound day is audited whether or not it was committed.
AuditsUncommitted(book, day) == Executed(book, day)

\* From the activation day a claim has to have been committed before it ran.
Audited(book, day) == {i \in Executed(book, day) :
  seal_rule_for(day, FromDay(book)) = SEAL_RULE_FARM_BOUND
    => StateOf(book.files, day, i) = REVEALED}

Billed(book, day) == {i \in Audited(book, day) : billable_wh(ClaimOf(book.files[day][i])) > 0}

Nets(book, day, Net(_), indices) == SumOf([i \in indices |-> Net(book.files[day][i])])

InState(book, day, state) == {i \in DOMAIN book.files[day] : StateOf(book.files, day, i) = state}

DayEntry(book, seal) ==
  [day |-> seal.day, seal_hash |-> seal.seal_hash, prev_seal |-> seal.prev_seal,
   merkle_root |-> seal.merkle_root, leaf_count |-> seal.leaf_count,
   signature |-> seal.signature, rule |-> seal.rule, corroboration |-> seal.corroboration,
   gross |-> Nets(book, seal.day, ClaimedNet, Executed(book, seal.day)),
   billable |-> Nets(book, seal.day, BillableNet, Billed(book, seal.day))]

\* The records that a selection picks, by the seal of their day and their line in it.
Targets(book, sealed, Picks(_, _)) ==
  UNION {{<<k, i>> : i \in Picks(book, book.seals[k].day)} : k \in sealed}

Before(t, u) == t[1] < u[1] \/ (t[1] = u[1] /\ t[2] < u[2])

\* As many as are proved, in the order of the records.
First(targets, n) == {t \in targets : Cardinality({u \in targets : Before(u, t)}) < n}

ProofOf(book, day, i) ==
  LET lines == book.files[day] IN
  [day |-> day, record |-> lines[i], leaf |-> record_hash(lines[i]),
   proof |-> build_proof(leaves(lines), i - 1)]

Totals(book, sealed) ==
  LET Total(Net(_), Picks(_, _)) ==
        SumOf([k \in sealed |->
                 Nets(book, book.seals[k].day, Net, Picks(book, book.seals[k].day))])
      billable == Total(BillableNet, Billed) IN
  [gross |-> Total(ClaimedNet, Executed), billable |-> billable,
   advisory |-> Total(ClaimedNet, Advised),
   fee |-> fee_micro_eur(billable, book.fee_bp),
   keeps |-> client_keeps_micro_eur(billable, book.fee_bp)]

Sealed(book, month) == {k \in DOMAIN book.seals : book.seals[k].day \in month}

\* Everything that the signature of the statement covers.  Its days and its proofs are
\* kept by the seal, and the record, that they are of.
StatementBody(book, month) ==
  LET sealed == Sealed(book, month)
      Day(k) == book.seals[k].day
      ClaimAt(t) == ClaimOf(book.files[Day(t[1])][t[2]]) IN
  [farm_id |-> book.farm_id, activation |-> book.activation, fee_bp |-> book.fee_bp,
   days |-> [k \in sealed |-> DayEntry(book, book.seals[k])],
   corroboration |->
     Audit([t \in Targets(book, sealed, Audited) |-> ClaimAt(t)], book.margin_ppm),
   commit_reveal |-> [state \in {REVEALED, UNREVEALED, MISMATCHED, LEGACY} |->
     SumOf([k \in sealed |-> Cardinality(InState(book, Day(k), state))])],
   uncommitted |->
     SumOf([k \in sealed |-> Cardinality(Executed(book, Day(k)) \ Audited(book, Day(k)))]),
   totals |-> Totals(book, sealed),
   proofs |-> [t \in First(Targets(book, sealed, Billed), MaxProofs) |->
                 ProofOf(book, Day(t[1]), t[2])]]

\* A device without a farm id hands out an unsigned statement.
StatementOf(book, month) ==
  LET body == StatementBody(book, month) IN
  WithSignature(body, IF book.farm_id = Null THEN Null ELSE Signed(body))

-----------------------------------------------------------------------------
(* verify_chain and verify_seal.                                           *)

verify_chain(lines) ==
  \A i \in 2..Len(lines) :
    lines[i].seq = lines[i - 1].seq + 1 /\ lines[i].prev = record_hash(lines[i - 1])

BodyForSigning(seal) == [field \in (DOMAIN seal \ {"signature"}) |-> seal[field]]

\* Mutation: the records are counted and not hashed.
SealCountsOnly(seal, lines, farm_id, from_day) ==
  /\ Len(lines) = seal.leaf_count
  /\ from_day # Null => seal.rule = seal_rule_for(seal.day, from_day)
  /\ seal.rule = SEAL_RULE_FARM_BOUND /\ farm_id # Null => farm_id = seal.farm_id
  /\ seal.signature = Signed(BodyForSigning(seal))

\* With the activation day, the rule is the one its day requires; without, the declared one.
verify_seal(seal, lines, farm_id, from_day) ==
  /\ Len(lines) = seal.leaf_count
  /\ merkle_root(leaves(lines)) = seal.merkle_root
  /\ seal_hash(seal.prev_seal, merkle_root(leaves(lines))) = seal.seal_hash
  /\ from_day # Null => seal.rule = seal_rule_for(seal.day, from_day)
  /\ seal.rule = SEAL_RULE_FARM_BOUND /\ farm_id # Null => farm_id = seal.farm_id
  /\ seal.signature = Signed(BodyForSigning(seal))
=============================================================================
