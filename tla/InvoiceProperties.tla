-------------------------- MODULE InvoiceProperties ---------------------------
(***************************************************************************)
(* What a client may rely on when a statement is verified, and what the    *)
(* farm may rely on when it hands out an honest one.                       *)
(***************************************************************************)
EXTENDS Invoice

V == INSTANCE Verifier

\* The reader was given the device key; signatures may be beyond it.
Reader(checks) == [farm_id |-> FarmId, checks_signatures |-> checks]

FailuresFor(checks) == V!Failures(statement, copy, Reader(checks))

\* Claims are never negative, though the clock may step back between two polls.
InvoiceTypeOK ==
  /\ today \in Days /\ next_seq \in 0..MaxRecords
  /\ \A d \in Days : \A i \in DOMAIN files[d] :
       files[d][i].seq \in Nat /\ files[d][i].body.claimed_wh \in Nat
  /\ SealedDays \subseteq Days /\ executes \in BOOLEAN
  /\ statement # Null => DOMAIN copy = Days

-----------------------------------------------------------------------------
\* A day of the ledger without a record, between two days with some.
Gap == \E d \in Days : files[d] = <<>> /\ \E a, b \in Days : a < d /\ d < b /\
                          files[a] # <<>> /\ files[b] # <<>>

Honest == statement # Null /\ ~ altered /\ ~ repeated /\ ~ Gap

\* An honest statement is accepted: two programs that share no line of code agree on
\* every hash, total and count, whatever was restarted, unanswered or rounded.  (But for
\* one check that is too strong, see BillableNeverExceedsGross, and but for a whole day
\* without records, whose next reveal both of them read as a mismatch.)
HonestStatementVerifies ==
  Honest => \A checks \in BOOLEAN : FailuresFor(checks) \subseteq {V!BillableExceedsGross}

\* hashguard_verify.py:564 of an honest statement: "billable never exceeds gross: the
\* corroboration cap was applied".
BillableNeverExceedsGross == Honest => V!BillableExceedsGross \notin FailuresFor(FALSE)

\* The first seal of each day.
SealedOnce == {k \in DOMAIN seals : \A j \in 1..(k - 1) : seals[j].day # seals[k].day}

Supported == Totals(Book, Sealed(Book, Month) \cap SealedOnce)

\* The second seal of a day chains to the first: its process read the head of the chain after
\* the first was written, though before that it had found the day without a seal.
Rechained ==
  \E j, k \in DOMAIN seals :
    j < k /\ seals[j].day = seals[k].day /\ seals[k].prev_seal = seals[j].seal_hash

\* A bill that passes is the bill of the sealed records, each day billed once, even for
\* a reader that checks no signature: whatever one place of the hand-over was changed, and
\* although another process may have sealed a day twice, unless the second seal chains to
\* the first.
AcceptedBillIsSupported ==
  statement # Null /\ ~ Rechained /\ FailuresFor(FALSE) = {} => statement.totals = Supported

\* hashguard_verify.py:569, of what passes: "so a total the measurements do not support fails
\* here even when the arithmetic around it closes perfectly".  Not when a day was sealed twice
\* and the second seal chains to the first: both programs add the day up twice.
NoDayBilledTwice ==
  statement # Null /\ FailuresFor(FALSE) = {} => statement.totals.billable = Supported.billable

-----------------------------------------------------------------------------
MostWh == Watts * PollSeconds

\* What is billed of a record was decided before it was measured, was acted on, is no
\* more than the telemetry witnessed and no more than the farm can draw in one poll.
BilledIsWitnessed ==
  statement # Null =>
    \A d \in SealedDays \cap Month : \A i \in Billed(Book, d) :
      LET body == files[d][i].body
          wh == billable_wh(ClaimOf(files[d][i])) IN
      /\ body.action = "PAUSE" /\ body.executed
      /\ 3600 * wh <= MostWh + 1800
      /\ wh * body.baseline_gh <= body.claimed_wh * (body.baseline_gh - body.observed_gh)
      /\ 20 * body.observed_gh <= 19 * body.baseline_gh
      /\ activation # Null /\ d >= activation.from_day =>
           /\ body.reveal # Null
           /\ \E e \in Days : \E j \in DOMAIN files[e] :
                /\ files[e][j].seq = files[d][i].seq - 1
                /\ files[e][j].body.commit.decision = decision_snapshot(body)

\* The proof of a record leads to the sealed root, and a proof of the sealed size leads
\* no other record of the day there: a proof that verifies is of the record it names.
ProofsAreOfTheirRecords ==
  statement # Null /\ ~ altered =>
    \A k \in DOMAIN statement.days :
      LET hashes == leaves(files[statement.days[k].day]) IN
      \A i, j \in DOMAIN hashes :
        verify_proof(hashes[j], build_proof(hashes, i - 1), statement.days[k].merkle_root) <=> i = j

\* The seal that an entry was made from: another one of the day has another hash.
Handed(k) == CHOOSE i \in DOMAIN seals :
  seals[i].day = statement.days[k].day /\ seals[i].seal_hash = statement.days[k].seal_hash

\* The package's own verify_chain and verify_seal accept the records of a day exactly
\* when the independent verifier does, changed records included.
BothVerifiersAgree ==
  statement # Null =>
    \A k \in DOMAIN statement.days :
      LET lines == copy[statement.days[k].day]
          mine == verify_chain(lines)
                  /\ verify_seal(seals[Handed(k)], lines, FarmId, FromDay(Book))
          theirs == V!DayFails(statement, k, copy, Reader(TRUE)) \ {"chains to the previous sealed day"} IN
      lines # <<>> => (mine <=> theirs = {})
=============================================================================
