-------------------------- MODULE LedgerProperties --------------------------
(***************************************************************************)
(* What the ledger promises to whoever reads its files: verify_chain and   *)
(* verify_seal accept them, and every finished day ends up sealed.         *)
(***************************************************************************)
EXTENDS Ledger

\* The shape of the day files, of what the process holds in memory, and of what was asked.
TypeOK ==
  /\ utc \in Days /\ local \in -1..(LastDay + 1) /\ local - utc \in Skews
  /\ days \subseteq Days
  /\ records \in [Days -> Seq(Lines)]
  /\ seals \in Seq(Seals)
  /\ activation \in Activations
  /\ up \in BOOLEAN /\ farm \in Farms \cup {NoFarm}
  /\ seq \in Nat /\ prev_hash \in Nat
  /\ sealing \subseteq Days
  /\ appends \in Nat /\ faults \in Nat

-----------------------------------------------------------------------------
\* verify_chain, on two neighbouring lines.
Follows(r, p) == r.seq = p.seq + 1 /\ r.prev = record_hash(p)

Linked(r, p) == r.json = Parses /\ p.json = Parses => Follows(r, p)

HasLines(d) == records[d] # <<>>
EmptyBetween(d, e) == \A c \in Days : d < c /\ c < e => ~ HasLines(c)

LinkedWithinDays ==
  \A d \in Days : \A i \in 2..Len(records[d]) : Linked(records[d][i], records[d][i - 1])

LinkedAcrossDays ==
  \A d \in Days, e \in Days :
    d < e /\ HasLines(d) /\ HasLines(e) /\ EmptyBetween(d, e)
      => Linked(records[e][1], Last(records[d]))

StartsAtGenesis ==
  \A d \in Days :
    /\ HasLines(d) /\ \A c \in Days : c < d => ~ HasLines(c)
    /\ records[d][1].json = Parses
    => records[d][1].seq = 0 /\ records[d][1].prev = GENESIS

\* Whatever the order of appends, failed appends, stops and restarts, the lines
\* that can be parsed form one chain across all the day files: verify_chain
\* accepts what _resume and record() leave on the disk.
ChainUnbroken == LinkedWithinDays /\ LinkedAcrossDays /\ StartsAtGenesis

IsHead(d) == HasLines(d) /\ \A e \in Days : d < e => ~ HasLines(e)

\* While the process runs, its seq and prev_hash are those of the successor of
\* the last line on the disk: the predecessor a reveal names is next_seq - 1.
PredecessorIsNextSeqMinusOne ==
  up => \A d \in Days :
          IsHead(d) /\ Last(records[d]).json = Parses
            => Last(records[d]).seq = seq - 1 /\ record_hash(Last(records[d])) = prev_hash

-----------------------------------------------------------------------------
\* verify_seal without the rule and the signature: the leaf count and the root.
verify_seal(s, file) == Readable(file) /\ leaves(file) = s.merkle_root

\* A seal never becomes a lie: verify_seal goes on accepting every seal against
\* the file of its day, whatever is recorded afterwards.
SealsVerify ==
  \A i \in DOMAIN seals :
    seals[i].json = Parses => verify_seal(seals[i], records[seals[i].day])

SealFollows(s, p) ==
  s.prev_seal = seal_hash(p) /\ s.day > p.day /\ s.first_seq = p.last_seq + 1

\* The seals form one chain, in the order of the days, and between two of them
\* no record is left out: each begins with the record after the last one sealed,
\* and the first begins with record 0.
SealsTile ==
  \A i \in DOMAIN seals :
    seals[i].json = Parses =>
      IF i = 1 THEN seals[i].prev_seal = GENESIS_SEAL /\ seals[i].first_seq = 0
               ELSE SealFollows(seals[i], seals[i - 1])

\* The rule of a sealed day never moves: every seal, those signed before the
\* activation included, is signed under the rule that the activation entry on
\* disk gives its day, and for the farm it names (verify_seal with from_day).
RuleInForce ==
  activation.file # "torn" =>
    \A i \in DOMAIN seals :
      seals[i].json = Parses =>
        /\ seals[i].rule = seal_rule_for(seals[i].day, activation)
        /\ seals[i].rule = SEAL_RULE_FARM_BOUND => seals[i].farm_id = activation.farm_id

\* A torn last line of seals.jsonl is no seal.
SealsWritten == IF OpenEnded(seals) THEN Len(seals) - 1 ELSE Len(seals)

WrittenSeals ==
  [i \in 1..SealsWritten |->
     [day |-> seals[i].day, root |-> seals[i].merkle_root, prev |-> seals[i].prev_seal]]

FileHashes == [d \in Days |-> leaves(records[d])]

Chain == INSTANCE SealChain WITH
  ChainDays <- Days, Ids <- 1..MaxAppends, files <- FileHashes, chain <- WrittenSeals

\* Through every failure, stop and restart, what the process does to its files is a
\* behaviour of the abstract chain of seals: files only grow, a day is sealed once, in
\* order and from all it holds, and neither it nor an earlier day changes after that.
ImplementsSealChain == Chain!ChainSpec

\* A file that an append which did not come through left behind: without a record, or with
\* a line that cannot be parsed; the code does not repair it and reads past it nowhere.
Damaged ==
  \/ \E d \in days : records[d] = <<>> \/ ~ Readable(records[d])
  \/ ~ Readable(seals) \/ activation.file = "torn"

\* Every day that is over and has records is sealed in the end, however often the process
\* stops and whatever append of a record or a seal raises, unless a file was damaged: no
\* stop and no error leaves a whole day that no later seal_pending picks up.
EveryFinishedDaySealed ==
  \A d \in Days : (d < local /\ HasLines(d)) ~> (d \in SealedDays \/ Damaged)
=============================================================================
