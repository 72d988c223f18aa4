----------------------------- MODULE AgentProofs -----------------------------
(***************************************************************************)
(* Commit and reveal, for every number of polls, days, failures and        *)
(* restarts.  The bodies of the ledger's lines are the agent's intervals,  *)
(* and an append that raised has left no whole line behind.                *)
(***************************************************************************)
EXTENDS AgentProperties, LedgerProofs

\* What PollUnlogged does to the ledger, beside the fault that is counted.
RecordedOnly(body) == RecordOn(utc, body) /\ faults' = faults + 1

\* A poll, whatever becomes of its record.
PollRecords(body) ==
  Record(body) \/ RecordedOnly(body) \/ RecordFails(body) \/ RecordCrashes(body)

\* Every step of the agent is a step of its ledger, or a record that was not logged.
LEMMA RecordedOnlyKeeps ==
  ASSUME TypeOK, NEW body \in Bodies, RecordedOnly(body)
  PROVE  TypeOK' /\ (ChainInv => ChainInv')
<1>1. TypeOK'
  <2>1. seq' \in Nat /\ prev_hash' \in Nat /\ appends' \in Nat /\ faults' \in Nat
    BY NextLineType DEF RecordedOnly, RecordOn, TypeOK
  <2> QED BY <2>1, RecordFacts DEF RecordedOnly, RecordOn, TypeOK, clock
<1> QED BY <1>1, RecordKeepsChain DEF RecordedOnly

\* The interval now running carries the commitment of what it is.
OpenInv ==
  open_interval # Null =>
    open_interval.commit = commit_hash(decision_snapshot(open_interval), open_interval.nonce)

SessionOK ==
  /\ open_interval \in OpenIntervals \cup {Null}
  /\ decision \in Actions /\ mode \in {"advisory", "webhook"} /\ baseline \subseteq Actions
  /\ phase \in {"poll", "check", "changed", "sealing"}
  /\ today \in Int /\ last_seal_day \in Int
  /\ off \subseteq Wired /\ polls \in Nat

LEMMA SnapshotFacts ==
  ASSUME NEW interval, interval.action \in Actions, interval.opened \in Nat
  PROVE  decision_snapshot(interval) = [action |-> interval.action, opened |-> interval.opened]
BY DecisionFieldsAssumption DEF decision_snapshot

LEMMA OpeningFacts ==
  ASSUME TypeOK, NEW action \in Actions
  PROVE  /\ Opening(action) \in OpenIntervals /\ Opening(action).commit \in Commits
         /\ Opening(action).commit =
              commit_hash(decision_snapshot(Opening(action)), Opening(action).nonce)
<1>1. Nonce \in Nat
  BY DEF Nonce, TypeOK
<1> DEFINE snapshot == [action |-> action, opened |-> Nonce]
<1>2. decision_snapshot([action |-> action, opened |-> Nonce]) = snapshot
  BY <1>1, SnapshotFacts
<1>3. commit_hash(snapshot, Nonce) \in Commits
  BY <1>1 DEF Commits, commit_hash
<1>4. /\ Opening(action).action = action /\ Opening(action).opened = Nonce
      /\ Opening(action).nonce = Nonce /\ Opening(action).commit = commit_hash(snapshot, Nonce)
  BY <1>2 DEF Opening
<1>5. decision_snapshot(Opening(action)) = snapshot
  BY <1>1, <1>4, SnapshotFacts
<1>6. Opening(action) \in OpenIntervals
  BY <1>1, <1>2, <1>3 DEF Opening, OpenIntervals
<1> QED BY <1>3, <1>4, <1>5, <1>6

LEMMA ClosingFacts ==
  ASSUME TypeOK, SessionOK, OpenInv, NEW action \in Actions
  PROVE  LET body == ClosingRecord(action) IN
         /\ body \in Intervals /\ body.commit = Opening(action).commit /\ body.commit # Null
         /\ open_interval = Null <=> body.reveal = Null
         /\ open_interval # Null =>
              /\ body.reveal.commit_seq = seq - 1
              /\ open_interval.commit = commit_hash(decision_snapshot(body), body.reveal.nonce)
<1> DEFINE body == ClosingRecord(action)
<1>1. Opening(action).commit \in Commits /\ Opening(action).commit # Null
  BY OpeningFacts, NullAssumption
<1>2. Nonce \in Nat /\ seq - 1 \in Int
  BY DEF Nonce, TypeOK
<1>3. CASE open_interval = Null
  <2>1. body = [action |-> "MINE", executed |-> mode # "advisory", opened |-> Nonce,
                commit |-> Opening(action).commit, reveal |-> Null]
    BY <1>3 DEF ClosingRecord
  <2>2. body \in Intervals
    BY <1>1, <1>2, <2>1 DEF Intervals, Actions
  <2> QED BY <1>1, <1>3, <2>1, <2>2
<1>4. CASE open_interval # Null
  <2>1. body = [action |-> open_interval.action, executed |-> open_interval.executed,
                opened |-> open_interval.opened, commit |-> Opening(action).commit,
                reveal |-> [commit_seq |-> seq - 1, nonce |-> open_interval.nonce]]
    BY <1>4 DEF ClosingRecord
  <2>2. open_interval \in OpenIntervals
    BY <1>4 DEF SessionOK
  <2>3. [commit_seq |-> seq - 1, nonce |-> open_interval.nonce] \in Reveals
    BY <1>2, <2>2 DEF OpenIntervals, Reveals
  <2>4. body \in Intervals
    BY <1>1, <2>1, <2>2, <2>3 DEF Intervals, OpenIntervals
  <2>5. body.reveal # Null
    BY <2>1, <2>3, NullAssumption
  <2>6. decision_snapshot(body) = decision_snapshot(open_interval)
    BY <2>1, <2>2, SnapshotFacts DEF OpenIntervals
  <2> QED BY <1>1, <1>4, <2>1, <2>4, <2>5, <2>6 DEF OpenInv
<1> QED BY <1>3, <1>4

-----------------------------------------------------------------------------
(* The record of a poll opens the commitment of the head it is appended to. *)

Reads(line, predecessor, gap) ==
  line.json = Parses /\ (predecessor = Null \/ predecessor.json = Parses) =>
    reveal_state(line, predecessor) =
      IF line.body.reveal = Null THEN UNREVEALED ELSE IF gap THEN MISMATCHED ELSE REVEALED

\* A session that has an interval open has written a record.
OpenRecorded == open_interval # Null => \E d \in Days : HasLines(d)

LEMMA NewLineReads ==
  ASSUME Bodies = Intervals,
         TypeOK, SessionOK, OpenInv, ChainInv, OpenIntervalCommitted, up,
         NEW action \in Actions, NEW d \in Days, IsHead(d)
  PROVE  Reads(NextLine(ClosingRecord(action)), Last(records[d]), FALSE)
<1> DEFINE body == ClosingRecord(action)
           line == NextLine(body)
           head == Last(records[d])
<1>2. /\ body.commit # Null /\ (open_interval = Null <=> body.reveal = Null)
      /\ open_interval # Null =>
           /\ body.reveal.commit_seq = seq - 1
           /\ open_interval.commit = commit_hash(decision_snapshot(body), body.reveal.nonce)
  BY ClosingFacts
<1>3. head.json = Parses =>
        head.seq = seq - 1 /\ (open_interval # Null => head.body.commit = open_interval.commit)
  BY DEF ChainInv, PredecessorIsNextSeqMinusOne, OpenIntervalCommitted
<1>4. open_interval # Null => open_interval.commit # Null
  BY NullAssumption DEF SessionOK, OpenIntervals
<1>5. line.body = body /\ line.seq = seq /\ line # Null
  <2>1. line \in Lines
    BY ClosingFacts, NextLineType
  <2> QED BY <2>1, NullAssumption DEF NextLine
<1> HIDE DEF body, line, head
<1>8. head # Null
  <2>1. records[d] \in Seq(Lines) /\ records[d] # <<>>
    BY DEF TypeOK, IsHead, HasLines
  <2>2. head \in Lines
    BY <2>1, EmptySeq DEF head, Last
  <2> QED BY <2>2, NullAssumption
<1> SUFFICES ASSUME line.json = Parses, head.json = Parses
             PROVE  reveal_state(line, head) = IF line.body.reveal = Null THEN UNREVEALED ELSE REVEALED
  BY <1>8 DEF Reads, line, head, body
<1>6. CASE body.reveal = Null
  <2>1. Committed(head) \/ Committed(line)
    BY <1>2, <1>5 DEF Committed
  <2> QED BY <1>5, <1>6, <2>1 DEF reveal_state
<1>7. CASE body.reveal # Null
  <2>1. Committed(head)
    BY <1>2, <1>3, <1>4, <1>7, <1>8 DEF Committed
  <2>2. Reproduces(line, head)
    BY <1>2, <1>3, <1>5, <1>7 DEF Reproduces, decision_snapshot
  <2>3. line.body.reveal.commit_seq = line.seq - 1 /\ head.seq = line.seq - 1
    BY <1>2, <1>3, <1>5, <1>7
  <2> QED BY <1>5, <1>7, <2>1, <2>2, <2>3 DEF reveal_state
<1> QED BY <1>6, <1>7

\* Without a predecessor: the first record of all, or of a session, or after a gap.
LEMMA NewLineReadsAlone ==
  ASSUME Bodies = Intervals, TypeOK, SessionOK, OpenInv, OpenRecorded, NEW action \in Actions
  PROVE  Reads(NextLine(ClosingRecord(action)), Null, \E e \in Days : HasLines(e))
<1> DEFINE body == ClosingRecord(action)
           line == NextLine(body)
<1>1. body.commit # Null /\ (open_interval = Null <=> body.reveal = Null)
  BY ClosingFacts
<1>2. line.body = body
  BY DEF NextLine
<1>3. body.reveal # Null => \E e \in Days : HasLines(e)
  BY <1>1 DEF OpenRecorded
<1>4. line # Null
  <2>1. line \in Lines
    BY ClosingFacts, NextLineType
  <2> QED BY <2>1, NullAssumption
<1> HIDE DEF body, line
<1>5. body.reveal = Null => reveal_state(line, Null) = UNREVEALED
  BY <1>1, <1>2, <1>4 DEF reveal_state, Committed
<1>6. body.reveal # Null => reveal_state(line, Null) = MISMATCHED
  BY <1>2 DEF reveal_state, Committed
<1> QED BY <1>2, <1>3, <1>5, <1>6 DEF Reads, line, body

\* One more line, or a line spoilt, and no predecessor of another line changes.
LEMMA AppendReads ==
  ASSUME TypeOK, ChainInv, DecisionsRevealed, NEW line \in Lines, UNCHANGED utc,
         records' \in [Days -> Seq(Lines)], \A d \in Days \ {utc} : records'[d] = records[d],
         records'[utc] = AppendLine(records[utc], line),
         \A d \in Days : IsHead(d) => Reads(line, Last(records[d]), FALSE),
         Reads(line, Null, \E e \in Days : HasLines(e))
  PROVE  DecisionsRevealed'
<1> DEFINE old == records[utc]
           new == records'[utc]
           n == Len(old)
           m == Len(new)
<1>1. /\ utc \in Days /\ utc' = utc /\ utc \in Int /\ \A d \in Days : d \in Int
      /\ old \in Seq(Lines) /\ new \in Seq(Lines) /\ n \in Nat /\ m \in Nat
  BY DEF TypeOK, Days
<1>2. \A d \in Days : HasLines(d) => d <= utc
  BY DEF ChainInv, FilesListed, FilesInPast
<1>3. /\ \A i \in 1..(m - 1) : i \in 1..n /\ new[i] = old[i]
      /\ m >= 1 /\ (new[m].json = Parses => m = n + 1 /\ new[m] = line)
  <2>1. CASE ~ OpenEnded(old)
    <3>1. new = Append(old, line)
      BY <2>1 DEF AppendLine
    <3>2. /\ Len(Append(old, line)) = n + 1 /\ Append(old, line)[n + 1] = line
          /\ \A i \in 1..n : Append(old, line)[i] = old[i]
      BY <1>1, AppendProperties
    <3> QED BY <1>1, <3>1, <3>2
  <2>2. CASE OpenEnded(old)
    <3>1. LET f == AppendLine(old, line) IN
          /\ old # <<>> /\ Len(f) = n /\ f[n].json # Parses
          /\ \A i \in 1..(n - 1) : f[i] = old[i]
      BY <1>1, <2>2, AppendLineFacts
    <3>2. n >= 1
      BY <1>1, <3>1, EmptySeq
    <3> QED BY <1>1, <3>1, <3>2
  <2> QED BY <2>1, <2>2
<1> HIDE DEF old, new, n, m
<1>4. \A d \in Days : \A i \in DOMAIN records[d] :
        Reads(records[d][i], Predecessor(d, i), AfterGap(d, i))
  BY DEF DecisionsRevealed, Reads
<1>5. ASSUME NEW i \in 1..m PROVE Reads(new[i], Predecessor(utc, i)', AfterGap(utc, i)')
  <2>1. CASE i < m
    <3>1. i \in 1..n /\ new[i] = old[i] /\ (i # 1 => new[i - 1] = old[i - 1])
      BY <1>1, <1>3, <2>1
    <3>2. record_before(utc)' = record_before(utc)
      BY <1>1 DEF record_before
    <3>3. Predecessor(utc, i)' = Predecessor(utc, i)
      BY <1>1, <3>1, <3>2 DEF Predecessor, old, new
    <3>4. i \in DOMAIN old
      BY <1>1, <3>1 DEF n
    <3>5. AfterGap(utc, i)' <=> AfterGap(utc, i)
      BY <1>1, <3>2 DEF AfterGap
    <3> QED BY <1>1, <1>4, <3>1, <3>3, <3>4, <3>5 DEF old, Reads
  <2>2. CASE i = m /\ new[m].json # Parses
    BY <2>2 DEF Reads
  <2>3. CASE i = m /\ new[m].json = Parses /\ n >= 1
    <3>1. m = n + 1 /\ new[m] = line /\ new[m - 1] = old[n] /\ old # <<>>
      <4>1. m = n + 1 /\ n \in 1..(m - 1) /\ new[m] = line
        BY <1>1, <1>3, <2>3
      <4>2. old # <<>>
        BY <1>1, <2>3, EmptySeq DEF n
      <4> QED BY <1>1, <1>3, <4>1, <4>2
    <3>2. IsHead(utc) /\ Last(old) = old[n]
      BY <1>1, <1>2, <3>1 DEF IsHead, HasLines, Last, old, n
    <3>3. Predecessor(utc, i)' = Last(old)
      BY <1>1, <2>3, <3>1, <3>2 DEF Predecessor, new
    <3>4. ~ AfterGap(utc, i)'
      BY <1>1, <2>3, <3>1 DEF AfterGap
    <3> QED BY <1>1, <2>3, <3>1, <3>2, <3>3, <3>4 DEF old, Reads
  <2>4. CASE i = m /\ new[m].json = Parses /\ n = 0
    <3>1. i = 1 /\ new[i] = line /\ ~ HasLines(utc)
      <4>1. m = 1 /\ new[m] = line
        BY <1>3, <2>4
      <4>2. old = <<>>
        BY <1>1, <2>4, EmptySeq DEF n
      <4> QED BY <2>4, <4>1, <4>2 DEF HasLines, old
    <3>2. Predecessor(utc, i)' = record_before(utc)
      BY <1>1, <3>1 DEF Predecessor, record_before
    <3>3. CASE utc - 1 \in Days /\ HasLines(utc - 1)
      <4>1. IsHead(utc - 1)
        <5> SUFFICES ASSUME NEW e \in Days, utc - 1 < e, HasLines(e) PROVE FALSE
          BY <3>3 DEF IsHead
        <5>1. e <= utc /\ e # utc /\ e \in Int
          BY <1>1, <1>2, <3>1
        <5> QED BY <1>1, <5>1
      <4>2. record_before(utc) = Last(records[utc - 1])
        BY <3>3 DEF record_before, HasLines
      <4>3. record_before(utc) # Null
        <5>1. records[utc - 1] \in Seq(Lines) /\ records[utc - 1] # <<>>
          BY <3>3 DEF TypeOK, HasLines
        <5>2. Last(records[utc - 1]) \in Lines
          BY <5>1, EmptySeq DEF Last
        <5> QED BY <4>2, <5>2, NullAssumption
      <4>4. ~ AfterGap(utc, i)'
        BY <1>1, <4>3 DEF AfterGap, record_before
      <4> QED BY <3>1, <3>2, <3>3, <4>1, <4>2, <4>4 DEF Reads
    <3>4. CASE ~ (utc - 1 \in Days /\ HasLines(utc - 1))
      <4>1. record_before(utc) = Null /\ record_before(utc)' = Null
        BY <1>1, <3>4 DEF record_before, HasLines
      <4>2. (\E e \in Days : HasLines(e)) <=> \E e \in Days : e < utc /\ records[e] # <<>>
        <5> SUFFICES ASSUME NEW e \in Days, HasLines(e) PROVE e < utc
          BY DEF HasLines
        <5>1. e <= utc /\ e # utc /\ e \in Int
          BY <1>1, <1>2, <3>1
        <5> QED BY <1>1, <5>1
      <4>3. (\E e \in Days : HasLines(e)) <=> AfterGap(utc, i)'
        <5>1. \A e \in Days : e < utc => records'[e] = records[e]
          BY <1>1
        <5> QED BY <1>1, <3>1, <4>1, <4>2, <5>1 DEF AfterGap
      <4> QED BY <3>1, <3>2, <4>1, <4>3 DEF Reads
    <3> QED BY <3>3, <3>4
  <2> QED BY <1>1, <2>1, <2>2, <2>3, <2>4
<1>6. ASSUME NEW d \in Days, NEW i \in DOMAIN records'[d]
      PROVE  Reads(records'[d][i], Predecessor(d, i)', AfterGap(d, i)')
  <2>1. CASE d = utc
    <3>1. i \in 1..m
      BY <1>1, <1>6, <2>1 DEF new, m
    <3> QED BY <1>1, <1>5, <2>1, <3>1 DEF new
  <2>2. CASE d # utc
    <3>1. records'[d] = records[d] /\ records[d] \in Seq(Lines)
      BY <1>6, <2>2 DEF TypeOK
    <3>2. HasLines(d)
      BY <1>6, <3>1 DEF HasLines
    <3>3. d - 1 # utc
      BY <1>1, <1>2, <2>2, <3>2
    <3>4. Predecessor(d, i)' = Predecessor(d, i)
      BY <1>1, <3>1, <3>3 DEF Predecessor, record_before
    <3>5. AfterGap(d, i)' <=> AfterGap(d, i)
      <4>1. \A e \in Days : e < d => records'[e] = records[e]
        BY <1>1, <1>2, <3>2, <2>2
      <4>2. record_before(d)' = record_before(d)
        BY <1>1, <3>3 DEF record_before
      <4> QED BY <4>1, <4>2 DEF AfterGap
    <3> QED BY <1>4, <1>6, <3>1, <3>4, <3>5 DEF Reads
  <2> QED BY <2>1, <2>2
<1> QED BY <1>6 DEF DecisionsRevealed, Reads

-----------------------------------------------------------------------------
(* The steps of the agent.                                                 *)

SessionInv == TypeOK /\ SessionOK /\ OpenInv
AgentInv ==
  SessionInv /\ ChainInv /\ OpenIntervalCommitted /\ OpenRecorded /\ DecisionsRevealed

\* A step that leaves the day files and the open interval as they are, or ends the session.
LEMMA RecordsKept ==
  ASSUME AgentInv, records' = records,
         \/ up' = up /\ open_interval' = open_interval
         \/ up' = FALSE \/ open_interval' = Null
  PROVE  OpenIntervalCommitted' /\ DecisionsRevealed'
<1>1. DecisionsRevealed'
  BY DEF AgentInv, DecisionsRevealed, Predecessor, AfterGap, record_before
<1>2. OpenIntervalCommitted'
  <2>1. CASE up' = FALSE
    BY <2>1, Zenon DEF OpenIntervalCommitted
  <2>2. CASE open_interval' = Null
    BY <2>2 DEF OpenIntervalCommitted
  <2>3. CASE up' = up /\ open_interval' = open_interval
    BY <2>3 DEF AgentInv, OpenIntervalCommitted, IsHead, HasLines
  <2> QED BY <2>1, <2>2, <2>3
<1> QED BY <1>1, <1>2

\* What a poll does to the session.
LEMMA PollSession ==
  ASSUME SessionInv, NEW action \in Actions, PollStep(action),
         \/ open_interval' = Opening(action)
         \/ open_interval' = open_interval,
         phase' \in {"poll", "check"}
  PROVE  SessionOK' /\ OpenInv'
<1>1. SessionOK /\ OpenInv /\ TypeOK
  BY DEF SessionInv
<1>2. Opening(action) \in OpenIntervals
      /\ Opening(action).commit = commit_hash(decision_snapshot(Opening(action)), Opening(action).nonce)
  BY <1>1, OpeningFacts
<1>3. OpenInv' /\ open_interval' \in OpenIntervals \cup {Null}
  <2>1. CASE open_interval' = Opening(action)
    BY <1>2, <2>1 DEF OpenInv, commit_hash, decision_snapshot
  <2>2. CASE open_interval' = open_interval
    BY <1>1, <2>2 DEF SessionOK, OpenInv, commit_hash, decision_snapshot
  <2> QED BY <2>1, <2>2
<1>4. off' \subseteq Wired
  BY <1>1 DEF PollStep, Act, SessionOK
<1>5. baseline' \subseteq Actions
  BY <1>1 DEF PollStep, Observe, SessionOK
<1>6. decision' \in Actions /\ polls' \in Nat /\ UNCHANGED <<mode, today, last_seal_day>>
  BY <1>1 DEF PollStep, SessionOK
<1> QED BY <1>1, <1>3, <1>4, <1>5, <1>6 DEF SessionOK

\* What a poll may have done to the day files, and what its record is.
LEMMA PollFacts ==
  ASSUME Bodies = Intervals, SessionInv, NEW action \in Actions,
         Poll(action) \/ PollUnlogged(action) \/ PollFails(action) \/ PollCrashes(action)
  PROVE  LET body == ClosingRecord(action)
             line == NextLine(body)
             t == [line EXCEPT !.json = Torn] IN
         /\ body \in Bodies /\ line \in Lines /\ t \in Lines /\ t.json = Torn
         /\ Continues(line) /\ line.body.commit = Opening(action).commit
         /\ up /\ UNCHANGED utc /\ days' = days \cup {utc}
         /\ records' \in [Days -> Seq(Lines)] /\ \A d \in Days \ {utc} : records'[d] = records[d]
         /\ records'[utc] \in {records[utc], AppendLine(records[utc], t), AppendLine(records[utc], line)}
         /\ Poll(action) \/ PollUnlogged(action) => records'[utc] = AppendLine(records[utc], line)
         /\ PollFails(action) /\ "whole" \notin ErrorOutcomes =>
              records'[utc] \in {records[utc], AppendLine(records[utc], t)}
<1> DEFINE body == ClosingRecord(action)
           line == NextLine(body)
           t == [line EXCEPT !.json = Torn]
<1>1. TypeOK /\ SessionOK /\ OpenInv
  BY DEF SessionInv
<1>2. body \in Bodies /\ body.commit = Opening(action).commit
  BY <1>1, ClosingFacts
<1>3. line \in Lines /\ t \in Lines /\ t.json = Torn /\ Continues(line) /\ line.body = body
  BY <1>1, <1>2, NextLineType DEF Lines, Continues, NextLine
<1>4. records[utc] \in Seq(Lines)
  BY <1>1 DEF TypeOK
<1>5. CASE RecordOn(utc, body)
  <2>1. /\ days' = days \cup {utc} /\ records' \in [Days -> Seq(Lines)]
        /\ \A d \in Days \ {utc} : records'[d] = records[d]
        /\ records'[utc] = AppendLine(records[utc], line)
    BY <1>1, <1>2, <1>5, RecordFacts
  <2>2. up /\ UNCHANGED utc /\ appends' = appends + 1
    BY <1>5 DEF RecordOn, Appending, clock
  <2>3. ~ PollFails(action) \/ seq' # seq + 1
    BY <1>1 DEF PollFails, RecordInterrupted, TypeOK
  <2>4. seq' = seq + 1
    BY <1>5 DEF RecordOn
  <2> QED BY <1>2, <1>3, <2>1, <2>2, <2>3, <2>4
<1>6. ASSUME NEW outcomes, outcomes \subseteq Outcomes, RecordInterrupted(utc, body, outcomes)
      PROVE  /\ up /\ UNCHANGED utc /\ days' = days \cup {utc} /\ seq' = seq
             /\ records' \in [Days -> Seq(Lines)] /\ \A d \in Days \ {utc} : records'[d] = records[d]
             /\ records'[utc] \in {records[utc], AppendLine(records[utc], t), AppendLine(records[utc], line)}
             /\ "whole" \notin outcomes =>
                  records'[utc] \in {records[utc], AppendLine(records[utc], t)}
  <2>1. /\ days' = days \cup {utc} /\ records' \in [Days -> Seq(Lines)]
        /\ \A d \in Days \ {utc} : records'[d] = records[d]
        /\ \E outcome \in outcomes : records'[utc] = Interrupted(records[utc], line, outcome)
    BY <1>1, <1>2, <1>6, RecordInterruptedFacts
  <2>2. up /\ UNCHANGED <<utc, seq>>
    BY <1>6 DEF RecordInterrupted, Appending, clock
  <2>3. PICK outcome \in outcomes : records'[utc] = Interrupted(records[utc], line, outcome)
    BY <2>1
  <2> HIDE DEF line
  <2>4. /\ Interrupted(records[utc], line, outcome) \in
             {records[utc], AppendLine(records[utc], t), AppendLine(records[utc], line)}
        /\ outcome # "whole" =>
             Interrupted(records[utc], line, outcome) \in {records[utc], AppendLine(records[utc], t)}
    BY <1>3, <1>4, <1>6, InterruptedFacts
  <2> QED BY <2>1, <2>2, <2>3, <2>4
<1>7. CASE PollFails(action)
  <2>1. RecordInterrupted(utc, body, ErrorOutcomes)
    BY <1>7 DEF PollFails
  <2>2. ~ RecordOn(utc, body)
    BY <1>1, <1>6, <2>1, OutcomesAssumption DEF RecordOn, TypeOK
  <2> QED BY <1>2, <1>3, <1>6, <2>1, <2>2, OutcomesAssumption DEF Poll, PollUnlogged
<1>8. CASE PollCrashes(action)
  <2>1. RecordInterrupted(utc, body, CrashOutcomes)
    BY <1>8 DEF PollCrashes
  <2>2. ~ RecordOn(utc, body)
    BY <1>1, <1>6, <2>1, OutcomesAssumption DEF RecordOn, TypeOK
  <2>3. PollFails(action) => RecordInterrupted(utc, body, ErrorOutcomes)
    BY DEF PollFails
  <2>4. PollFails(action) /\ "whole" \notin ErrorOutcomes =>
          records'[utc] \in {records[utc], AppendLine(records[utc], t)}
    BY <1>6, <2>3, OutcomesAssumption
  <2> QED BY <1>2, <1>3, <1>6, <2>1, <2>2, <2>4, OutcomesAssumption DEF Poll, PollUnlogged
<1> QED BY <1>5, <1>7, <1>8 DEF Poll, PollUnlogged

LEMMA PollLedger ==
  ASSUME Bodies = Intervals, SessionInv, NEW action \in Actions,
         Poll(action) \/ PollUnlogged(action) \/ PollFails(action) \/ PollCrashes(action)
  PROVE  TypeOK' /\ ("whole" \notin ErrorOutcomes /\ ChainInv => ChainInv')
<1>1. PICK body \in Bodies : body = ClosingRecord(action)
  BY PollFacts
<1>2. CASE PollUnlogged(action)
  BY <1>1, <1>2, RecordedOnlyKeeps DEF PollUnlogged, RecordedOnly, SessionInv
<1>3. CASE Poll(action) \/ PollFails(action) \/ PollCrashes(action)
  <2>1. Record(body) \/ RecordFails(body) \/ RecordCrashes(body)
    BY <1>1, <1>3 DEF Poll, PollFails, PollCrashes, Record, RecordFails, RecordCrashes
  <2>2. Next
    BY <2>1 DEF Next
  <2>3. TypeOK'
    BY <2>2, TypeStep DEF SessionInv
  <2> QED BY <2>2, <2>3, ChainStep DEF SessionInv
<1> QED BY <1>2, <1>3

LEMMA PollKeeps ==
  ASSUME Bodies = Intervals, "whole" \notin ErrorOutcomes, AgentInv, NEW action \in Actions,
         Poll(action) \/ PollUnlogged(action) \/ PollFails(action) \/ PollCrashes(action)
  PROVE  AgentInv'
<1> DEFINE line == NextLine(ClosingRecord(action))
           t == [line EXCEPT !.json = Torn]
<1>1. /\ line \in Lines /\ t \in Lines /\ t.json # Parses
      /\ Continues(line) /\ line.body.commit = Opening(action).commit
      /\ up /\ UNCHANGED utc /\ days' = days \cup {utc}
      /\ records' \in [Days -> Seq(Lines)] /\ \A d \in Days \ {utc} : records'[d] = records[d]
      /\ records'[utc] \in {records[utc], AppendLine(records[utc], t), AppendLine(records[utc], line)}
      /\ Poll(action) \/ PollUnlogged(action) => records'[utc] = AppendLine(records[utc], line)
      /\ PollFails(action) => records'[utc] \in {records[utc], AppendLine(records[utc], t)}
  BY PollFacts, ConstantsOK DEF AgentInv
<1>2. TypeOK /\ ChainInv /\ SessionOK /\ OpenInv /\ OpenIntervalCommitted /\ DecisionsRevealed
      /\ OpenRecorded
  BY DEF AgentInv, SessionInv
<1>3. /\ \A d \in Days : IsHead(d) => /\ Reads(line, Last(records[d]), FALSE)
                                     /\ Reads(t, Last(records[d]), FALSE)
      /\ Reads(line, Null, \E e \in Days : HasLines(e))
      /\ Reads(t, Null, \E e \in Days : HasLines(e))
  <2>1. \A predecessor, gap : Reads(t, predecessor, gap)
    BY <1>1 DEF Reads
  <2> HIDE DEF line, t
  <2> QED BY <1>1, <1>2, <2>1, NewLineReads, NewLineReadsAlone DEF line
<1>4. SessionOK' /\ OpenInv'
  BY <1>2, PollSession DEF Poll, PollUnlogged, PollFails, PollCrashes, SessionOK, PollStep, SessionInv
<1>5. Continues(t)
  BY <1>1 DEF Continues
<1> HIDE DEF line, t
<1>6. DecisionsRevealed'
  <2>1. CASE records'[utc] = records[utc]
    <3>1. records' = records
      BY <1>1, <1>2, <2>1 DEF TypeOK
    <3> QED BY <1>2, <3>1 DEF DecisionsRevealed, Predecessor, AfterGap, record_before
  <2>2. CASE records'[utc] = AppendLine(records[utc], t)
    BY <1>1, <1>2, <1>3, <2>2, AppendReads
  <2>3. CASE records'[utc] = AppendLine(records[utc], line)
    BY <1>1, <1>2, <1>3, <2>3, AppendReads
  <2> QED BY <1>1, <2>1, <2>2, <2>3
<1>7. ASSUME NEW new \in Lines, Continues(new), records'[utc] = AppendLine(records[utc], new),
             new.json = Parses => new.body.commit = open_interval'.commit
      PROVE  OpenIntervalCommitted'
  <2>1. /\ \A d \in Days : IsHead(d)' => d = utc
        /\ Last(records'[utc]).json = Parses => Last(records'[utc]) = new
    BY <1>1, <1>2, <1>7, AppendKeepsChain
  <2> QED BY <1>7, <2>1 DEF OpenIntervalCommitted
<1>8. OpenIntervalCommitted'
  <2>1. CASE Poll(action) \/ PollUnlogged(action)
    <3>1. open_interval' = Opening(action)
      BY <2>1 DEF Poll, PollUnlogged
    <3> QED BY <1>1, <1>7, <2>1, <3>1
  <2>2. CASE PollFails(action)
    <3>1. UNCHANGED <<up, open_interval>>
      BY <2>2 DEF PollFails
    <3>2. CASE records'[utc] = records[utc]
      <4>1. records' = records
        BY <1>1, <1>2, <3>2 DEF TypeOK
      <4> QED BY <3>1, <4>1, RecordsKept
    <3>3. CASE records'[utc] = AppendLine(records[utc], t)
      BY <1>1, <1>5, <1>7, <3>3
    <3> QED BY <1>1, <2>2, <3>2, <3>3
  <2>3. CASE PollCrashes(action)
    <3>1. up' = FALSE
      BY <2>3, Zenon DEF PollCrashes
    <3> QED BY <3>1, Zenon DEF OpenIntervalCommitted
  <2> QED BY <2>1, <2>2, <2>3
<1>9. OpenRecorded'
  <2>1. ASSUME NEW new \in Lines, records'[utc] = AppendLine(records[utc], new) PROVE HasLines(utc)'
    <3>1. records[utc] \in Seq(Lines) /\ Len(records[utc]) \in Nat
      BY <1>2 DEF TypeOK
    <3>2. ~ OpenEnded(records[utc]) => records'[utc] = Append(records[utc], new)
      BY <2>1, <3>1, AppendLineFacts
    <3>3. OpenEnded(records[utc]) =>
            /\ records[utc] # <<>> /\ records'[utc] \in Seq(Lines)
            /\ Len(records'[utc]) = Len(records[utc])
      BY <2>1, <3>1, AppendLineFacts
    <3>4. records'[utc] # <<>>
      <4>1. CASE OpenEnded(records[utc])
        <5>1. Len(records[utc]) # 0
          BY <3>1, <3>3, <4>1, EmptySeq
        <5> QED BY <3>3, <4>1, <5>1, EmptySeq
      <4>2. CASE ~ OpenEnded(records[utc])
        <5>1. records'[utc] # <<>>
          BY <2>1, <3>1, <3>2, <4>2, AppendProperties
        <5> QED BY <5>1
      <4> QED BY <4>1, <4>2
    <3> QED BY <1>1, <3>4 DEF HasLines
  <2>2. utc \in Days
    BY <1>2 DEF TypeOK
  <2>3. CASE Poll(action) \/ PollUnlogged(action)
    <3>1. HasLines(utc)'
      BY <1>1, <2>1, <2>3
    <3> QED BY <1>1, <2>2, <3>1 DEF OpenRecorded, HasLines
  <2>4. CASE PollFails(action) \/ PollCrashes(action)
    <3>1. open_interval' = open_interval
      BY <2>4 DEF PollFails, PollCrashes
    <3>2. \A d \in Days : HasLines(d) => HasLines(d)'
      BY <1>1, <2>1 DEF HasLines
    <3> QED BY <1>2, <3>1, <3>2 DEF OpenRecorded
  <2> QED BY <2>3, <2>4
<1> QED BY <1>4, <1>6, <1>8, <1>9, PollLedger DEF AgentInv, SessionInv

\* The other steps of the agent: each is one of the ledger or leaves it alone, and none
\* touches the records.
LEMMA OtherSteps ==
  ASSUME SessionInv, [AgentNext]_agentVars,
         ~ \E a \in Actions : Poll(a) \/ PollUnlogged(a) \/ PollFails(a) \/ PollCrashes(a)
  PROVE  /\ [Next]_vars /\ records' = records
         /\ \/ up' = up /\ open_interval' = open_interval
            \/ up' = FALSE \/ open_interval' = Null
         /\ open_interval' \in {open_interval, Null}
         /\ SessionOK' /\ OpenInv'
<1>1. SessionOK /\ OpenInv /\ TypeOK /\ local \in Int
  BY DEF SessionInv, TypeOK
<1>2. ASSUME UNCHANGED agent PROVE SessionOK' /\ OpenInv' /\ open_interval' = open_interval
  BY <1>1, <1>2 DEF agent, session, loop, SessionOK, OpenInv, commit_hash, decision_snapshot
<1>3. ASSUME NEW f \in Farms, NEW force \in Forced, NEW m \in {"advisory", "webhook"},
             AgentStart(f, force, m)
      PROVE  /\ Next /\ records' = records /\ open_interval' = Null /\ SessionOK' /\ OpenInv'
  <2>1. Next
    BY <1>3 DEF AgentStart, Next, LedgerNext
  <2>2. SessionOK' /\ OpenInv'
    BY <1>1, <1>3 DEF AgentStart, SessionOK, OpenInv, Actions
  <2> QED BY <1>3, <2>1, <2>2 DEF AgentStart, Start
<1>4. CASE ReadDay \/ SealsUnreadable \/ DaySealed
  <2>1. UNCHANGED <<vars, open_interval, decision, mode, baseline, off, polls>>
    BY <1>4 DEF ReadDay, SealsUnreadable, DaySealed
  <2>2. phase' \in {"poll", "check", "changed", "sealing"} /\ today' \in Int /\ last_seal_day' \in Int
    BY <1>1, <1>4 DEF ReadDay, SealsUnreadable, DaySealed, SessionOK
  <2>3. SessionOK' /\ OpenInv'
    BY <1>1, <2>1, <2>2 DEF SessionOK, OpenInv, commit_hash, decision_snapshot
  <2> QED BY <2>1, <2>3 DEF vars, disk, memory
<1>5. CASE NewDay
  <2>1. UNCHANGED <<open_interval, decision, mode, baseline, today, last_seal_day, off, polls>>
        /\ phase' = "sealing" /\ SealPending
    BY <1>5 DEF NewDay
  <2>2. SessionOK' /\ OpenInv'
    BY <1>1, <2>1 DEF SessionOK, OpenInv, commit_hash, decision_snapshot
  <2> QED BY <2>1, <2>2 DEF Next, LedgerNext, SealPending, disk
<1>6. CASE ConsoleSeals
  BY <1>2, <1>6 DEF ConsoleSeals, Next, LedgerNext, SealPending, disk
<1>7. ASSUME NEW d \in days, SealOne(d)
      PROVE  /\ Next /\ records' = records /\ (up' = up \/ up' = FALSE)
             /\ open_interval' = open_interval /\ SessionOK' /\ OpenInv'
  <2>1. SealDay(d) \/ SealCrashes(d)
    BY <1>7 DEF SealOne
  <2>2. records' = records
    BY <2>1 DEF SealDay, SealCrashes, SealInterrupted
  <2>3. up' = up \/ up' = FALSE
    BY <2>1, Zenon DEF SealDay, SealCrashes
  <2>4. Next
    BY <2>1 DEF Next, LedgerNext
  <2> QED BY <1>2, <1>7, <2>2, <2>3, <2>4 DEF SealOne
<1>8. ASSUME NEW d \in days, SealingRaises(d)
      PROVE  /\ Next /\ records' = records /\ up' = up
             /\ open_interval' = open_interval /\ SessionOK' /\ OpenInv'
  <2>1. SealRefused(d) \/ SealFails(d)
    BY <1>8 DEF SealingRaises
  <2>2. records' = records
    BY <2>1 DEF SealRefused, SealFails, SealInterrupted, disk
  <2>3. up' = up
    BY <2>1, Zenon DEF SealRefused, SealFails
  <2>4. Next
    BY <2>1 DEF Next, LedgerNext
  <2>5. SessionOK' /\ OpenInv'
    BY <1>1, <1>8 DEF SealingRaises, SessionOK, OpenInv, commit_hash, decision_snapshot
  <2> QED BY <1>8, <2>2, <2>3, <2>4, <2>5 DEF SealingRaises
<1>9. CASE AgentMidnight
  <2>1. UNCHANGED <<session, off>> /\ polls' = 0 /\ Midnight
    BY <1>9 DEF AgentMidnight
  <2>2. SessionOK' /\ OpenInv'
    BY <1>1, <2>1 DEF session, loop, SessionOK, OpenInv, commit_hash, decision_snapshot
  <2> QED BY <2>1, <2>2 DEF Next, LedgerNext, Midnight, disk, memory, session
<1>10. CASE AgentStops
  <2>1. Stop /\ UNCHANGED agent
    BY <1>10 DEF AgentStops
  <2>2. up' = FALSE /\ records' = records
    BY <2>1, Zenon DEF Stop, disk
  <2> QED BY <1>2, <2>1, <2>2 DEF Next, LedgerNext
<1>11. CASE UNCHANGED agentVars
  BY <1>2, <1>11 DEF agentVars, vars, disk, memory
<1> QED BY <1>3, <1>4, <1>5, <1>6, <1>7, <1>8, <1>9, <1>10, <1>11 DEF AgentNext

LEMMA SessionStep ==
  ASSUME Bodies = Intervals
  PROVE  SessionInv /\ [AgentNext]_agentVars => SessionInv'
<1> SUFFICES ASSUME SessionInv, [AgentNext]_agentVars PROVE SessionInv'
  OBVIOUS
<1>1. ASSUME NEW a \in Actions, Poll(a) \/ PollUnlogged(a) \/ PollFails(a) \/ PollCrashes(a)
      PROVE  SessionInv'
  <2>1. SessionOK' /\ OpenInv'
    BY <1>1, PollSession DEF Poll, PollUnlogged, PollFails, PollCrashes, SessionOK, PollStep, SessionInv
  <2> QED BY <1>1, <2>1, PollLedger DEF SessionInv
<1>2. CASE ~ \E a \in Actions : Poll(a) \/ PollUnlogged(a) \/ PollFails(a) \/ PollCrashes(a)
  BY <1>2, OtherSteps, TypeStep DEF SessionInv
<1> QED BY <1>1, <1>2

LEMMA AgentStep ==
  ASSUME Bodies = Intervals, "whole" \notin ErrorOutcomes
  PROVE  AgentInv /\ [AgentNext]_agentVars => AgentInv'
<1> SUFFICES ASSUME AgentInv, [AgentNext]_agentVars PROVE AgentInv'
  OBVIOUS
<1>1. CASE \E a \in Actions : Poll(a) \/ PollUnlogged(a) \/ PollFails(a) \/ PollCrashes(a)
  BY <1>1, PollKeeps
<1>2. CASE ~ \E a \in Actions : Poll(a) \/ PollUnlogged(a) \/ PollFails(a) \/ PollCrashes(a)
  <2>1. SessionInv' /\ [Next]_vars
    BY <1>2, OtherSteps, SessionStep DEF AgentInv
  <2>2. ChainInv'
    BY <2>1, ChainStep DEF AgentInv, SessionInv
  <2>3. OpenIntervalCommitted' /\ DecisionsRevealed'
    BY <1>2, OtherSteps, RecordsKept DEF AgentInv
  <2>4. OpenRecorded'
    BY <1>2, OtherSteps DEF AgentInv, OpenRecorded, HasLines
  <2> QED BY <2>1, <2>2, <2>3, <2>4 DEF AgentInv
<1> QED BY <1>1, <1>2

LEMMA AgentInitial == AgentInit => AgentInv
<1> SUFFICES ASSUME AgentInit PROVE AgentInv
  OBVIOUS
<1>1. Init /\ TypeOK /\ ChainInv
  BY TypeInit, ChainInit DEF AgentInit
<1>2. \A d \in Days : records[d] = <<>>
  BY <1>1 DEF Init
<1>3. SessionOK /\ OpenInv
  BY <1>1 DEF AgentInit, SessionOK, OpenInv, Actions, TypeOK
<1>4. DecisionsRevealed
  BY <1>2 DEF DecisionsRevealed
<1>5. OpenIntervalCommitted /\ OpenRecorded
  BY DEF AgentInit, OpenIntervalCommitted, OpenRecorded
<1> QED BY <1>1, <1>3, <1>4, <1>5 DEF AgentInv, SessionInv

\* Whatever polls fail, however often the agent stops and is started again, every record
\* of its files is an interval, and only wired machines are switched off.
THEOREM AgentTyped ==
  ASSUME Bodies = Intervals
  PROVE  AgentSpec => []AgentTypeOK
<1>1. AgentInit => SessionInv
  BY AgentInitial DEF AgentInv
<1>2. SessionInv /\ [AgentNext]_agentVars => SessionInv'
  BY SessionStep
<1>3. SessionInv => AgentTypeOK
  <2> SUFFICES ASSUME SessionInv PROVE AgentTypeOK
    OBVIOUS
  <2>1. ASSUME NEW d \in Days, NEW i \in DOMAIN records[d] PROVE records[d][i].body \in Intervals
    <3>1. records[d] \in Seq(Lines)
      BY DEF SessionInv, TypeOK
    <3>2. records[d][i] \in Lines
      BY <2>1, <3>1
    <3> QED BY <3>2 DEF Lines
  <2> QED BY <2>1 DEF SessionInv, SessionOK, AgentTypeOK
<1> QED BY <1>1, <1>2, <1>3, PTL DEF AgentSpec

LEMMA AgentInvariant ==
  ASSUME Bodies = Intervals, "whole" \notin ErrorOutcomes
  PROVE  AgentSpec => []AgentInv
<1>1. AgentInv /\ [AgentNext]_agentVars => AgentInv'
  BY AgentStep
<1> QED BY <1>1, AgentInitial, PTL DEF AgentSpec

\* The interval now running is the one that the last record on the disk committed, through
\* polls whose record was lost or torn, crashes in an append and restarts.
THEOREM RunningIntervalCommitted ==
  ASSUME Bodies = Intervals, "whole" \notin ErrorOutcomes
  PROVE  AgentSpec => []OpenIntervalCommitted
<1>1. AgentInv => OpenIntervalCommitted
  BY DEF AgentInv
<1> QED BY <1>1, AgentInvariant, PTL

\* Whatever polls fail and however often the agent restarts, each record that can be read
\* opens the commitment of its predecessor, is the first of its session, or is the first
\* after a day without records: only those are ever read as mismatches.
THEOREM HonestAgentRevealed ==
  ASSUME Bodies = Intervals, "whole" \notin ErrorOutcomes
  PROVE  AgentSpec => []DecisionsRevealed
<1>1. AgentInv => DecisionsRevealed
  BY DEF AgentInv
<1> QED BY <1>1, AgentInvariant, PTL
=============================================================================
