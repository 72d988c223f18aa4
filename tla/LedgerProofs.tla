---------------------------- MODULE LedgerProofs ----------------------------
(***************************************************************************)
(* The ledger of one process, through every failure, stop and restart: its *)
(* records stay chained and its seals true; it implements SealChain and    *)
(* its seals leave no record out, on every host that is not east of UTC;   *)
(* and the rule of a sealed day never moves.                               *)
(***************************************************************************)
EXTENDS LedgerProperties, SequenceTheorems, TLAPS

LEMMA ConstantsOK ==
  /\ Torn # Parses /\ Garbled # Parses /\ Garbled # Torn
BY DEF Torn, Parses, Garbled

\* AppendLine either adds the line, or spoils the last line and nothing else.
LEMMA AppendLineFacts ==
  ASSUME NEW file \in Seq(Lines), NEW line \in Lines
  PROVE  LET new == AppendLine(file, line) IN
         /\ new \in Seq(Lines)
         /\ ~ OpenEnded(file) => new = Append(file, line)
         /\ OpenEnded(file) =>
              /\ file # <<>> /\ Len(new) = Len(file)
              /\ \A i \in 1..(Len(file) - 1) : new[i] = file[i]
              /\ new[Len(file)].json # Parses
<1>1. CASE ~ OpenEnded(file)
  BY <1>1 DEF AppendLine
<1>2. CASE OpenEnded(file)
  <2> DEFINE n == Len(file)
             mark == IF line.json = Torn THEN Torn ELSE Garbled
             e == [file[n] EXCEPT !.json = mark]
             new == [file EXCEPT ![n] = e]
  <2>1. AppendLine(file, line) = new
    BY <1>2 DEF AppendLine
  <2>2. file # <<>> /\ n \in 1..Len(file)
    BY <1>2, EmptySeq DEF OpenEnded
  <2>3. file[n] \in Lines
    BY <2>2, ElementOfSeq
  <2>4. e \in Lines /\ e.json # Parses
    BY <2>3, ConstantsOK DEF Lines
  <2>5. new \in Seq(Lines) /\ Len(new) = n /\ new[n] = e /\ \A i \in 1..(n - 1) : new[i] = file[i]
    BY <2>2, <2>4, ExceptSeq
  <2> QED BY <1>2, <2>1, <2>2, <2>4, <2>5
<1> QED BY <1>1, <1>2

LEMMA LastLine ==
  ASSUME NEW file \in Seq(Lines), file # <<>>
  PROVE  Last(file) \in Lines /\ Len(file) \in Nat \ {0} /\ Last(file) = file[Len(file)]
                             /\ file[1] \in Lines /\ Head(file) = file[1]
<1>1. Len(file) \in Nat \ {0}
  BY EmptySeq
<1>2. file[Len(file)] \in Lines /\ file[1] \in Lines
  BY <1>1, ElementOfSeq
<1> QED BY <1>1, <1>2 DEF Last

\* An append that did not return leaves the file, the line torn, or the line.
LEMMA InterruptedFacts ==
  ASSUME NEW file \in Seq(Lines), NEW line \in Lines, NEW outcome \in Outcomes
  PROVE  LET t == [line EXCEPT !.json = Torn] IN
         /\ t \in Lines /\ t.json = Torn
         /\ Interrupted(file, line, outcome) \in {file, AppendLine(file, t), AppendLine(file, line)}
         /\ outcome # "whole" => Interrupted(file, line, outcome) \in {file, AppendLine(file, t)}
         /\ Interrupted(file, line, outcome) \in Seq(Lines)
<1> DEFINE t == [line EXCEPT !.json = Torn]
<1>1. t \in Lines /\ t.json = Torn
  BY DEF Lines
<1>2. Interrupted(file, line, outcome) \in {file, AppendLine(file, t), AppendLine(file, line)}
  BY DEF Interrupted, Outcomes
<1>3. outcome # "whole" => Interrupted(file, line, outcome) \in {file, AppendLine(file, t)}
  BY DEF Interrupted, Outcomes
<1>4. AppendLine(file, t) \in Seq(Lines) /\ AppendLine(file, line) \in Seq(Lines)
  BY <1>1, AppendLineFacts
<1> QED BY <1>1, <1>2, <1>3, <1>4

LEMMA LeavesType ==
  ASSUME NEW file \in Seq(Lines)
  PROVE  leaves(file) \in Seq(Nat) /\ Len(leaves(file)) = Len(file)
<1> DEFINE n == Len(file)
           h == [i \in 1..n |-> record_hash(file[i])]
<1>1. n \in Nat
  BY LenProperties
<1>2. \A i \in 1..n : record_hash(file[i]) \in Nat
  <2> TAKE i \in 1..n
  <2>1. file[i] \in Lines
    BY ElementOfSeq
  <2> QED BY <2>1 DEF Lines, record_hash
<1>3. h \in [1..n -> Nat]
  BY <1>2, Zenon
<1> HIDE DEF h
<1>4. h \in Seq(Nat)
  <2>1. [1..n -> Nat] \in {[1..m -> Nat] : m \in Nat}
    BY <1>1
  <2> QED BY <1>3, <2>1, SeqDef, Zenon
<1>5. DOMAIN h = 1..n /\ DOMAIN h = 1..Len(h) /\ Len(h) \in Nat
  BY <1>3, <1>4, LenProperties, Zenon
<1>6. Len(h) = n
  BY <1>1, <1>5
<1> QED BY <1>4, <1>6, Zenon DEF leaves, h

-----------------------------------------------------------------------------
(* Type correctness.                                                       *)

LEMMA NextLineType ==
  ASSUME TypeOK, NEW body \in Bodies
  PROVE  NextLine(body) \in Lines /\ NextLine(body).json = Parses
                               /\ record_hash(NextLine(body)) \in Nat
BY DEF TypeOK, NextLine, Lines, record_hash

LEMMA ResumesType ==
  ASSUME TypeOK, NEW s, NEW p, Resumes(s, p)
  PROVE  s \in Nat /\ p \in Nat
<1>1. CASE days = {} /\ s = 0 /\ p = GENESIS
  BY <1>1 DEF GENESIS
<1>2. CASE \E d \in days : /\ LastFile(d) /\ records[d] # <<>> /\ Readable(records[d])
                          /\ s = Last(records[d]).seq + 1 /\ p = record_hash(Last(records[d]))
  <2>1. PICK d \in days : /\ records[d] # <<>>
                          /\ s = Last(records[d]).seq + 1 /\ p = record_hash(Last(records[d]))
    BY <1>2
  <2>2. records[d] \in Seq(Lines)
    BY DEF TypeOK
  <2>3. Last(records[d]) \in Lines
    BY <2>1, <2>2, LastLine
  <2> QED BY <2>1, <2>3 DEF Lines, record_hash
<1> QED BY <1>1, <1>2 DEF Resumes

LEMMA NewActivationType ==
  ASSUME TypeOK, NEW f \in Farms \cup {NoFarm}, NEW force \in Forced,
         NEW file \in {"absent", "valid", "torn"}
  PROVE  NewActivation(f, force, file) \in Activations
BY ForcedAssumption DEF TypeOK, NewActivation, FromDay, Activations, Days

LEMMA SealOfType ==
  ASSUME TypeOK, NEW day \in days, Sealable(day)
  PROVE  SealOf(day) \in Seals /\ SealOf(day).json = Parses
<1> DEFINE rule == seal_rule_for(day, activation)
           file == records[day]
<1>1. day \in Nat /\ file \in Seq(Lines) /\ file # <<>>
  BY DEF TypeOK, Days, Sealable
<1>2. rule \in {SEAL_RULE_LEGACY, SEAL_RULE_FARM_BOUND}
  BY DEF seal_rule_for
<1>3. Head(file).seq \in Nat /\ Last(file).seq \in Nat
  BY <1>1, LastLine DEF Lines
<1>4. leaves(file) \in Seq(Nat)
  BY <1>1, LeavesType
<1>5. PrevSeal \in Seq(Seq(Nat))
  <2>1. CASE seals = <<>>
    BY <2>1 DEF PrevSeal, GENESIS_SEAL
  <2>2. CASE seals # <<>>
    <3>1. seals \in Seq(Seals) /\ Len(seals) \in 1..Len(seals)
      BY <2>2, EmptySeq DEF TypeOK
    <3>2. Last(seals) \in Seals
      BY <3>1, ElementOfSeq DEF Last
    <3>3. seal_hash(Last(seals)) \in Seq(Seq(Nat))
      BY <3>2, AppendProperties DEF Seals, seal_hash
    <3> QED BY <2>2, <3>3 DEF PrevSeal
  <2> QED BY <2>1, <2>2
<1>6. (IF rule = SEAL_RULE_FARM_BOUND THEN farm ELSE NoFarm) \in Farms \cup {NoFarm}
  BY DEF TypeOK
<1> HIDE DEF rule, file
<1> QED BY <1>1, <1>2, <1>3, <1>4, <1>5, <1>6 DEF SealOf, Seals, rule, file

\* Appending to seals.jsonl is only reached when the whole file parses.
LEMMA SealsGrow ==
  ASSUME TypeOK, NEW day \in days, Sealable(day),
         NEW outcome \in Outcomes
  PROVE  LET s == SealOf(day)
             t == [s EXCEPT !.json = Torn] IN
         /\ t \in Seals /\ t.json = Torn
         /\ AppendLine(seals, s) = Append(seals, s)
         /\ Interrupted(seals, s, outcome) \in {seals, Append(seals, t), Append(seals, s)}
         /\ Append(seals, s) \in Seq(Seals) /\ Append(seals, t) \in Seq(Seals)
<1> DEFINE s == SealOf(day)
           t == [s EXCEPT !.json = Torn]
<1>1. s \in Seals
  BY SealOfType
<1> HIDE DEF s
<1>2. t \in Seals /\ t.json = Torn
  BY <1>1 DEF Seals
<1>3. ~ OpenEnded(seals)
  <2> SUFFICES ASSUME seals # <<>> PROVE Last(seals).json # Torn
    BY DEF OpenEnded
  <2>1. seals \in Seq(Seals) /\ Len(seals) \in 1..Len(seals)
    BY EmptySeq DEF TypeOK
  <2>2. Last(seals).json = Parses
    BY <2>1, LenProperties DEF Sealable, Readable, Last
  <2> QED BY <2>2, ConstantsOK
<1>4. \A e : AppendLine(seals, e) = Append(seals, e)
  BY <1>3 DEF AppendLine
<1>5. Interrupted(seals, s, outcome) \in {seals, Append(seals, t), Append(seals, s)}
  BY <1>4 DEF Interrupted, Outcomes
<1>6. Append(seals, s) \in Seq(Seals) /\ Append(seals, t) \in Seq(Seals)
  BY <1>1, <1>2, AppendProperties DEF TypeOK
<1> QED BY <1>2, <1>4, <1>5, <1>6 DEF s

\* What an append, returned or not, may do to the day files.
LEMMA RecordInterruptedFacts ==
  ASSUME TypeOK, NEW body \in Bodies, NEW outcomes, outcomes \subseteq Outcomes,
         RecordInterrupted(utc, body, outcomes)
  PROVE  /\ days' = days \cup {utc} /\ days' \subseteq Days
         /\ records' \in [Days -> Seq(Lines)]
         /\ \A d \in Days \ {utc} : records'[d] = records[d]
         /\ \E outcome \in outcomes :
              records'[utc] = Interrupted(records[utc], NextLine(body), outcome)
<1>1. PICK outcome \in outcomes :
        records' = [records EXCEPT ![utc] = Interrupted(records[utc], NextLine(body), outcome)]
  BY DEF RecordInterrupted
<1>2. Interrupted(records[utc], NextLine(body), outcome) \in Seq(Lines)
  BY NextLineType, InterruptedFacts DEF TypeOK
<1> QED BY <1>1, <1>2 DEF RecordInterrupted, TypeOK

LEMMA RecordFacts ==
  ASSUME TypeOK, NEW body \in Bodies, RecordOn(utc, body)
  PROVE  /\ days' = days \cup {utc} /\ days' \subseteq Days
         /\ records' \in [Days -> Seq(Lines)]
         /\ \A d \in Days \ {utc} : records'[d] = records[d]
         /\ records'[utc] = AppendLine(records[utc], NextLine(body))
<1>1. AppendLine(records[utc], NextLine(body)) \in Seq(Lines)
  BY NextLineType, AppendLineFacts DEF TypeOK
<1> QED BY <1>1 DEF RecordOn, TypeOK

LEMMA TypeStep == TypeOK /\ [Next]_vars => TypeOK'
<1> SUFFICES ASSUME TypeOK, [Next]_vars PROVE TypeOK'
  OBVIOUS
<1> USE DEF clock, disk, memory, bounds
<1>1. ASSUME NEW f \in Farms \cup {NoFarm}, NEW force \in Forced, Start(f, force)
      PROVE  TypeOK'
  <2>1. activation' \in Activations
    BY <1>1, NewActivationType DEF Start, load_or_write_activation, TypeOK
  <2>2. seq' \in Nat /\ prev_hash' \in Nat
    BY <1>1, ResumesType DEF Start
  <2> QED BY <1>1, <2>1, <2>2 DEF Start, TypeOK
<1>2. ASSUME NEW f \in Farms \cup {NoFarm}, NEW force \in Forced, StartRefused(f, force)
      PROVE  TypeOK'
  BY <1>2, NewActivationType DEF StartRefused, TypeOK
<1>3. ASSUME NEW f \in Farms \cup {NoFarm}, NEW force \in Forced, StartCrashes(f, force)
      PROVE  TypeOK'
  <2>1. activation' \in Activations
    BY <1>3, NewActivationType DEF StartCrashes
  <2> QED BY <1>3, <2>1 DEF StartCrashes, TypeOK
<1>4. ASSUME NEW d \in days, SealDay(d)
      PROVE  TypeOK'
  <2>1. seals' \in Seq(Seals)
    BY <1>4, SealsGrow DEF SealDay, Outcomes
  <2> QED BY <1>4, <2>1 DEF SealDay, TypeOK
<1>5. ASSUME NEW d \in days, SealRefused(d)
      PROVE  TypeOK'
  BY <1>5 DEF SealRefused, TypeOK
<1>6. ASSUME NEW d \in days, SealFails(d) \/ SealCrashes(d)
      PROVE  TypeOK'
  <2>1. \/ SealInterrupted(d, ErrorOutcomes) /\ up' = up
        \/ SealInterrupted(d, CrashOutcomes) /\ up' = FALSE
    BY <1>6 DEF SealFails, SealCrashes
  <2>2. Sealable(d) /\ \E outcome \in Outcomes : seals' = Interrupted(seals, SealOf(d), outcome)
    BY <2>1, OutcomesAssumption DEF SealInterrupted
  <2>3. seals' \in Seq(Seals)
    BY <2>2, SealsGrow DEF TypeOK
  <2>4. up' \in BOOLEAN
    BY <2>1, Zenon DEF TypeOK
  <2> QED BY <2>1, <2>3, <2>4 DEF SealInterrupted, TypeOK
<1>7. CASE SealPending
  BY <1>7 DEF SealPending, TypeOK
<1>8. CASE Stop
  <2>1. /\ sealing' = {} /\ faults' = faults + 1
        /\ UNCHANGED <<clock, disk, farm, seq, prev_hash, appends>>
    BY <1>8, Zenon DEF Stop
  <2>2. up' \in BOOLEAN
    BY <1>8, Zenon DEF Stop
  <2> QED BY <2>1, <2>2 DEF TypeOK
<1>9. CASE Midnight
  BY <1>9, SkewsAssumption, BoundsAssumption DEF Midnight, TypeOK, Days
<1>10. ASSUME NEW body \in Bodies, Record(body)
       PROVE  TypeOK'
  <2>1. seq' \in Nat /\ prev_hash' \in Nat /\ appends' \in Nat
    BY <1>10, NextLineType DEF Record, RecordOn, TypeOK
  <2> QED BY <1>10, <2>1, RecordFacts DEF Record, RecordOn, TypeOK
<1>11. ASSUME NEW body \in Bodies, RecordFails(body) \/ RecordCrashes(body)
       PROVE  TypeOK'
  <2>1. \/ RecordInterrupted(utc, body, ErrorOutcomes) /\ up' = up
        \/ RecordInterrupted(utc, body, CrashOutcomes) /\ up' = FALSE
    BY <1>11 DEF RecordFails, RecordCrashes
  <2>2. days' \subseteq Days /\ records' \in [Days -> Seq(Lines)]
    BY <2>1, OutcomesAssumption, RecordInterruptedFacts
  <2>3. up' \in BOOLEAN
    BY <2>1, Zenon DEF TypeOK
  <2> QED BY <2>1, <2>2, <2>3 DEF RecordInterrupted, TypeOK
<1>12. CASE UNCHANGED vars
  BY <1>12 DEF vars, TypeOK
<1> QED
  BY <1>1, <1>2, <1>3, <1>4, <1>5, <1>6, <1>7, <1>8, <1>9, <1>10, <1>11, <1>12
     DEF Next, LedgerNext

LEMMA TypeInit == Init => TypeOK
<1> SUFFICES ASSUME Init PROVE TypeOK
  OBVIOUS
<1>1. utc \in Days /\ local \in -1..(LastDay + 1) /\ local - utc \in Skews
  BY SkewsAssumption, BoundsAssumption DEF Init, Days
<1>2. records \in [Days -> Seq(Lines)] /\ seals \in Seq(Seals)
  BY DEF Init
<1>3. activation \in Activations
  BY DEF Init, NotActivated, Activations, NoDay
<1> QED BY <1>1, <1>2, <1>3 DEF Init, TypeOK, GENESIS

\* Every reachable state of the ledger, for every number of days, farms, forced
\* activations and failures, is well formed: the files hold records and seals.
THEOREM TypeCorrect == Spec => []TypeOK
BY TypeInit, TypeStep, PTL DEF Spec

-----------------------------------------------------------------------------
(* A seal stays true of its day, on every host that is not east of UTC.    *)

\* What makes SealsVerify inductive: a sealed day is over on the UTC clock too,
\* and records are only appended to the file of the current UTC day.
SealedInPast ==
  \A i \in DOMAIN seals :
    seals[i].json = Parses => seals[i].day \in Days /\ seals[i].day < utc

SealInv == SealsVerify /\ SealedInPast

LEMMA SealInvFrame ==
  ASSUME TypeOK, SealInv, seals' = seals, utc' \in Int, utc' >= utc,
         \A d \in Days : d < utc => records'[d] = records[d]
  PROVE  SealInv'
<1> SUFFICES ASSUME NEW i \in DOMAIN seals, seals[i].json = Parses
             PROVE  /\ verify_seal(seals[i], records[seals[i].day])'
                    /\ seals[i].day \in Days /\ seals[i].day < utc'
  BY DEF SealInv, SealsVerify, SealedInPast, verify_seal, Readable, leaves, record_hash
<1>1. seals[i].day \in Days /\ seals[i].day < utc /\ verify_seal(seals[i], records[seals[i].day])
  BY DEF SealInv, SealsVerify, SealedInPast
<1>2. records'[seals[i].day] = records[seals[i].day]
  BY <1>1
<1>3. seals[i].day < utc'
  BY <1>1 DEF TypeOK, Days
<1> QED BY <1>1, <1>2, <1>3 DEF verify_seal, Readable, leaves, record_hash

\* One more seal, torn or of a day that is over, changes nothing for the others.
LEMMA SealInvAppend ==
  ASSUME TypeOK, SealInv, Skews \subseteq {-1, 0}, NEW day \in days, Sealable(day),
         NEW s \in Seals, s.json # Parses \/ s = SealOf(day),
         seals' = Append(seals, s), UNCHANGED <<utc, records>>
  PROVE  SealInv'
<1>1. /\ seals \in Seq(Seals) /\ Len(seals) \in Nat /\ DOMAIN seals = 1..Len(seals)
      /\ DOMAIN seals' = 1..(Len(seals) + 1)
      /\ \A i \in 1..Len(seals) : seals'[i] = seals[i]
      /\ seals'[Len(seals) + 1] = s
  <2>1. seals' \in Seq(Seals) /\ Len(seals') = Len(seals) + 1
    BY AppendProperties DEF TypeOK
  <2> QED BY <2>1, AppendProperties, LenProperties DEF TypeOK
<1>2. day \in Days /\ day < utc
  <2>1. local \in Int /\ utc \in Int /\ local - utc \in {-1, 0}
    BY DEF TypeOK, Days
  <2>2. day < local
    BY DEF Sealable, Finished
  <2> QED BY <2>1, <2>2 DEF TypeOK, Days
<1>3. SealOf(day).day = day /\ SealOf(day).merkle_root = leaves(records[day])
  BY DEF SealOf
<1>4. verify_seal(SealOf(day), records[day])
  BY <1>3 DEF verify_seal, Sealable
<1> SUFFICES ASSUME NEW i \in DOMAIN seals', seals'[i].json = Parses
             PROVE  /\ verify_seal(seals'[i], records[seals'[i].day])
                    /\ seals'[i].day \in Days /\ seals'[i].day < utc
  BY DEF SealInv, SealsVerify, SealedInPast, verify_seal, Readable, leaves, record_hash
<1>5. CASE i \in 1..Len(seals)
  BY <1>1, <1>5 DEF SealInv, SealsVerify, SealedInPast
<1>6. CASE i = Len(seals) + 1
  <2>1. seals'[i] = SealOf(day)
    BY <1>1, <1>6
  <2> QED BY <1>2, <1>3, <1>4, <2>1
<1> QED BY <1>1, <1>5, <1>6

LEMMA SealStep ==
  ASSUME Skews \subseteq {-1, 0}
  PROVE  TypeOK /\ SealInv /\ [Next]_vars => SealInv'
<1> SUFFICES ASSUME TypeOK, SealInv, [Next]_vars PROVE SealInv'
  OBVIOUS
<1> USE DEF clock, disk, memory, bounds
<1>0. utc \in Int
  BY DEF TypeOK, Days
<1>1. ASSUME NEW f \in Farms \cup {NoFarm}, NEW force \in Forced,
             Start(f, force) \/ StartRefused(f, force) \/ StartCrashes(f, force)
      PROVE  SealInv'
  BY <1>0, <1>1, SealInvFrame DEF Start, StartRefused, StartCrashes
<1>2. ASSUME NEW d \in days, SealDay(d)
      PROVE  SealInv'
  <2>1. Sealable(d) /\ seals' = Append(seals, SealOf(d)) /\ SealOf(d) \in Seals
    BY <1>2, SealsGrow, SealOfType DEF SealDay, Outcomes
  <2> QED BY <1>2, <2>1, SealInvAppend DEF SealDay
<1>3. ASSUME NEW d \in days, SealFails(d) \/ SealCrashes(d)
      PROVE  SealInv'
  <2>1. /\ Sealable(d) /\ UNCHANGED <<utc, records>>
        /\ \E outcome \in Outcomes : seals' = Interrupted(seals, SealOf(d), outcome)
    BY <1>3, OutcomesAssumption DEF SealFails, SealCrashes, SealInterrupted
  <2> DEFINE t == [SealOf(d) EXCEPT !.json = Torn]
  <2>2. /\ seals' \in {seals, Append(seals, t), Append(seals, SealOf(d))}
        /\ t \in Seals /\ t.json # Parses /\ SealOf(d) \in Seals
    BY <2>1, SealsGrow, SealOfType, ConstantsOK
  <2>3. CASE seals' = seals
    BY <1>0, <2>1, <2>3, SealInvFrame
  <2>4. CASE seals' = Append(seals, t)
    BY <2>1, <2>2, <2>4, SealInvAppend
  <2>5. CASE seals' = Append(seals, SealOf(d))
    BY <2>1, <2>2, <2>5, SealInvAppend
  <2> QED BY <2>2, <2>3, <2>4, <2>5
<1>4. ASSUME NEW d \in days, SealRefused(d)
      PROVE  SealInv'
  BY <1>0, <1>4, SealInvFrame DEF SealRefused
<1>5. CASE SealPending \/ Stop
  BY <1>0, <1>5, SealInvFrame DEF SealPending, Stop
<1>6. CASE Midnight
  <2>1. utc' \in Int /\ utc' >= utc
    BY <1>0, <1>6 DEF Midnight
  <2> QED BY <1>6, <2>1, SealInvFrame DEF Midnight
<1>7. ASSUME NEW body \in Bodies, Record(body)
      PROVE  SealInv'
  <2>1. \A d \in Days : d < utc => records'[d] = records[d]
    BY <1>0, <1>7, RecordFacts DEF Record
  <2> QED BY <1>0, <1>7, <2>1, SealInvFrame DEF Record, RecordOn
<1>8. ASSUME NEW body \in Bodies, RecordFails(body) \/ RecordCrashes(body)
      PROVE  SealInv'
  <2>1. \E outcomes \in SUBSET Outcomes : RecordInterrupted(utc, body, outcomes)
    BY <1>8, OutcomesAssumption DEF RecordFails, RecordCrashes
  <2>2. \A d \in Days : d < utc => records'[d] = records[d]
    BY <1>0, <2>1, RecordInterruptedFacts
  <2> QED BY <1>0, <2>1, <2>2, SealInvFrame DEF RecordInterrupted
<1>9. CASE UNCHANGED vars
  BY <1>0, <1>9, SealInvFrame DEF vars
<1> QED BY <1>1, <1>2, <1>3, <1>4, <1>5, <1>6, <1>7, <1>8, <1>9 DEF Next, LedgerNext

\* On a host whose local day is never ahead of the UTC day, verify_seal accepts
\* every seal for ever: whatever fails, stops or restarts, no record reaches the
\* file of a day once it is sealed.
THEOREM SealsStayTrue ==
  ASSUME Skews \subseteq {-1, 0}
  PROVE  Spec => []SealsVerify
<1>1. Init => SealInv
  BY DEF Init, SealInv, SealsVerify, SealedInPast
<1>2. TypeOK /\ SealInv /\ [Next]_vars => SealInv'
  BY SealStep
<1>3. SealInv => SealsVerify
  BY DEF SealInv
<1> QED BY <1>1, <1>2, <1>3, TypeCorrect, PTL DEF Spec

-----------------------------------------------------------------------------
(* The chain of records, on a host where an append that raises has left no *)
(* whole line behind.                                                      *)

\* Day files are created in the order of the days, and the memory of a process
\* that found or left no line at all is the beginning of the chain.
FilesListed == \A d \in Days : HasLines(d) => d \in days
FilesInPast == \A d \in days : d <= utc
FreshMemory ==
  up /\ (\A d \in Days : ~ HasLines(d)) => seq = 0 /\ prev_hash = GENESIS

ChainInv ==
  ChainUnbroken /\ PredecessorIsNextSeqMinusOne /\ FilesListed /\ FilesInPast /\ FreshMemory

\* A line that belongs to the memory of the running process.
Continues(line) == line.json = Parses => line.seq = seq /\ line.prev = prev_hash

LEMMA AppendKeepsChain ==
  ASSUME TypeOK, ChainInv, up, NEW line \in Lines, Continues(line),
         days' = days \cup {utc}, UNCHANGED utc,
         records' \in [Days -> Seq(Lines)],
         \A d \in Days \ {utc} : records'[d] = records[d],
         records'[utc] = AppendLine(records[utc], line)
  PROVE  /\ ChainUnbroken' /\ FilesListed' /\ FilesInPast'
         /\ HasLines(utc)' /\ \A d \in Days : IsHead(d)' => d = utc
         /\ Last(records'[utc]).json = Parses => Last(records'[utc]) = line
<1> DEFINE old == records[utc]
           new == records'[utc]
           n == Len(old)
           m == Len(new)
<1>1. /\ utc \in Days /\ utc \in Int /\ \A d \in Days : d \in Int
      /\ old \in Seq(Lines) /\ new \in Seq(Lines) /\ n \in Nat
  BY DEF TypeOK, Days
<1>2. /\ \A d \in Days : HasLines(d) => d <= utc
      /\ \A d \in Days : records'[d] # <<>> => d <= utc
  <2>1. \A d \in Days : HasLines(d) => d <= utc
    BY DEF ChainInv, FilesListed, FilesInPast
  <2>2. ASSUME NEW d \in Days, records'[d] # <<>> PROVE d <= utc
    <3>1. CASE d = utc
      BY <1>1, <3>1
    <3>2. CASE d # utc
      BY <2>1, <2>2, <3>2 DEF HasLines
    <3> QED BY <3>1, <3>2
  <2> QED BY <2>1, <2>2
<1>0. \/ new = Append(old, line)
      \/ /\ old # <<>> /\ m = n /\ new[n].json # Parses
         /\ \A i \in 1..(n - 1) : new[i] = old[i]
  <2>1. CASE OpenEnded(old)
    <3>1. LET f == AppendLine(old, line) IN
          /\ old # <<>> /\ Len(f) = n /\ f[n].json # Parses
          /\ \A i \in 1..(n - 1) : f[i] = old[i]
      BY <1>1, <2>1, AppendLineFacts
    <3> QED BY <3>1
  <2>2. CASE ~ OpenEnded(old)
    BY <1>1, <2>2 DEF AppendLine
  <2> QED BY <2>1, <2>2
<1>3. /\ new # <<>> /\ m \in Nat \ {0} /\ m - 1 <= n /\ \A i \in 1..(m - 1) : new[i] = old[i]
      /\ new[m].json = Parses => m = n + 1 /\ new[m] = line
  <2>1. CASE new = Append(old, line)
    <3>1. /\ Append(old, line) # <<>> /\ Len(Append(old, line)) = n + 1
          /\ Append(old, line)[n + 1] = line
          /\ \A i \in 1..n : Append(old, line)[i] = old[i]
      BY <1>1, AppendProperties
    <3> QED BY <1>1, <2>1, <3>1
  <2>2. CASE /\ old # <<>> /\ m = n /\ new[n].json # Parses
             /\ \A i \in 1..(n - 1) : new[i] = old[i]
    <3>1. n \in Nat \ {0}
      BY <1>1, <2>2, EmptySeq
    <3>2. new # <<>>
      BY <2>2, <3>1, EmptySeq
    <3> QED BY <2>2, <3>1, <3>2
  <2> QED BY <1>0, <2>1, <2>2
<1>5. ASSUME NEW d \in Days, IsHead(d), Last(records[d]).json = Parses
      PROVE  Linked(line, Last(records[d]))
  <2>1. Last(records[d]) \in Lines
    BY <1>5, LastLine DEF TypeOK, IsHead, HasLines
  <2>2. Last(records[d]).seq = seq - 1 /\ record_hash(Last(records[d])) = prev_hash
    BY <1>5 DEF ChainInv, PredecessorIsNextSeqMinusOne
  <2>3. Last(records[d]).seq \in Nat /\ seq \in Nat
    BY <2>1 DEF Lines, TypeOK
  <2> QED BY <2>2, <2>3 DEF Linked, Follows, Continues
<1>6. old # <<>> => IsHead(utc) /\ Last(old) = old[n] /\ n >= 1
  BY <1>1, <1>2, EmptySeq DEF IsHead, HasLines, Last
<1> HIDE DEF old, new, n, m
<1>7. \A i \in 2..m : Linked(new[i], new[i - 1])
  <2> TAKE i \in 2..m
  <2>1. CASE i < m
    <3>1. new[i] = old[i] /\ new[i - 1] = old[i - 1] /\ i \in 2..n
      BY <1>1, <1>3, <2>1
    <3> QED BY <1>1, <3>1 DEF ChainInv, ChainUnbroken, LinkedWithinDays, old, n
  <2>2. CASE i = m /\ new[m].json = Parses
    <3>1. m = n + 1 /\ n >= 1 /\ new[i] = line /\ new[i - 1] = old[n]
      BY <1>1, <1>3, <2>2
    <3>2. old # <<>>
      BY <3>1, <1>1, EmptySeq DEF n
    <3> QED BY <1>1, <1>5, <1>6, <3>1, <3>2 DEF Linked, old
  <2>3. CASE i = m /\ new[m].json # Parses
    BY <2>3 DEF Linked
  <2> QED BY <1>3, <2>1, <2>2, <2>3
<1>8. old # <<>> => new[1].json # Parses \/ new[1] = old[1]
  BY <1>1, <1>3, <1>6
<1>9. old = <<>> => m = 1 /\ (new[1].json = Parses => new[1] = line)
  <2>1. old = <<>> => n = 0
    BY EmptySeq DEF n
  <2> QED BY <1>3, <2>1
<1>10. ASSUME NEW d \in Days, NEW i \in 2..Len(records'[d])
       PROVE  Linked(records'[d][i], records'[d][i - 1])
  <2>1. CASE d = utc
    BY <1>7, <2>1 DEF new, m
  <2>2. CASE d # utc
    BY <2>2 DEF ChainInv, ChainUnbroken, LinkedWithinDays
  <2> QED BY <2>1, <2>2
<1>11. ASSUME NEW d \in Days, NEW e \in Days, d < e, records'[d] # <<>>, records'[e] # <<>>,
              \A c \in Days : d < c /\ c < e => records'[c] = <<>>
       PROVE  Linked(records'[e][1], Last(records'[d]))
  <2>a. e <= utc
    BY <1>2, <1>11
  <2>b. d < e /\ d \in Int /\ e \in Int /\ utc \in Int
    BY <1>1, <1>11
  <2>0. e <= utc /\ d < utc
    BY <2>a, <2>b
  <2>1. e <= utc /\ d < utc /\ records'[d] = records[d] /\ HasLines(d)
    BY <1>1, <1>11, <2>0 DEF HasLines
  <2>2. EmptyBetween(d, e)
    BY <1>1, <1>11, <2>1 DEF EmptyBetween, HasLines
  <2>3. CASE e # utc
    BY <1>1, <1>11, <2>1, <2>2, <2>3 DEF ChainInv, ChainUnbroken, LinkedAcrossDays, HasLines
  <2>4. CASE e = utc /\ old # <<>>
    <3>1. Linked(old[1], Last(records[d]))
      BY <1>1, <1>11, <2>1, <2>2, <2>4 DEF ChainInv, ChainUnbroken, LinkedAcrossDays, HasLines, old
    <3> QED BY <1>8, <2>1, <2>4, <3>1 DEF Linked, new
  <2>5. CASE e = utc /\ old = <<>>
    <3>1. IsHead(d)
      BY <1>1, <1>2, <2>1, <2>2, <2>5 DEF IsHead, EmptyBetween, HasLines, old
    <3> QED BY <1>5, <1>9, <2>1, <2>5, <3>1 DEF Linked, new
  <2> QED BY <2>3, <2>4, <2>5
<1>12. LinkedAcrossDays'
  BY <1>11 DEF LinkedAcrossDays, HasLines, EmptyBetween, Linked, Follows, record_hash
<1>13. ASSUME NEW d \in Days, records'[d] # <<>>, \A c \in Days : c < d => records'[c] = <<>>,
              records'[d][1].json = Parses
       PROVE  records'[d][1].seq = 0 /\ records'[d][1].prev = GENESIS
  <2>1. d <= utc /\ \A c \in Days : c < d => ~ HasLines(c)
    BY <1>1, <1>2, <1>13 DEF HasLines
  <2>2. CASE d # utc
    BY <1>1, <1>13, <2>1, <2>2 DEF ChainInv, ChainUnbroken, StartsAtGenesis, HasLines
  <2>3. CASE d = utc /\ old # <<>>
    <3>1. new[1] = old[1]
      BY <1>8, <1>13, <2>3 DEF new
    <3> QED BY <1>1, <1>13, <2>1, <2>3, <3>1
            DEF ChainInv, ChainUnbroken, StartsAtGenesis, HasLines, old, new
  <2>4. CASE d = utc /\ old = <<>>
    <3>1. \A c \in Days : ~ HasLines(c)
      BY <1>1, <1>2, <2>1, <2>4 DEF HasLines, old
    <3>2. seq = 0 /\ prev_hash = GENESIS
      BY <3>1 DEF ChainInv, FreshMemory
    <3> QED BY <1>9, <1>13, <2>4, <3>2 DEF Continues, new
  <2> QED BY <2>2, <2>3, <2>4
<1>14. StartsAtGenesis'
  BY <1>13 DEF StartsAtGenesis, HasLines
<1>15. FilesListed' /\ FilesInPast'
  <2>1. FilesListed'
    BY DEF ChainInv, FilesListed, HasLines
  <2>2. FilesInPast'
    BY <1>1 DEF ChainInv, FilesInPast
  <2> QED BY <2>1, <2>2
<1>16. HasLines(utc)' /\ \A d \in Days : IsHead(d)' => d = utc
  BY <1>1, <1>2, <1>3 DEF HasLines, IsHead, new
<1>17. Last(new).json = Parses => Last(new) = line
  BY <1>3 DEF Last, m
<1>18. LinkedWithinDays'
  BY <1>10 DEF LinkedWithinDays, Linked, Follows, record_hash
<1> QED BY <1>12, <1>14, <1>15, <1>16, <1>17, <1>18 DEF ChainUnbroken, new

\* Steps that leave the lines alone, and either the memory too or nobody running.
LEMMA ChainFrame ==
  ASSUME TypeOK, ChainInv, records' = records, days' \in {days, days \cup {utc}},
         utc' \in Int, utc' >= utc,
         UNCHANGED <<up, seq, prev_hash>> \/ up' = FALSE
  PROVE  ChainInv'
<1>1. ChainUnbroken'
  BY DEF ChainInv, ChainUnbroken, LinkedWithinDays, LinkedAcrossDays, StartsAtGenesis,
         HasLines, EmptyBetween, Linked, Follows, record_hash
<1>2. FilesListed'
  BY DEF ChainInv, FilesListed, HasLines
<1>3. FilesInPast'
  <2>1. \A d \in days : d \in Int /\ d <= utc
    BY DEF TypeOK, Days, ChainInv, FilesInPast
  <2>2. utc \in Int
    BY DEF TypeOK, Days
  <2> QED BY <2>1, <2>2 DEF FilesInPast
<1>4. PredecessorIsNextSeqMinusOne' /\ FreshMemory'
  <2>1. CASE up' = FALSE
    BY <2>1, Zenon DEF PredecessorIsNextSeqMinusOne, FreshMemory
  <2>2. CASE UNCHANGED <<up, seq, prev_hash>>
    BY <2>2 DEF ChainInv, PredecessorIsNextSeqMinusOne, FreshMemory, IsHead, HasLines, record_hash
  <2> QED BY <2>1, <2>2
<1> QED BY <1>1, <1>2, <1>3, <1>4 DEF ChainInv

\* The head that _resume picks is the last line of the chain.
LEMMA StartKeepsChain ==
  ASSUME TypeOK, TypeOK', ChainInv, UNCHANGED <<utc, days, records>>, Resumes(seq', prev_hash')
  PROVE  ChainInv'
<1>1. ChainUnbroken' /\ FilesListed' /\ FilesInPast'
  BY DEF ChainInv, ChainUnbroken, LinkedWithinDays, LinkedAcrossDays, StartsAtGenesis,
         HasLines, EmptyBetween, Linked, Follows, record_hash, FilesListed, FilesInPast
<1>2. CASE days = {} /\ seq' = 0 /\ prev_hash' = GENESIS
  <2>1. \A d \in Days : ~ HasLines(d)
    BY <1>2 DEF ChainInv, FilesListed
  <2>2. \A d \in Days : ~ IsHead(d)'
    BY <2>1 DEF IsHead, HasLines
  <2> QED BY <1>1, <1>2, <2>2 DEF ChainInv, PredecessorIsNextSeqMinusOne, FreshMemory
<1>3. ASSUME NEW h \in days, LastFile(h), records[h] # <<>>,
             seq' = Last(records[h]).seq + 1, prev_hash' = record_hash(Last(records[h]))
      PROVE  ChainInv'
  <2>1. h \in Days /\ \A d \in Days : d \in Int
    BY DEF TypeOK, Days
  <2>2. \A d \in Days : HasLines(d) => d <= h
    BY <1>3 DEF ChainInv, FilesListed, LastFile
  <2>3. \A d \in Days : IsHead(d)' => d = h
    BY <1>3, <2>1, <2>2 DEF IsHead, HasLines
  <2>4. Last(records[h]).seq \in Nat
    BY <1>3, <2>1, LastLine DEF TypeOK, Lines
  <2>5. PredecessorIsNextSeqMinusOne'
    BY <1>3, <2>3, <2>4 DEF PredecessorIsNextSeqMinusOne, record_hash
  <2>6. FreshMemory'
    BY <1>3, <2>1 DEF FreshMemory, HasLines
  <2> QED BY <1>1, <2>5, <2>6 DEF ChainInv
<1> QED BY <1>2, <1>3 DEF Resumes

LEMMA RecordKeepsChain ==
  ASSUME TypeOK, TypeOK', ChainInv, NEW body \in Bodies, RecordOn(utc, body)
  PROVE  ChainInv'
<1> DEFINE line == NextLine(body)
<1>1. line \in Lines /\ line.json = Parses /\ line.seq = seq /\ line.prev = prev_hash
  BY NextLineType DEF NextLine
<1>2. up /\ UNCHANGED utc /\ seq' = seq + 1 /\ prev_hash' = record_hash(line)
  BY DEF RecordOn, Appending, clock
<1>3. /\ ChainUnbroken' /\ FilesListed' /\ FilesInPast'
      /\ HasLines(utc)' /\ \A d \in Days : IsHead(d)' => d = utc
      /\ Last(records'[utc]).json = Parses => Last(records'[utc]) = line
  BY <1>1, <1>2, RecordFacts, AppendKeepsChain DEF Continues
<1>4. PredecessorIsNextSeqMinusOne'
  <2>1. line.seq = seq' - 1
    BY <1>1, <1>2 DEF TypeOK
  <2> HIDE DEF line
  <2> QED BY <1>2, <1>3, <2>1 DEF PredecessorIsNextSeqMinusOne, record_hash
<1>5. FreshMemory'
  BY <1>3 DEF FreshMemory, TypeOK
<1> QED BY <1>3, <1>4, <1>5 DEF ChainInv

\* A failed append leaves no whole line; a crash may, but then nobody is running.
LEMMA FailedRecordKeepsChain ==
  ASSUME TypeOK, TypeOK', ChainInv, "whole" \notin ErrorOutcomes,
         NEW body \in Bodies, RecordFails(body) \/ RecordCrashes(body)
  PROVE  ChainInv'
<1> DEFINE line == NextLine(body)
           t == [line EXCEPT !.json = Torn]
<1>1. /\ \/ RecordInterrupted(utc, body, ErrorOutcomes) /\ UNCHANGED up
         \/ RecordInterrupted(utc, body, CrashOutcomes) /\ up' = FALSE
      /\ up /\ UNCHANGED <<utc, seq, prev_hash>>
  BY DEF RecordFails, RecordCrashes, RecordInterrupted, Appending, clock
<1>2. PICK outcome \in Outcomes :
        /\ records'[utc] = Interrupted(records[utc], line, outcome)
        /\ outcome = "whole" => up' = FALSE
  BY <1>1, OutcomesAssumption, RecordInterruptedFacts
<1>3. /\ days' = days \cup {utc} /\ records' \in [Days -> Seq(Lines)]
      /\ \A d \in Days \ {utc} : records'[d] = records[d]
  BY <1>1, OutcomesAssumption, RecordInterruptedFacts
<1>4. line \in Lines /\ line.seq = seq /\ line.prev = prev_hash
  BY NextLineType DEF NextLine
<1>5. /\ t \in Lines /\ t.json = Torn
      /\ records'[utc] \in {records[utc], AppendLine(records[utc], t), AppendLine(records[utc], line)}
      /\ outcome # "whole" => records'[utc] \in {records[utc], AppendLine(records[utc], t)}
  BY <1>2, <1>4, InterruptedFacts DEF TypeOK
<1>6. Continues(line) /\ Continues(t) /\ t.json # Parses
  BY <1>4, <1>5, ConstantsOK DEF Continues
<1> HIDE DEF line, t
<1>7. CASE records'[utc] = records[utc]
  <2>1. records' = records
    BY <1>3, <1>7 DEF TypeOK
  <2>2. UNCHANGED <<up, seq, prev_hash>> \/ up' = FALSE
    BY <1>1, Zenon
  <2>3. utc' \in Int /\ utc' >= utc
    BY <1>1 DEF TypeOK, Days
  <2> QED BY <1>3, <2>1, <2>2, <2>3, ChainFrame
<1>8. CASE records'[utc] = AppendLine(records[utc], t)
  <2>1. /\ ChainUnbroken' /\ FilesListed' /\ FilesInPast'
        /\ HasLines(utc)' /\ \A d \in Days : IsHead(d)' => d = utc
        /\ Last(records'[utc]).json = Parses => Last(records'[utc]) = t
    BY <1>1, <1>3, <1>5, <1>6, <1>8, AppendKeepsChain
  <2>2. PredecessorIsNextSeqMinusOne' /\ FreshMemory'
    BY <1>6, <2>1 DEF PredecessorIsNextSeqMinusOne, FreshMemory, TypeOK
  <2> QED BY <2>1, <2>2 DEF ChainInv
<1>9. CASE records'[utc] = AppendLine(records[utc], line) /\ up' = FALSE
  <2>1. ChainUnbroken' /\ FilesListed' /\ FilesInPast'
    BY <1>1, <1>3, <1>4, <1>6, <1>9, AppendKeepsChain
  <2>2. PredecessorIsNextSeqMinusOne' /\ FreshMemory'
    BY <1>9, Zenon DEF PredecessorIsNextSeqMinusOne, FreshMemory
  <2> QED BY <2>1, <2>2 DEF ChainInv
<1> QED BY <1>2, <1>5, <1>7, <1>8, <1>9

LEMMA ChainStep ==
  ASSUME "whole" \notin ErrorOutcomes
  PROVE  TypeOK /\ TypeOK' /\ ChainInv /\ [Next]_vars => ChainInv'
<1> SUFFICES ASSUME TypeOK, TypeOK', ChainInv, [Next]_vars PROVE ChainInv'
  OBVIOUS
<1> USE DEF clock, disk, memory, bounds
<1>0. utc \in Int /\ utc' \in Int
  BY DEF TypeOK, Days
<1>1. ASSUME NEW f \in Farms \cup {NoFarm}, NEW force \in Forced, Start(f, force)
      PROVE  ChainInv'
  BY <1>1, StartKeepsChain DEF Start
<1>2. ASSUME NEW f \in Farms \cup {NoFarm}, NEW force \in Forced,
             StartRefused(f, force) \/ StartCrashes(f, force)
      PROVE  ChainInv'
  <2>1. UNCHANGED <<utc, days, records>>
    BY <1>2 DEF StartRefused, StartCrashes
  <2>3. UNCHANGED <<up, seq, prev_hash>> \/ up' = FALSE
    BY <1>2, Zenon DEF StartRefused, StartCrashes
  <2>4. records' = records /\ days' \in {days, days \cup {utc}} /\ utc' >= utc
    BY <1>0, <2>1
  <2> QED BY <1>0, <2>3, <2>4, ChainFrame, Zenon
<1>3. ASSUME NEW d \in days, SealDay(d) \/ SealRefused(d)
      PROVE  ChainInv'
  <2>1. UNCHANGED <<utc, days, records>>
    BY <1>3 DEF SealDay, SealRefused
  <2>3. UNCHANGED <<up, seq, prev_hash>> \/ up' = FALSE
    BY <1>3, Zenon DEF SealDay, SealRefused
  <2>4. records' = records /\ days' \in {days, days \cup {utc}} /\ utc' >= utc
    BY <1>0, <2>1
  <2> QED BY <1>0, <2>3, <2>4, ChainFrame, Zenon
<1>4. ASSUME NEW d \in days, SealFails(d) \/ SealCrashes(d)
      PROVE  ChainInv'
  <2>1. UNCHANGED <<utc, days, records, seq, prev_hash>>
    BY <1>4 DEF SealFails, SealCrashes, SealInterrupted
  <2>2. UNCHANGED up \/ up' = FALSE
    BY <1>4, Zenon DEF SealFails, SealCrashes
  <2>3. UNCHANGED <<up, seq, prev_hash>> \/ up' = FALSE
    BY <2>1, <2>2, Zenon
  <2>4. records' = records /\ days' \in {days, days \cup {utc}} /\ utc' >= utc
    BY <1>0, <2>1
  <2> QED BY <1>0, <2>3, <2>4, ChainFrame, Zenon
<1>5. CASE SealPending
  BY <1>0, <1>5, ChainFrame DEF SealPending
<1>6. CASE Stop
  <2>1. UNCHANGED <<utc, days, records>>
    BY <1>6, Zenon DEF Stop
  <2>3. UNCHANGED <<up, seq, prev_hash>> \/ up' = FALSE
    BY <1>6, Zenon DEF Stop
  <2>4. records' = records /\ days' \in {days, days \cup {utc}} /\ utc' >= utc
    BY <1>0, <2>1
  <2> QED BY <1>0, <2>3, <2>4, ChainFrame, Zenon
<1>7. CASE Midnight
  <2>1. utc' >= utc
    BY <1>0, <1>7 DEF Midnight
  <2> QED BY <1>0, <1>7, <2>1, ChainFrame DEF Midnight
<1>8. ASSUME NEW body \in Bodies, Record(body)
      PROVE  ChainInv'
  BY <1>8, RecordKeepsChain DEF Record
<1>9. ASSUME NEW body \in Bodies, RecordFails(body) \/ RecordCrashes(body)
      PROVE  ChainInv'
  BY <1>9, FailedRecordKeepsChain
<1>10. CASE UNCHANGED vars
  BY <1>0, <1>10, ChainFrame DEF vars
<1> QED BY <1>1, <1>2, <1>3, <1>4, <1>5, <1>6, <1>7, <1>8, <1>9, <1>10 DEF Next, LedgerNext

LEMMA ChainInit == Init => ChainInv
<1> SUFFICES ASSUME Init PROVE ChainInv
  OBVIOUS
<1>1. \A d \in Days : records[d] = <<>>
  BY DEF Init
<1>2. \A d \in Days : ~ HasLines(d) /\ Len(records[d]) = 0
  BY <1>1, EmptySeq DEF HasLines
<1>3. ChainUnbroken
  BY <1>2 DEF ChainUnbroken, LinkedWithinDays, LinkedAcrossDays, StartsAtGenesis
<1>4. PredecessorIsNextSeqMinusOne
  BY <1>2 DEF PredecessorIsNextSeqMinusOne, IsHead
<1> QED BY <1>2, <1>3, <1>4 DEF Init, ChainInv, FilesListed, FilesInPast, FreshMemory

\* As long as an append that raises has left no whole line behind, the parsable
\* lines on disk form one chain from genesis, through every failed append, crash,
\* stop and restart (verify_chain accepts them).
THEOREM ChainNeverForks ==
  ASSUME "whole" \notin ErrorOutcomes
  PROVE  Spec => []ChainUnbroken
<1>1. TypeOK /\ TypeOK' /\ ChainInv /\ [Next]_vars => ChainInv'
  BY ChainStep
<1>2. ChainInv => ChainUnbroken
  BY DEF ChainInv
<1> QED BY <1>1, <1>2, ChainInit, TypeCorrect, PTL DEF Spec

\* Under the same condition the memory of the process never falls behind the
\* disk: the record before the next one is always next_seq - 1.
THEOREM MemoryFollowsDisk ==
  ASSUME "whole" \notin ErrorOutcomes
  PROVE  Spec => []PredecessorIsNextSeqMinusOne
<1>1. TypeOK /\ TypeOK' /\ ChainInv /\ [Next]_vars => ChainInv'
  BY ChainStep
<1>2. ChainInv => PredecessorIsNextSeqMinusOne
  BY DEF ChainInv
<1> QED BY <1>1, <1>2, ChainInit, TypeCorrect, PTL DEF Spec

-----------------------------------------------------------------------------
(* Why a day is never sealed after a later one: the days that wait for a   *)
(* seal all lie ahead of those that have one, and seal_pending takes the   *)
(* oldest of them first.                                                   *)

SealedBefore == \A s \in SealedDays : s \in Days /\ s < utc
SealingListed == sealing \subseteq days \ SealedDays
UnsealedAhead == \A d \in days \ SealedDays, s \in SealedDays : s < d
ListedFirst == \A d \in sealing, e \in days \ (SealedDays \cup sealing) : d < e

OrderInv == SealedBefore /\ SealingListed /\ UnsealedAhead /\ ListedFirst

LEMMA SealedDaysAppend ==
  ASSUME TypeOK, NEW s \in Seals, seals' = Append(seals, s)
  PROVE  /\ SealedDays' = SealedDays \cup {s.day}
         /\ Len(seals) \in Nat /\ Len(seals') = Len(seals) + 1
         /\ seals'[Len(seals) + 1] = s /\ \A i \in 1..Len(seals) : seals'[i] = seals[i]
<1>1. /\ Len(seals) \in Nat /\ DOMAIN seals = 1..Len(seals)
      /\ DOMAIN seals' = 1..(Len(seals) + 1) /\ Len(seals') = Len(seals) + 1
      /\ \A i \in 1..Len(seals) : seals'[i] = seals[i]
      /\ seals'[Len(seals) + 1] = s
  <2>1. seals' \in Seq(Seals) /\ Len(seals') = Len(seals) + 1
    BY AppendProperties DEF TypeOK
  <2> QED BY <2>1, AppendProperties, LenProperties DEF TypeOK
<1> QED BY <1>1 DEF SealedDays

\* A day that is over on the local clock is over on the UTC clock.
LEMMA FinishedInPast ==
  ASSUME Skews \subseteq {-1, 0}, TypeOK, NEW d \in Days, Finished(d)
  PROVE  d < utc
<1>1. local \in Int /\ utc \in Int /\ local - utc \in {-1, 0} /\ d \in Int /\ d < local
  BY DEF TypeOK, Days, Finished
<1> QED BY <1>1

\* The order is kept when the files stay and sealing ends.
LEMMA OrderFrame ==
  ASSUME TypeOK, OrderInv, UNCHANGED <<days, seals>>, utc' \in Int, utc' >= utc,
         sealing' \in {sealing, {}}
  PROVE  OrderInv'
<1>1. SealedDays' = SealedDays
  BY DEF SealedDays
<1>2. SealedBefore'
  BY <1>1 DEF OrderInv, SealedBefore, TypeOK, Days
<1>3. SealingListed' /\ UnsealedAhead'
  BY <1>1 DEF OrderInv, SealingListed, UnsealedAhead
<1>4. ListedFirst'
  BY <1>1 DEF OrderInv, ListedFirst
<1> QED BY <1>2, <1>3, <1>4 DEF OrderInv

LEMMA OrderSealed ==
  ASSUME Skews \subseteq {-1, 0}, TypeOK, OrderInv, NEW d \in days, Oldest(d), Finished(d),
         NEW s \in Seals, s.day = d, seals' = Append(seals, s), UNCHANGED <<days, utc>>,
         sealing' \in {sealing \ {d}, {}}
  PROVE  OrderInv'
<1>1. SealedDays' = SealedDays \cup {d}
  BY SealedDaysAppend
<1>2. d \in Days /\ d < utc /\ \A e \in days : e \in Int
  BY FinishedInPast DEF TypeOK, Days
<1>3. SealedBefore'
  BY <1>1, <1>2 DEF OrderInv, SealedBefore
<1>4. SealingListed'
  BY <1>1 DEF OrderInv, SealingListed
<1>5. \A e \in days \ (SealedDays \cup {d}) : d < e
  <2> TAKE e \in days \ (SealedDays \cup {d})
  <2>1. CASE e \in sealing
    BY <1>2, <2>1 DEF Oldest
  <2>2. CASE e \notin sealing
    BY <2>2 DEF OrderInv, ListedFirst, Oldest
  <2> QED BY <2>1, <2>2
<1>6. UnsealedAhead'
  BY <1>1, <1>5 DEF OrderInv, UnsealedAhead
<1>7. ListedFirst'
  <2> SUFFICES ASSUME NEW c \in sealing', NEW e \in days \ (SealedDays' \cup sealing')
               PROVE  c < e
    BY DEF ListedFirst
  <2>1. c \in sealing /\ e \in days \ (SealedDays \cup sealing)
    BY <1>1
  <2> QED BY <2>1 DEF OrderInv, ListedFirst
<1> QED BY <1>3, <1>4, <1>6, <1>7 DEF OrderInv

\* A record goes to the file of a day that lies ahead of every sealed one.
LEMMA OrderRecorded ==
  ASSUME TypeOK, OrderInv, days' = days \cup {utc}, sealing = {}, UNCHANGED <<utc, seals, sealing>>
  PROVE  OrderInv'
<1>1. SealedDays' = SealedDays
  BY DEF SealedDays
<1>2. UnsealedAhead'
  BY <1>1 DEF OrderInv, UnsealedAhead, SealedBefore
<1> QED BY <1>1, <1>2 DEF OrderInv, SealedBefore, SealingListed, ListedFirst

LEMMA OrderStep ==
  ASSUME Skews \subseteq {-1, 0}, TypeOK, OrderInv, [Next]_vars
  PROVE  OrderInv'
<1> USE DEF clock, disk, memory, bounds
<1>0. utc \in Int
  BY DEF TypeOK, Days
<1>1. ASSUME NEW f \in Farms \cup {NoFarm}, NEW force \in Forced,
             Start(f, force) \/ StartRefused(f, force) \/ StartCrashes(f, force)
      PROVE  OrderInv'
  BY <1>0, <1>1, OrderFrame DEF Start, StartRefused, StartCrashes
<1>2. ASSUME NEW d \in days, SealDay(d)
      PROVE  OrderInv'
  <2>1. /\ Sealable(d) /\ seals' = Append(seals, SealOf(d)) /\ SealOf(d) \in Seals
        /\ SealOf(d).day = d
    BY <1>2, SealsGrow, SealOfType DEF SealDay, Outcomes, SealOf
  <2> QED BY <1>2, <2>1, OrderSealed DEF SealDay, Sealable
<1>3. ASSUME NEW d \in days, SealFails(d) \/ SealCrashes(d)
      PROVE  OrderInv'
  <2>1. /\ Sealable(d) /\ Oldest(d) /\ UNCHANGED <<utc, days>> /\ sealing' = {}
        /\ \E outcome \in Outcomes : seals' = Interrupted(seals, SealOf(d), outcome)
    BY <1>3, OutcomesAssumption DEF SealFails, SealCrashes, SealInterrupted
  <2> DEFINE t == [SealOf(d) EXCEPT !.json = Torn]
  <2>2. /\ seals' \in {seals, Append(seals, t), Append(seals, SealOf(d))}
        /\ t \in Seals /\ SealOf(d) \in Seals
    BY <2>1, SealsGrow, SealOfType
  <2>3. t.day = d /\ SealOf(d).day = d
    BY DEF SealOf
  <2>4. CASE seals' = seals
    BY <1>0, <2>1, <2>4, OrderFrame
  <2>5. CASE seals' = Append(seals, t)
    BY <2>1, <2>2, <2>3, <2>5, OrderSealed DEF Sealable
  <2>6. CASE seals' = Append(seals, SealOf(d))
    BY <2>1, <2>2, <2>3, <2>6, OrderSealed DEF Sealable
  <2> QED BY <2>2, <2>4, <2>5, <2>6
<1>4. ASSUME NEW d \in days, SealRefused(d)
      PROVE  OrderInv'
  BY <1>0, <1>4, OrderFrame DEF SealRefused
<1>5. CASE Stop \/ UNCHANGED vars
  BY <1>0, <1>5, OrderFrame DEF Stop, vars
<1>6. CASE SealPending
  <2>1. /\ sealing' = {d \in days : Finished(d) /\ d \notin SealedDays}
        /\ UNCHANGED <<days, seals, utc>>
    BY <1>6 DEF SealPending
  <2>2. SealedDays' = SealedDays
    BY <2>1 DEF SealedDays
  <2>3. \A d \in sealing', e \in days \ (SealedDays \cup sealing') : d < e
    <3> TAKE d \in sealing', e \in days \ (SealedDays \cup sealing')
    <3>1. d < local /\ ~ (e < local) /\ d \in Int /\ e \in Int /\ local \in Int
      BY <2>1 DEF Finished, TypeOK, Days
    <3> QED BY <3>1
  <2> QED BY <2>1, <2>2, <2>3
          DEF OrderInv, SealedBefore, SealingListed, UnsealedAhead, ListedFirst
<1>7. CASE Midnight
  <2>1. utc' \in Int /\ utc' >= utc
    BY <1>0, <1>7 DEF Midnight
  <2> QED BY <1>7, <2>1, OrderFrame DEF Midnight
<1>8. ASSUME NEW body \in Bodies, Record(body) \/ RecordFails(body) \/ RecordCrashes(body)
      PROVE  OrderInv'
  BY <1>8, OrderRecorded
     DEF Record, RecordOn, RecordFails, RecordCrashes, RecordInterrupted, Appending
<1> QED BY <1>1, <1>2, <1>3, <1>4, <1>5, <1>6, <1>7, <1>8 DEF Next, LedgerNext

-----------------------------------------------------------------------------
(* The refinement mapping, step by step.                                   *)

\* A line that lands on a torn one leaves the hashes of the file as they were.
LEMMA LeavesAfterAppend ==
  ASSUME NEW file \in Seq(Lines), NEW line \in Lines
  PROVE  leaves(AppendLine(file, line)) \in {leaves(file), Append(leaves(file), record_hash(line))}
<1> DEFINE n == Len(file)
<1>0. n \in Nat
  BY LenProperties
<1>1. CASE ~ OpenEnded(file)
  <2> DEFINE new == Append(file, line)
             h == [i \in 1..n |-> record_hash(file[i])]
  <2>1. /\ AppendLine(file, line) = new /\ Len(new) = n + 1
        /\ new[n + 1] = line /\ \A i \in 1..n : new[i] = file[i]
    BY <1>1, AppendProperties DEF AppendLine
  <2>2. h \in Seq(Nat) /\ Len(h) = n /\ leaves(file) = h
    BY LeavesType DEF leaves
  <2>3. record_hash(line) \in Nat
    BY DEF record_hash, Lines
  <2>4. leaves(new) \in Seq(Nat) /\ Len(leaves(new)) = n + 1
    BY <2>1, LeavesType, AppendProperties
  <2> DEFINE a == Append(h, record_hash(line))
  <2>5. /\ a \in Seq(Nat) /\ Len(a) = n + 1
        /\ a[n + 1] = record_hash(line) /\ \A i \in 1..n : a[i] = record_hash(file[i])
    BY <2>2, <2>3, AppendProperties
  <2>6. \A i \in 1..(n + 1) : leaves(new)[i] = a[i]
    BY <1>0, <2>1, <2>5 DEF leaves
  <2> HIDE DEF a, h, new
  <2>7. leaves(new) = a
    BY <2>4, <2>5, <2>6, SeqEqual
  <2> QED BY <2>1, <2>2, <2>7 DEF a
<1>2. CASE OpenEnded(file)
  <2> DEFINE new == AppendLine(file, line)
  <2>1. n \in 1..n
    BY <1>0, <1>2, EmptySeq DEF OpenEnded
  <2>2. Len(new) = n /\ \A i \in 1..n : new[i].id = file[i].id
    <3>1. \A i \in 1..n : file[i] \in Lines
      BY ElementOfSeq
    <3> DEFINE mark == IF line.json = Torn THEN Torn ELSE Garbled
    <3>2. new = [file EXCEPT ![n] = [file[n] EXCEPT !.json = mark]]
      BY <1>2 DEF AppendLine
    <3>3. [file[n] EXCEPT !.json = mark].id = file[n].id
      BY <2>1, <3>1 DEF Lines
    <3>4. Len(new) = n
      BY <1>2, AppendLineFacts
    <3> HIDE DEF mark
    <3> QED BY <2>1, <3>2, <3>3, <3>4, LenProperties
  <2> HIDE DEF new
  <2>3. leaves(new) = leaves(file)
    BY <2>2 DEF leaves, record_hash
  <2> QED BY <2>3 DEF new
<1> QED BY <1>1, <1>2

LEMMA IsSequence ==
  ASSUME NEW S, NEW n \in Nat, NEW f \in [1..n -> S]
  PROVE  f \in Seq(S) /\ Len(f) = n
<1>1. f \in Seq(S)
  <2>1. [1..n -> S] \in {[1..m -> S] : m \in Nat}
    OBVIOUS
  <2> QED BY <2>1, SeqDef, Zenon
<1>2. DOMAIN f = 1..n /\ DOMAIN f = 1..Len(f) /\ Len(f) \in Nat
  BY <1>1, LenProperties, Zenon
<1> QED BY <1>1, <1>2

Entry(s) == [day |-> s.day, root |-> s.merkle_root, prev |-> s.prev_seal]
Entries == [day : Nat, root : Seq(Nat), prev : Seq(Seq(Nat))]

LEMMA WrittenFacts ==
  ASSUME TypeOK
  PROVE  /\ SealsWritten \in Nat /\ SealsWritten \in {Len(seals), Len(seals) - 1}
         /\ WrittenSeals \in Seq(Entries) /\ Len(WrittenSeals) = SealsWritten
         /\ \A i \in 1..SealsWritten :
              WrittenSeals[i] = Entry(seals[i]) /\ WrittenSeals[i].day \in SealedDays
<1>1. seals \in Seq(Seals) /\ Len(seals) \in Nat /\ DOMAIN seals = 1..Len(seals)
  BY LenProperties DEF TypeOK
<1>2. SealsWritten \in Nat /\ SealsWritten \in {Len(seals), Len(seals) - 1}
  BY <1>1, EmptySeq DEF SealsWritten, OpenEnded
<1>3. \A i \in 1..SealsWritten : i \in DOMAIN seals /\ seals[i] \in Seals
  <2> TAKE i \in 1..SealsWritten
  <2>1. i \in 1..Len(seals)
    <3> DEFINE n == Len(seals)
               w == SealsWritten
    <3>1. n \in Nat /\ w \in Nat /\ (w = n \/ w = n - 1) /\ i \in 1..w
      BY <1>1, <1>2
    <3> HIDE DEF n, w
    <3>2. i \in 1..n
      BY <3>1
    <3> QED BY <3>2 DEF n
  <2>2. seals[i] \in Seals
    BY <1>1, <2>1, ElementOfSeq
  <2> QED BY <1>1, <2>1, <2>2
<1>4. WrittenSeals \in [1..SealsWritten -> Entries]
  <2>1. \A i \in 1..SealsWritten : Entry(seals[i]) \in Entries
    BY <1>3 DEF Entry, Entries, Seals
  <2> QED BY <2>1, Zenon DEF WrittenSeals, Entry
<1>5. WrittenSeals \in Seq(Entries) /\ Len(WrittenSeals) = SealsWritten
  BY <1>2, <1>4, IsSequence
<1>6. \A i \in 1..SealsWritten :
        WrittenSeals[i] = Entry(seals[i]) /\ WrittenSeals[i].day \in SealedDays
  BY <1>3 DEF WrittenSeals, Entry, SealedDays
<1> QED BY <1>2, <1>5, <1>6

LEMMA NotClosed ==
  ASSUME TypeOK, NEW d \in Days, \A s \in SealedDays : s \in Int /\ s < d
  PROVE  ~ Chain!Closed(d)
<1>1. DOMAIN WrittenSeals = 1..SealsWritten
  BY DEF WrittenSeals
<1>2. \A i \in DOMAIN WrittenSeals : WrittenSeals[i].day \in Int /\ WrittenSeals[i].day < d
  BY <1>1, WrittenFacts
<1> QED BY <1>2 DEF Chain!Closed, Days

\* Whatever part of a line reached the file of the day, the abstract file is as it
\* was or longer by one record.
LEMMA RecordImplements ==
  ASSUME TypeOK, OrderInv, UNCHANGED seals, NEW line \in Lines,
         record_hash(line) \in 1..MaxAppends,
         records' \in [Days -> Seq(Lines)],
         \A d \in Days \ {utc} : records'[d] = records[d],
         records'[utc] \in {records[utc], AppendLine(records[utc], line)}
  PROVE  [Chain!ChainNext]_<<FileHashes, WrittenSeals>>
<1>1. WrittenSeals' = WrittenSeals
  BY DEF WrittenSeals, SealsWritten, OpenEnded
<1>2. utc \in Days /\ records[utc] \in Seq(Lines)
  BY DEF TypeOK
<1>3. \/ leaves(records'[utc]) = leaves(records[utc])
      \/ leaves(records'[utc]) = Append(leaves(records[utc]), record_hash(line))
  BY <1>2, LeavesAfterAppend
<1>4. FileHashes' = [FileHashes EXCEPT ![utc] = leaves(records'[utc])]
  <2>1. FileHashes' = [d \in Days |-> leaves(records'[d])]
    BY DEF FileHashes, leaves, record_hash
  <2>2. \A d \in Days : leaves(records'[d]) = [FileHashes EXCEPT ![utc] = leaves(records'[utc])][d]
    BY DEF FileHashes
  <2> QED BY <2>1, <2>2 DEF FileHashes
<1>5. FileHashes[utc] = leaves(records[utc])
  BY <1>2 DEF FileHashes
<1>6. CASE leaves(records'[utc]) = leaves(records[utc])
  <2>1. FileHashes' = FileHashes
    BY <1>4, <1>5, <1>6 DEF FileHashes
  <2> QED BY <1>1, <2>1
<1>7. CASE leaves(records'[utc]) = Append(leaves(records[utc]), record_hash(line))
  <2>1. ~ Chain!Closed(utc)
    BY <1>2, NotClosed DEF OrderInv, SealedBefore, Days
  <2>2. Chain!Grow(utc, record_hash(line))
    BY <1>1, <1>4, <1>5, <1>7, <2>1 DEF Chain!Grow
  <2> QED BY <1>2, <2>2 DEF Chain!ChainNext
<1> QED BY <1>3, <1>6, <1>7

\* A seal appended after a readable file is one more link of the abstract chain.
LEMMA SealImplements ==
  ASSUME TypeOK, OrderInv, NEW d \in days, d \notin SealedDays, Sealable(d),
         seals' = Append(seals, SealOf(d)), UNCHANGED records
  PROVE  [Chain!ChainNext]_<<FileHashes, WrittenSeals>>
<1>1. /\ d \in Days /\ SealOf(d) \in Seals /\ SealOf(d).json = Parses
      /\ seals \in Seq(Seals) /\ Len(seals) \in Nat
      /\ seals' \in Seq(Seals) /\ Len(seals') = Len(seals) + 1
      /\ seals'[Len(seals) + 1] = SealOf(d) /\ \A i \in 1..Len(seals) : seals'[i] = seals[i]
  BY SealOfType, SealedDaysAppend, AppendProperties, LenProperties DEF TypeOK
<1>2. SealsWritten = Len(seals)
  <2>1. ~ OpenEnded(seals)
    BY <1>1, EmptySeq, LenProperties, ConstantsOK DEF Sealable, Readable, OpenEnded, Last
  <2> QED BY <2>1 DEF SealsWritten
<1>3. SealsWritten' = Len(seals) + 1
  <2>1. ~ OpenEnded(seals')
    BY <1>1, ConstantsOK DEF OpenEnded, Last
  <2> QED BY <1>1, <2>1 DEF SealsWritten, OpenEnded
<1>4. Entry(SealOf(d)) = [day |-> d, root |-> FileHashes[d], prev |-> Chain!Sealed]
  <2>1. /\ SealOf(d).day = d /\ SealOf(d).merkle_root = leaves(records[d])
        /\ SealOf(d).prev_seal = PrevSeal
    BY DEF SealOf
  <2>2. FileHashes[d] = leaves(records[d])
    BY <1>1 DEF FileHashes
  <2>3. Chain!Sealed = PrevSeal
    <3>1. CASE seals = <<>>
      <4>1. WrittenSeals = <<>>
        BY <1>1, <1>2, <3>1, WrittenFacts, EmptySeq
      <4> QED BY <3>1, <4>1 DEF Chain!Sealed, PrevSeal, GENESIS_SEAL
    <3>2. CASE seals # <<>>
      <4>1. Len(seals) \in 1..Len(seals) /\ Len(WrittenSeals) = Len(seals) /\ WrittenSeals # <<>>
        BY <1>1, <1>2, <3>2, WrittenFacts, EmptySeq
      <4>2. WrittenSeals[Len(WrittenSeals)] = Entry(Last(seals))
        BY <1>2, <4>1, WrittenFacts DEF Last
      <4> QED BY <3>2, <4>1, <4>2 DEF Chain!Sealed, PrevSeal, seal_hash, Entry
    <3> QED BY <3>1, <3>2
  <2> QED BY <2>1, <2>2, <2>3 DEF Entry
<1>5. WrittenSeals' = Append(WrittenSeals, Entry(SealOf(d)))
  <2> DEFINE new == [i \in 1..(Len(seals) + 1) |-> Entry(seals'[i])]
             old == WrittenSeals
             e == Entry(SealOf(d))
  <2>1. WrittenSeals' = new
    BY <1>3 DEF WrittenSeals, Entry
  <2>2. e \in Entries
    BY <1>1 DEF Entry, Entries, Seals
  <2>3. \A i \in 1..(Len(seals) + 1) : Entry(seals'[i]) \in Entries
    <3>1. \A i \in 1..(Len(seals) + 1) : seals'[i] \in Seals
      BY <1>1, ElementOfSeq
    <3> QED BY <3>1 DEF Entry, Entries, Seals
  <2>4. new \in Seq(Entries) /\ Len(new) = Len(seals) + 1
    <3>1. new \in [1..(Len(seals) + 1) -> Entries]
      BY <2>3, Zenon
    <3>2. Len(seals) + 1 \in Nat
      BY <1>1
    <3> HIDE DEF new
    <3> QED BY <3>1, <3>2, IsSequence
  <2>5. old \in Seq(Entries) /\ Len(old) = Len(seals)
        /\ \A i \in 1..Len(seals) : old[i] = Entry(seals[i])
    BY <1>2, WrittenFacts
  <2> HIDE DEF old, e
  <2>6. /\ Append(old, e) \in Seq(Entries) /\ Len(Append(old, e)) = Len(seals) + 1
        /\ Append(old, e)[Len(seals) + 1] = e
        /\ \A i \in 1..Len(seals) : Append(old, e)[i] = old[i]
    BY <2>2, <2>5, AppendProperties
  <2>7. \A i \in 1..(Len(seals) + 1) : new[i] = Append(old, e)[i]
    BY <1>1, <2>5, <2>6 DEF e
  <2> HIDE DEF new
  <2>8. new = Append(old, e)
    BY <2>4, <2>6, <2>7, SeqEqual
  <2> QED BY <2>1, <2>8 DEF old, e
<1>6. ~ Chain!Closed(d)
  <2>1. \A s \in SealedDays : s \in Int /\ s < d
    BY DEF OrderInv, UnsealedAhead, SealedBefore, Days
  <2> QED BY <1>1, <2>1, NotClosed
<1>7. FileHashes[d] # <<>>
  <2>1. records[d] \in Seq(Lines) /\ Len(leaves(records[d])) = Len(records[d]) /\ records[d] # <<>>
    BY <1>1, LeavesType DEF TypeOK, Sealable
  <2>2. Len(leaves(records[d])) # 0
    BY <2>1, EmptySeq
  <2> QED BY <1>1, <2>2, EmptySeq DEF FileHashes
<1>8. FileHashes' = FileHashes
  BY DEF FileHashes, leaves, record_hash
<1>9. Chain!Close(d)
  BY <1>4, <1>5, <1>6, <1>7, <1>8 DEF Chain!Close
<1> QED BY <1>1, <1>9 DEF Chain!ChainNext

\* A torn seal is no seal yet.
LEMMA TornSealStutters ==
  ASSUME TypeOK, Readable(seals), NEW t \in Seals, t.json = Torn,
         seals' = Append(seals, t), UNCHANGED records
  PROVE  UNCHANGED <<FileHashes, WrittenSeals>>
<1>1. /\ seals \in Seq(Seals) /\ Len(seals) \in Nat
      /\ seals' \in Seq(Seals) /\ Len(seals') = Len(seals) + 1
      /\ seals'[Len(seals) + 1] = t /\ \A i \in 1..Len(seals) : seals'[i] = seals[i]
  BY SealedDaysAppend, AppendProperties, LenProperties DEF TypeOK
<1>2. ~ OpenEnded(seals)
  BY <1>1, EmptySeq, LenProperties, ConstantsOK DEF Readable, OpenEnded, Last
<1>3. OpenEnded(seals')
  BY <1>1, EmptySeq DEF OpenEnded, Last
<1>4. SealsWritten = Len(seals) /\ SealsWritten' = Len(seals)
  BY <1>1, <1>2, <1>3 DEF SealsWritten, OpenEnded
<1>5. WrittenSeals' = WrittenSeals
  BY <1>1, <1>4 DEF WrittenSeals
<1> QED BY <1>5 DEF FileHashes, leaves, record_hash

LEMMA RecordStepImplements ==
  ASSUME TypeOK, OrderInv, NEW body \in Bodies,
         Record(body) \/ RecordFails(body) \/ RecordCrashes(body)
  PROVE  [Chain!ChainNext]_<<FileHashes, WrittenSeals>>
<1> DEFINE line == NextLine(body)
           t == [line EXCEPT !.json = Torn]
<1>1. /\ \/ Record(body)
         \/ RecordInterrupted(utc, body, ErrorOutcomes)
         \/ RecordInterrupted(utc, body, CrashOutcomes)
      /\ UNCHANGED seals /\ appends < MaxAppends
  BY DEF Record, RecordOn, RecordFails, RecordCrashes, RecordInterrupted, Appending
<1>2. line \in Lines /\ record_hash(line) = appends + 1 /\ appends + 1 \in 1..MaxAppends
  BY <1>1, NextLineType, BoundsAssumption DEF NextLine, record_hash, TypeOK
<1>3. t \in Lines /\ record_hash(t) = record_hash(line)
  BY <1>2 DEF Lines, record_hash
<1>4. /\ records' \in [Days -> Seq(Lines)]
      /\ \A d \in Days \ {utc} : records'[d] = records[d]
      /\ \/ records'[utc] = AppendLine(records[utc], line)
         \/ \E outcome \in Outcomes : records'[utc] = Interrupted(records[utc], line, outcome)
  BY <1>1, OutcomesAssumption, RecordFacts, RecordInterruptedFacts DEF Record
<1>5. records'[utc] \in {records[utc], AppendLine(records[utc], t), AppendLine(records[utc], line)}
  BY <1>2, <1>4, InterruptedFacts DEF TypeOK
<1> HIDE DEF line, t
<1>6. CASE records'[utc] \in {records[utc], AppendLine(records[utc], line)}
  BY <1>1, <1>2, <1>4, <1>6, RecordImplements
<1>7. CASE records'[utc] \in {records[utc], AppendLine(records[utc], t)}
  BY <1>1, <1>2, <1>3, <1>4, <1>7, RecordImplements
<1> QED BY <1>5, <1>6, <1>7

LEMMA SealStepImplements ==
  ASSUME TypeOK, OrderInv, NEW d \in days, SealDay(d) \/ SealFails(d) \/ SealCrashes(d)
  PROVE  [Chain!ChainNext]_<<FileHashes, WrittenSeals>>
<1> DEFINE s == SealOf(d)
           t == [s EXCEPT !.json = Torn]
<1>1. /\ Sealable(d) /\ UNCHANGED records
      /\ \/ seals' = AppendLine(seals, s)
         \/ \E outcome \in Outcomes : seals' = Interrupted(seals, s, outcome)
  BY OutcomesAssumption DEF SealDay, SealFails, SealCrashes, SealInterrupted
<1>2. /\ seals' \in {seals, Append(seals, t), Append(seals, s)}
      /\ t \in Seals /\ t.json = Torn
  BY <1>1, SealsGrow DEF Outcomes
<1>3. d \notin SealedDays /\ Readable(seals)
  BY <1>1 DEF Sealable
<1>4. CASE seals' = Append(seals, s)
  BY <1>1, <1>3, <1>4, SealImplements
<1> HIDE DEF s, t
<1>5. CASE seals' = Append(seals, t)
  BY <1>1, <1>2, <1>3, <1>5, TornSealStutters
<1>6. CASE seals' = seals
  BY <1>1, <1>6 DEF FileHashes, leaves, record_hash, WrittenSeals, SealsWritten, OpenEnded
<1> QED BY <1>2, <1>4, <1>5, <1>6 DEF s, t

LEMMA StepImplements ==
  ASSUME TypeOK, OrderInv, [Next]_vars
  PROVE  [Chain!ChainNext]_<<FileHashes, WrittenSeals>>
<1>1. ASSUME UNCHANGED <<records, seals>>
      PROVE  UNCHANGED <<FileHashes, WrittenSeals>>
  BY <1>1 DEF FileHashes, leaves, record_hash, WrittenSeals, SealsWritten, OpenEnded
<1>2. ASSUME NEW f \in Farms \cup {NoFarm}, NEW force \in Forced,
             Start(f, force) \/ StartRefused(f, force) \/ StartCrashes(f, force)
      PROVE  UNCHANGED <<records, seals>>
  BY <1>2 DEF Start, StartRefused, StartCrashes
<1>3. ASSUME NEW d \in days, SealRefused(d)
      PROVE  UNCHANGED <<records, seals>>
  BY <1>3 DEF SealRefused, disk
<1>4. ASSUME SealPending \/ Stop \/ Midnight \/ UNCHANGED vars
      PROVE  UNCHANGED <<records, seals>>
  BY <1>4 DEF SealPending, Stop, Midnight, vars, disk
<1> QED
  BY <1>1, <1>2, <1>3, <1>4, RecordStepImplements, SealStepImplements DEF Next, LedgerNext

LEMMA OrderInit == Init => OrderInv
<1> SUFFICES ASSUME Init PROVE OrderInv
  OBVIOUS
<1>1. SealedDays = {}
  BY DEF Init, SealedDays
<1> QED BY <1>1 DEF Init, OrderInv, SealedBefore, SealingListed, UnsealedAhead, ListedFirst

LEMMA InitImplements == Init => Chain!ChainInit
<1> SUFFICES ASSUME Init PROVE Chain!ChainInit
  OBVIOUS
<1>1. \A d \in Days : leaves(records[d]) = <<>>
  <2> TAKE d \in Days
  <2>1. records[d] \in Seq(Lines) /\ Len(records[d]) = 0
    BY EmptySeq DEF Init
  <2> QED BY <2>1, LeavesType, EmptySeq
<1>2. FileHashes = [d \in Days |-> <<>>]
  BY <1>1 DEF FileHashes
<1>3. WrittenSeals = <<>>
  <2>1. SealsWritten = 0
    BY EmptySeq DEF Init, SealsWritten, OpenEnded
  <2> QED BY <2>1, WrittenFacts, TypeInit, EmptySeq
<1> QED BY <1>2, <1>3 DEF Chain!ChainInit

\* On a host that is not east of UTC, whatever fails, stops or restarts, the files of
\* the ledger behave as the abstract chain of seals: a day is sealed once, in order and
\* from everything its file holds, and neither it nor an earlier day changes afterwards.
THEOREM LedgerImplementsSealChain ==
  ASSUME Skews \subseteq {-1, 0}
  PROVE  Spec => ImplementsSealChain
<1>1. TypeOK /\ OrderInv /\ [Next]_vars => OrderInv'
  BY OrderStep
<1>2. TypeOK /\ OrderInv /\ [Next]_vars => [Chain!ChainNext]_<<FileHashes, WrittenSeals>>
  BY StepImplements
<1> QED BY <1>1, <1>2, OrderInit, InitImplements, TypeCorrect, PTL
        DEF Spec, ImplementsSealChain, Chain!ChainSpec, Chain!chainVars

-----------------------------------------------------------------------------
(* Why no record is left out between two seals: a seal keeps the bounds of *)
(* its day's file, the last one is of the latest day that has one, and the *)
(* day that is sealed next is the first with records after it.             *)

SealedSpan ==
  \A i \in DOMAIN seals :
    LET file == records[seals[i].day] IN
    seals[i].json = Parses =>
      /\ file # <<>> /\ Readable(file)
      /\ seals[i].first_seq = file[1].seq /\ seals[i].last_seq = Last(file).seq

LatestLast == seals # <<>> => \A s \in SealedDays : s <= Last(seals).day

TileInv == SealsTile /\ SealedSpan /\ LatestLast

LEMMA TileFrame ==
  ASSUME OrderInv, TileInv, UNCHANGED seals, \A d \in Days : d < utc => records'[d] = records[d]
  PROVE  TileInv'
<1>1. SealsTile' /\ LatestLast'
  BY DEF TileInv, SealsTile, SealFollows, seal_hash, LatestLast, SealedDays
<1>2. SealedSpan'
  <2> SUFFICES ASSUME NEW i \in DOMAIN seals, seals[i].json = Parses
               PROVE  LET file == records'[seals[i].day] IN
                      /\ file # <<>> /\ Readable(file)
                      /\ seals[i].first_seq = file[1].seq /\ seals[i].last_seq = Last(file).seq
    BY DEF SealedSpan, Readable
  <2>1. records'[seals[i].day] = records[seals[i].day]
    BY DEF OrderInv, SealedBefore, SealedDays
  <2> QED BY <2>1 DEF TileInv, SealedSpan
<1> QED BY <1>1, <1>2 DEF TileInv

\* The day that is sealed next lies before every other that has no seal.
LEMMA NextToSeal ==
  ASSUME TypeOK, OrderInv, NEW d \in days, Oldest(d), NEW e \in days \ SealedDays
  PROVE  d <= e
<1>1. d \in Int /\ e \in Int
  BY DEF TypeOK, Days
<1>2. CASE e \in sealing
  BY <1>2 DEF Oldest
<1>3. CASE e \notin sealing
  BY <1>1, <1>3 DEF OrderInv, ListedFirst, Oldest
<1> QED BY <1>2, <1>3

\* The first seal begins with record 0.
LEMMA FirstSealTiles ==
  ASSUME TypeOK, ChainInv, OrderInv, NEW d \in days, Oldest(d), Sealable(d), seals = <<>>
  PROVE  SealOf(d).prev_seal = GENESIS_SEAL /\ SealOf(d).first_seq = 0
<1>1. /\ d \in Days /\ records[d] \in Seq(Lines) /\ records[d] # <<>>
      /\ Head(records[d]) = records[d][1] /\ records[d][1].json = Parses
  <2>1. d \in Days /\ records[d] \in Seq(Lines) /\ records[d] # <<>>
    BY DEF TypeOK, Sealable
  <2>2. Head(records[d]) = records[d][1] /\ 1 \in DOMAIN records[d]
    BY <2>1, LastLine, LenProperties
  <2> QED BY <2>1, <2>2 DEF Sealable, Readable
<1>2. ASSUME NEW c \in Days, c < d
      PROVE  ~ HasLines(c)
  <2> SUFFICES ASSUME HasLines(c) PROVE FALSE
    OBVIOUS
  <2>1. c \in days \ SealedDays
    BY DEF ChainInv, FilesListed, SealedDays
  <2>2. d <= c
    BY <2>1, NextToSeal
  <2> QED BY <1>1, <1>2, <2>2 DEF Days
<1>3. records[d][1].seq = 0
  BY <1>1, <1>2 DEF ChainInv, ChainUnbroken, StartsAtGenesis, HasLines
<1> QED BY <1>1, <1>3 DEF SealOf, PrevSeal

\* A later seal begins where the one before it ended.
LEMMA NextSealTiles ==
  ASSUME TypeOK, ChainInv, OrderInv, TileInv, NEW d \in days, Oldest(d), Sealable(d), seals # <<>>
  PROVE  SealFollows(SealOf(d), Last(seals))
<1> DEFINE p == Last(seals)
           c == p.day
<1>1. /\ d \in Days /\ records[d] \in Seq(Lines) /\ records[d] # <<>>
      /\ Head(records[d]) = records[d][1] /\ records[d][1].json = Parses
  <2>1. d \in Days /\ records[d] \in Seq(Lines) /\ records[d] # <<>>
    BY DEF TypeOK, Sealable
  <2>2. Head(records[d]) = records[d][1] /\ 1 \in DOMAIN records[d]
    BY <2>1, LastLine, LenProperties
  <2> QED BY <2>1, <2>2 DEF Sealable, Readable
<1>2. Len(seals) \in DOMAIN seals /\ p = seals[Len(seals)] /\ p.json = Parses
  <2>1. seals \in Seq(Seals) /\ Len(seals) \in DOMAIN seals
    BY EmptySeq, LenProperties DEF TypeOK
  <2> QED BY <2>1 DEF Last, Sealable, Readable
<1>3. c \in SealedDays /\ c \in Days /\ c < d
  BY <1>2 DEF SealedDays, OrderInv, SealedBefore, UnsealedAhead, Sealable
<1>4. /\ records[c] # <<>> /\ Readable(records[c]) /\ p.last_seq = Last(records[c]).seq
      /\ Last(records[c]).json = Parses
  <2>1. records[c] # <<>> /\ Readable(records[c]) /\ p.last_seq = Last(records[c]).seq
    BY <1>2 DEF TileInv, SealedSpan
  <2>2. records[c] \in Seq(Lines)
    BY <1>3 DEF TypeOK
  <2>3. Len(records[c]) \in DOMAIN records[c]
    BY <2>1, <2>2, EmptySeq, LenProperties
  <2> QED BY <2>1, <2>3 DEF Readable, Last
<1>5. EmptyBetween(c, d)
  <2> SUFFICES ASSUME NEW e \in Days, c < e, e < d, HasLines(e) PROVE FALSE
    BY DEF EmptyBetween
  <2>1. e \in days
    BY DEF ChainInv, FilesListed
  <2>2. e \notin SealedDays
    BY <1>3 DEF TileInv, LatestLast, Days
  <2>3. d <= e
    BY <2>1, <2>2, NextToSeal
  <2> QED BY <1>1, <2>3 DEF Days
<1>6. Follows(records[d][1], Last(records[c]))
  BY <1>1, <1>3, <1>4, <1>5
     DEF ChainInv, ChainUnbroken, LinkedAcrossDays, HasLines, Linked
<1>7. /\ SealOf(d).prev_seal = seal_hash(p) /\ SealOf(d).day = d
      /\ SealOf(d).first_seq = records[d][1].seq
  BY <1>1 DEF SealOf, PrevSeal
<1> QED BY <1>3, <1>4, <1>6, <1>7 DEF SealFollows, Follows, Days

LEMMA TileSealed ==
  ASSUME TypeOK, ChainInv, OrderInv, TileInv, NEW d \in days, Oldest(d), Sealable(d),
         NEW s \in Seals, s.day = d, s.json # Parses \/ s = SealOf(d),
         seals' = Append(seals, s), UNCHANGED records
  PROVE  TileInv'
<1> DEFINE n == Len(seals)
<1>1. /\ n \in Nat /\ DOMAIN seals = 1..n /\ DOMAIN seals' = 1..(n + 1)
      /\ seals'[n + 1] = s /\ \A i \in 1..n : seals'[i] = seals[i]
      /\ Len(seals') = n + 1 /\ seals' # <<>>
      /\ SealedDays' = SealedDays \cup {d}
  <2>1. seals' \in Seq(Seals) /\ Len(seals') = n + 1
    BY AppendProperties DEF TypeOK
  <2> QED BY <2>1, SealedDaysAppend, AppendProperties, LenProperties, EmptySeq DEF TypeOK
<1> HIDE DEF n
<1>2. SealedSpan'
  <2> SUFFICES ASSUME NEW i \in 1..(n + 1), seals'[i].json = Parses
               PROVE  LET file == records[seals'[i].day] IN
                      /\ file # <<>> /\ Readable(file)
                      /\ seals'[i].first_seq = file[1].seq /\ seals'[i].last_seq = Last(file).seq
    BY <1>1 DEF SealedSpan, Readable
  <2>1. CASE i \in 1..n
    BY <1>1, <2>1 DEF TileInv, SealedSpan
  <2>2. CASE i = n + 1
    <3>1. seals'[i] = SealOf(d)
      BY <1>1, <2>2
    <3>2. records[d] \in Seq(Lines) /\ records[d] # <<>> /\ Head(records[d]) = records[d][1]
      BY LastLine DEF TypeOK, Sealable
    <3>3. /\ SealOf(d).day = d /\ SealOf(d).first_seq = records[d][1].seq
          /\ SealOf(d).last_seq = Last(records[d]).seq
      BY <3>2 DEF SealOf
    <3> QED BY <3>1, <3>2, <3>3 DEF Sealable
  <2> QED BY <1>1, <2>1, <2>2
<1>3. LatestLast'
  <2>1. Last(seals') = s
    BY <1>1 DEF Last
  <2>2. \A e \in SealedDays : e < d /\ e \in Int
    BY DEF OrderInv, UnsealedAhead, SealedBefore, Sealable, Days
  <2>3. d \in Int
    BY DEF TypeOK, Days
  <2> QED BY <1>1, <2>1, <2>2, <2>3 DEF LatestLast
<1>4. SealsTile'
  <2> SUFFICES ASSUME NEW i \in 1..(n + 1), seals'[i].json = Parses
               PROVE  IF i = 1
                      THEN seals'[i].prev_seal = GENESIS_SEAL /\ seals'[i].first_seq = 0
                      ELSE SealFollows(seals'[i], seals'[i - 1])
    BY <1>1, Zenon DEF SealsTile, SealFollows, seal_hash
  <2>1. CASE i \in 1..n
    <3>1. seals'[i] = seals[i] /\ (i # 1 => seals'[i - 1] = seals[i - 1])
      BY <1>1, <2>1
    <3> QED BY <1>1, <2>1, <3>1 DEF TileInv, SealsTile
  <2>2. CASE i = n + 1
    <3>1. seals'[i] = SealOf(d)
      BY <1>1, <2>2
    <3>2. CASE n = 0
      <4>1. seals = <<>>
        BY <3>2, EmptySeq DEF TypeOK, n
      <4> QED BY <2>2, <3>1, <3>2, <4>1, FirstSealTiles
    <3>3. CASE n # 0
      <4>1. seals # <<>> /\ seals'[i - 1] = Last(seals) /\ i # 1
        <5>1. seals # <<>>
          BY <3>3, EmptySeq DEF TypeOK, n
        <5>2. i - 1 = n /\ n \in 1..n
          BY <1>1, <2>2, <3>3
        <5> QED BY <1>1, <5>1, <5>2, <3>3 DEF Last, n
      <4> QED BY <3>1, <4>1, NextSealTiles
    <3> QED BY <3>2, <3>3
  <2> QED BY <1>1, <2>1, <2>2
<1> QED BY <1>2, <1>3, <1>4 DEF TileInv

LEMMA TileStep ==
  ASSUME TypeOK, ChainInv, OrderInv, TileInv, [Next]_vars
  PROVE  TileInv'
<1> USE DEF clock, disk, memory, bounds
<1>1. ASSUME UNCHANGED <<records, seals>>
      PROVE  TileInv'
  BY <1>1, TileFrame
<1>2. ASSUME NEW f \in Farms \cup {NoFarm}, NEW force \in Forced,
             Start(f, force) \/ StartRefused(f, force) \/ StartCrashes(f, force)
      PROVE  TileInv'
  BY <1>1, <1>2 DEF Start, StartRefused, StartCrashes
<1>3. ASSUME NEW d \in days, SealDay(d) \/ SealFails(d) \/ SealCrashes(d)
      PROVE  TileInv'
  <2>1. /\ Sealable(d) /\ Oldest(d) /\ UNCHANGED records
        /\ \/ seals' = AppendLine(seals, SealOf(d))
           \/ \E outcome \in Outcomes : seals' = Interrupted(seals, SealOf(d), outcome)
    BY <1>3, OutcomesAssumption DEF SealDay, SealFails, SealCrashes, SealInterrupted
  <2> DEFINE t == [SealOf(d) EXCEPT !.json = Torn]
  <2>2. /\ seals' \in {seals, Append(seals, t), Append(seals, SealOf(d))}
        /\ t \in Seals /\ t.json # Parses /\ SealOf(d) \in Seals
    BY <2>1, SealsGrow, SealOfType, ConstantsOK DEF Outcomes
  <2>3. t.day = d /\ SealOf(d).day = d
    BY DEF SealOf
  <2>4. CASE seals' = seals
    BY <1>1, <2>1, <2>4
  <2>5. CASE seals' = Append(seals, t)
    BY <2>1, <2>2, <2>3, <2>5, TileSealed
  <2>6. CASE seals' = Append(seals, SealOf(d))
    BY <2>1, <2>2, <2>3, <2>6, TileSealed
  <2> QED BY <2>2, <2>4, <2>5, <2>6
<1>4. ASSUME NEW d \in days, SealRefused(d)
      PROVE  TileInv'
  BY <1>1, <1>4 DEF SealRefused
<1>5. CASE SealPending \/ Stop \/ Midnight \/ UNCHANGED vars
  BY <1>1, <1>5 DEF SealPending, Stop, Midnight, vars
<1>6. ASSUME NEW body \in Bodies, Record(body) \/ RecordFails(body) \/ RecordCrashes(body)
      PROVE  TileInv'
  <2>1. UNCHANGED seals /\ \A d \in Days \ {utc} : records'[d] = records[d]
    <3>1. CASE Record(body)
      BY <3>1, RecordFacts DEF Record, RecordOn
    <3>2. CASE RecordFails(body) \/ RecordCrashes(body)
      <4>1. \/ RecordInterrupted(utc, body, ErrorOutcomes)
            \/ RecordInterrupted(utc, body, CrashOutcomes)
        BY <3>2 DEF RecordFails, RecordCrashes
      <4> QED BY <4>1, RecordInterruptedFacts, OutcomesAssumption DEF RecordInterrupted
    <3> QED BY <1>6, <3>1, <3>2
  <2>2. \A d \in Days : d < utc => records'[d] = records[d]
    BY <2>1 DEF Days, TypeOK
  <2> QED BY <2>1, <2>2, TileFrame
<1> QED BY <1>2, <1>3, <1>4, <1>5, <1>6 DEF Next, LedgerNext

\* On a host that is not east of UTC, as long as an append that raises has left no whole
\* line behind, the seals tile the ledger: each begins with the record after the last one
\* sealed, and the first with record 0 (verify_seal_chain).
THEOREM SealsLeaveNoGap ==
  ASSUME Skews \subseteq {-1, 0}, "whole" \notin ErrorOutcomes
  PROVE  Spec => []SealsTile
<1>1. TypeOK /\ TypeOK' /\ ChainInv /\ [Next]_vars => ChainInv'
  BY ChainStep
<1>2. TypeOK /\ OrderInv /\ [Next]_vars => OrderInv'
  BY OrderStep
<1>3. TypeOK /\ ChainInv /\ OrderInv /\ TileInv /\ [Next]_vars => TileInv'
  BY TileStep
<1>4. Init => TileInv
  BY DEF Init, TileInv, SealsTile, SealedSpan, LatestLast
<1>5. TileInv => SealsTile
  BY DEF TileInv
<1> QED BY <1>1, <1>2, <1>3, <1>4, <1>5, ChainInit, OrderInit, TypeCorrect, PTL DEF Spec

-----------------------------------------------------------------------------
(* The rule a day was sealed under is the one the activation entry gives   *)
(* it, whoever opens the ledger afterwards and whatever day is forced.     *)

\* What makes RuleInForce inductive: a process only runs on an entry of its own farm,
\* or on none.
RunsForItsFarm ==
  up => \/ activation.file = "absent"
        \/ activation.file = "valid" /\ activation.farm_id = farm

RuleInv == RuleInForce /\ RunsForItsFarm

LEMMA RuleFrame ==
  ASSUME RuleInv, UNCHANGED <<seals, activation>>, UNCHANGED <<up, farm>> \/ up' = FALSE
  PROVE  RuleInv'
<1>1. RuleInForce'
  BY DEF RuleInv, RuleInForce, seal_rule_for
<1>2. RunsForItsFarm'
  BY DEF RuleInv, RunsForItsFarm
<1> QED BY <1>1, <1>2 DEF RuleInv

\* A new entry leaves the rule of every day that is already sealed as it was.
LEMMA RuleActivated ==
  ASSUME TypeOK, RuleInv, NEW f \in Farms \cup {NoFarm}, NEW force \in Forced,
         NEW file \in {"valid", "torn"}, WritesActivation(f, force),
         activation' = NewActivation(f, force, file), UNCHANGED seals
  PROVE  RuleInForce'
<1> SUFFICES ASSUME NEW i \in DOMAIN seals, seals[i].json = Parses
             PROVE  /\ seals[i].rule = seal_rule_for(seals[i].day, activation')
                    /\ seals[i].rule = SEAL_RULE_FARM_BOUND => seals[i].farm_id = activation'.farm_id
  BY DEF RuleInForce, seal_rule_for
<1>1. seals[i].rule = SEAL_RULE_LEGACY
  BY DEF RuleInv, RuleInForce, WritesActivation, seal_rule_for
<1>2. ~ (seals[i].day >= activation'.from_day)
  <2>1. seals[i].day \in SealedDays /\ FromDay(force) > seals[i].day
    BY DEF SealedDays, WritesActivation
  <2>2. seals[i].day \in Int
    <3>1. i \in 1..Len(seals) /\ seals \in Seq(Seals)
      BY LenProperties DEF TypeOK
    <3>2. seals[i] \in Seals
      BY <3>1, ElementOfSeq
    <3> QED BY <3>2 DEF Seals
  <2>3. FromDay(force) \in Int /\ activation'.from_day = FromDay(force)
    BY ForcedAssumption DEF FromDay, NewActivation, TypeOK
  <2> QED BY <2>1, <2>2, <2>3
<1>3. SEAL_RULE_LEGACY # SEAL_RULE_FARM_BOUND
  BY DEF SEAL_RULE_LEGACY, SEAL_RULE_FARM_BOUND
<1> QED BY <1>1, <1>2, <1>3 DEF seal_rule_for

\* A seal is signed under the entry its process opened the ledger with.
LEMMA RuleSealed ==
  ASSUME TypeOK, RuleInv, up, NEW d \in days, Sealable(d),
         NEW s \in Seals, s.json # Parses \/ s = SealOf(d),
         seals' = Append(seals, s), UNCHANGED <<activation, farm>>
  PROVE  RuleInv'
<1>1. /\ Len(seals) \in Nat /\ DOMAIN seals = 1..Len(seals)
      /\ DOMAIN seals' = 1..(Len(seals) + 1)
      /\ \A i \in 1..Len(seals) : seals'[i] = seals[i]
      /\ seals'[Len(seals) + 1] = s
  <2>1. seals' \in Seq(Seals) /\ Len(seals') = Len(seals) + 1
    BY AppendProperties DEF TypeOK
  <2> QED BY <2>1, AppendProperties, LenProperties DEF TypeOK
<1>2. SealOf(d).rule = SEAL_RULE_FARM_BOUND => activation.file = "valid" /\ SealOf(d).farm_id = farm
  BY DEF SealOf, seal_rule_for, SEAL_RULE_LEGACY, SEAL_RULE_FARM_BOUND
<1>3. /\ SealOf(d).rule = seal_rule_for(SealOf(d).day, activation)
      /\ SealOf(d).rule = SEAL_RULE_FARM_BOUND => SealOf(d).farm_id = activation.farm_id
  <2>1. SealOf(d).rule = seal_rule_for(SealOf(d).day, activation)
    BY DEF SealOf
  <2> QED BY <1>2, <2>1 DEF RuleInv, RunsForItsFarm
<1>4. RuleInForce'
  <2> SUFFICES ASSUME activation.file # "torn", NEW i \in DOMAIN seals', seals'[i].json = Parses
               PROVE  /\ seals'[i].rule = seal_rule_for(seals'[i].day, activation)
                      /\ seals'[i].rule = SEAL_RULE_FARM_BOUND
                           => seals'[i].farm_id = activation.farm_id
    BY DEF RuleInForce, seal_rule_for
  <2>1. CASE i \in 1..Len(seals)
    BY <1>1, <2>1 DEF RuleInv, RuleInForce
  <2>2. CASE i = Len(seals) + 1
    BY <1>1, <1>3, <2>2
  <2> QED BY <1>1, <2>1, <2>2
<1>5. RunsForItsFarm'
  BY DEF RuleInv, RunsForItsFarm
<1> QED BY <1>4, <1>5 DEF RuleInv

LEMMA RuleStep == TypeOK /\ RuleInv /\ [Next]_vars => RuleInv'
<1> SUFFICES ASSUME TypeOK, RuleInv, [Next]_vars PROVE RuleInv'
  OBVIOUS
<1> USE DEF clock, disk, memory, bounds
<1>1. ASSUME NEW f \in Farms \cup {NoFarm}, NEW force \in Forced, Start(f, force)
      PROVE  RuleInv'
  <2>1. UNCHANGED seals /\ up' /\ farm' = f
    BY <1>1 DEF Start
  <2>2. CASE KeepsActivation(f, force) /\ UNCHANGED activation
    <3>1. RuleInForce'
      BY <2>1, <2>2 DEF RuleInv, RuleInForce, seal_rule_for
    <3>2. RunsForItsFarm'
      BY <2>1, <2>2 DEF RunsForItsFarm, KeepsActivation
    <3> QED BY <3>1, <3>2 DEF RuleInv
  <2>3. CASE WritesActivation(f, force) /\ activation' = NewActivation(f, force, "valid")
    <3>1. RuleInForce'
      BY <2>1, <2>3, RuleActivated
    <3>2. RunsForItsFarm'
      BY <2>1, <2>3 DEF RunsForItsFarm, NewActivation
    <3> QED BY <3>1, <3>2 DEF RuleInv
  <2> QED BY <1>1, <2>2, <2>3 DEF Start, load_or_write_activation
<1>2. ASSUME NEW f \in Farms \cup {NoFarm}, NEW force \in Forced,
             StartRefused(f, force) \/ StartCrashes(f, force)
      PROVE  RuleInv'
  <2>1. /\ ~ up /\ up' = up /\ UNCHANGED seals /\ WritesActivation(f, force)
        /\ \E file \in {"valid", "torn"} : activation' = NewActivation(f, force, file)
    BY <1>2 DEF StartRefused, StartCrashes
  <2>2. RuleInForce'
    BY <2>1, RuleActivated
  <2>3. RunsForItsFarm'
    BY <2>1 DEF RunsForItsFarm
  <2> QED BY <2>2, <2>3 DEF RuleInv
<1>3. ASSUME NEW d \in days, SealDay(d)
      PROVE  RuleInv'
  <2>1. /\ up /\ Sealable(d) /\ seals' = Append(seals, SealOf(d)) /\ SealOf(d) \in Seals
        /\ UNCHANGED <<activation, up, farm>>
    BY <1>3, SealsGrow, SealOfType DEF SealDay, Outcomes
  <2> QED BY <2>1, RuleSealed
<1>4. ASSUME NEW d \in days, SealFails(d) \/ SealCrashes(d)
      PROVE  RuleInv'
  <2>1. /\ up /\ Sealable(d) /\ UNCHANGED <<activation, farm>>
        /\ \E outcome \in Outcomes : seals' = Interrupted(seals, SealOf(d), outcome)
    BY <1>4, OutcomesAssumption DEF SealFails, SealCrashes, SealInterrupted
  <2>a. UNCHANGED up \/ up' = FALSE
    BY <1>4, Zenon DEF SealFails, SealCrashes
  <2> DEFINE t == [SealOf(d) EXCEPT !.json = Torn]
  <2>2. /\ seals' \in {seals, Append(seals, t), Append(seals, SealOf(d))}
        /\ t \in Seals /\ t.json # Parses /\ SealOf(d) \in Seals
    BY <2>1, SealsGrow, SealOfType, ConstantsOK
  <2> HIDE DEF t
  <2>3. CASE seals' = seals
    <3>1. UNCHANGED <<seals, activation>> /\ (UNCHANGED <<up, farm>> \/ up' = FALSE)
      BY <2>1, <2>a, <2>3, Zenon
    <3> QED BY <3>1, RuleFrame
  <2>4. CASE seals' = Append(seals, t)
    BY <2>1, <2>2, <2>4, RuleSealed
  <2>5. CASE seals' = Append(seals, SealOf(d))
    BY <2>1, <2>2, <2>5, RuleSealed
  <2> QED BY <2>2, <2>3, <2>4, <2>5
<1>5. ASSUME \/ \E d \in days : SealRefused(d)
             \/ SealPending \/ Stop \/ Midnight \/ UNCHANGED vars
             \/ \E body \in Bodies : Record(body) \/ RecordFails(body) \/ RecordCrashes(body)
      PROVE  RuleInv'
  <2>1. UNCHANGED <<seals, activation, farm>>
    BY <1>5 DEF SealRefused, SealPending, Stop, Midnight, vars, Record, RecordOn,
                RecordFails, RecordCrashes, RecordInterrupted
  <2>2. UNCHANGED up \/ up' = FALSE
    BY <1>5, Zenon DEF SealRefused, SealPending, Stop, Midnight, vars, Record, RecordOn,
                       RecordFails, RecordCrashes
  <2>3. UNCHANGED <<up, farm>> \/ up' = FALSE
    BY <2>1, <2>2, Zenon
  <2> QED BY <2>1, <2>3, RuleFrame
<1> QED BY <1>1, <1>2, <1>3, <1>4, <1>5 DEF Next, LedgerNext

\* Whatever farms open the ledger, whatever day is forced and wherever the activation
\* is interrupted, every seal is under the rule, and for the farm, that the activation
\* entry on disk names for its day: activating never changes what is already sealed.
THEOREM RuleNeverMoves == Spec => []RuleInForce
<1>1. Init => RuleInv
  <2> SUFFICES ASSUME Init PROVE RuleInv
    OBVIOUS
  <2>1. DOMAIN seals = {} /\ up = FALSE
    BY EmptySeq DEF Init
  <2>2. RuleInForce
    BY <2>1 DEF RuleInForce
  <2>3. RunsForItsFarm
    BY <2>1 DEF RunsForItsFarm
  <2> QED BY <2>2, <2>3 DEF RuleInv
<1>2. RuleInv => RuleInForce
  BY DEF RuleInv
<1> QED BY <1>1, <1>2, RuleStep, TypeCorrect, PTL DEF Spec
=============================================================================
