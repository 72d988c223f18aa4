--------------------------- MODULE SealRaceProofs ---------------------------
(***************************************************************************)
(* What the writers of one ledger directory keep, for any number of them,  *)
(* of days and of records.                                                 *)
(***************************************************************************)
EXTENDS SealRaceProperties, FiniteSetTheorems, SequenceTheorems, TLAPS

RecordIds == 1..MaxRecords
Roots == Seq(RecordIds)
Chains == Seq(Roots)
Seals == [day : Days, root : Roots, prev : Chains]
Places == {"idle", "polling", "listed", "sealing", "rooted", "chained"}

RaceTypeOK ==
  /\ today \in Days /\ when \in Days
  /\ files \in [Days -> Roots] /\ seals \in Seq(Seals)
  /\ pc \in [Processes -> Places] /\ pending \in [Processes -> SUBSET Days]
  /\ root \in [Processes -> Roots] /\ prev \in [Processes -> Chains]
  /\ written \in 0..MaxRecords /\ (pc[Agent] = "polling" => written < MaxRecords)

LEMMA ConstantFacts ==
  /\ Days \subseteq Nat /\ 0 \in Days /\ IsFiniteSet(Processes) /\ Agent \in Processes
  /\ MaxRecords \in Nat /\ \A n \in 0..MaxRecords : n < MaxRecords => n + 1 \in RecordIds
<1>1. IsFiniteSet({Agent})
  BY FS_Singleton
<1>2. IsFiniteSet(Processes)
  BY <1>1, FS_Union, AgentAssumption DEF Processes
<1> QED BY <1>2, BoundsAssumption DEF Days, Processes, RecordIds

LEMMA RaceTypeInit == Init => RaceTypeOK
<1> SUFFICES ASSUME Init PROVE RaceTypeOK
  OBVIOUS
<1>1. <<>> \in Roots /\ <<>> \in Chains /\ <<>> \in Seq(Seals)
  BY DEF Roots, Chains
<1>2. today = 0 /\ when = 0 /\ written = 0 /\ seals = <<>>
  BY DEF Init
<1>3. files \in [Days -> Roots] /\ root \in [Processes -> Roots] /\ prev \in [Processes -> Chains]
  BY <1>1 DEF Init
<1>4. /\ pc \in [Processes -> Places] /\ pending \in [Processes -> SUBSET Days]
      /\ pc[Agent] # "polling"
  BY ConstantFacts DEF Init, Places
<1> QED BY <1>1, <1>2, <1>3, <1>4, ConstantFacts DEF RaceTypeOK

\* The chain up to the last seal, and the seals after one more.
LEMMA SealFacts ==
  ASSUME RaceTypeOK
  PROVE  /\ ChainHead \in Chains
         /\ \A i \in DOMAIN seals : seals[i] \in Seals
         /\ DOMAIN seals = 1..Len(seals) /\ Len(seals) \in Nat
<1>1. seals \in Seq(Seals) /\ DOMAIN seals = 1..Len(seals) /\ Len(seals) \in Nat
  BY DEF RaceTypeOK
<1>2. \A i \in DOMAIN seals : seals[i] \in Seals
  BY <1>1
<1>3. CASE seals = <<>>
  BY <1>1, <1>2, <1>3 DEF ChainHead, Chains
<1>4. CASE seals # <<>>
  <2>1. seals[Len(seals)] \in Seals
    BY <1>1, <1>2, <1>4
  <2>2. seals[Len(seals)].prev \in Seq(Roots) /\ seals[Len(seals)].root \in Roots
    BY <2>1 DEF Seals, Chains
  <2>3. Append(seals[Len(seals)].prev, seals[Len(seals)].root) \in Seq(Roots)
    BY <2>2, AppendProperties
  <2> QED BY <1>1, <1>2, <1>4, <2>3 DEF ChainHead, Chains
<1> QED BY <1>1, <1>2, <1>3, <1>4

LEMMA AppendSealFacts ==
  ASSUME RaceTypeOK, NEW p \in Processes, NEW d \in pending[p], AppendSeal(p, d)
  PROVE  /\ seals' \in Seq(Seals) /\ DOMAIN seals' = 1..(Len(seals) + 1)
         /\ \A i \in DOMAIN seals : i \in DOMAIN seals' /\ seals'[i] = seals[i]
         /\ seals'[Len(seals) + 1] = [day |-> d, root |-> root[p], prev |-> prev[p]]
<1> DEFINE seal == [day |-> d, root |-> root[p], prev |-> prev[p]]
<1>1. seal \in Seals
  BY DEF RaceTypeOK, Seals
<1> HIDE DEF seal
<1>2. seals \in Seq(Seals) /\ seals' = Append(seals, seal)
  BY DEF RaceTypeOK, AppendSeal, seal
<1>3. seals' \in Seq(Seals) /\ Len(seals') = Len(seals) + 1
  BY <1>1, <1>2, AppendProperties
<1>4. \A i \in 1..Len(seals) : seals'[i] = seals[i]
  BY <1>1, <1>2, AppendProperties
<1>5. seals'[Len(seals) + 1] = seal
  BY <1>1, <1>2, AppendProperties
<1>6. Len(seals) \in Nat /\ DOMAIN seals = 1..Len(seals) /\ DOMAIN seals' = 1..Len(seals')
  BY <1>2, <1>3
<1> QED BY <1>3, <1>4, <1>5, <1>6 DEF seal

\* A step of one process, with the place it is at afterwards.
LEMMA PlaceFrame ==
  ASSUME RaceTypeOK, NEW p \in Processes, NEW here \in Places, pc' = [pc EXCEPT ![p] = here]
  PROVE  /\ pc' \in [Processes -> Places] /\ pc'[p] = here
         /\ \A q \in Processes \ {p} : pc'[q] = pc[q]
BY DEF RaceTypeOK

LEMMA RaceTypeStep == RaceTypeOK /\ [Next]_vars => RaceTypeOK'
<1> SUFFICES ASSUME RaceTypeOK, [Next]_vars PROVE RaceTypeOK'
  OBVIOUS
<1> USE ConstantFacts
<1>1. CASE ReadTime
  BY <1>1, PlaceFrame DEF ReadTime, At, RaceTypeOK, Places
<1>2. CASE WriteRecord
  <2>1. pc[Agent] = "polling" /\ written + 1 \in RecordIds /\ written + 1 \in 0..MaxRecords
    BY <1>2 DEF WriteRecord, At, RaceTypeOK
  <2>2. Append(files[when], written + 1) \in Roots
    BY <2>1 DEF RaceTypeOK, Roots
  <2>3. files' \in [Days -> Roots]
    BY <1>2, <2>2 DEF WriteRecord, RaceTypeOK
  <2> QED BY <1>2, <2>1, <2>3, PlaceFrame DEF WriteRecord, At, RaceTypeOK, Places
<1>3. CASE Midnight
  BY <1>3, BoundsAssumption DEF Midnight, RaceTypeOK, Days
<1>4. ASSUME NEW p \in Processes, ListPending(p) PROVE RaceTypeOK'
  <2>1. pending' \in [Processes -> SUBSET Days]
    BY <1>4 DEF ListPending, RaceTypeOK
  <2> QED BY <1>4, <2>1, PlaceFrame DEF ListPending, At, RaceTypeOK, Places
<1>5. ASSUME NEW p \in Processes, ReadLastSeal(p) PROVE RaceTypeOK'
  <2>1. prev' \in [Processes -> Chains]
    BY <1>5, SealFacts DEF ReadLastSeal, RaceTypeOK
  <2> QED BY <1>5, <2>1, PlaceFrame DEF ReadLastSeal, At, RaceTypeOK, Places
<1>6. ASSUME NEW p \in Processes, Ends(p) PROVE RaceTypeOK'
  <2>1. pending' \in [Processes -> SUBSET Days]
    BY <1>6 DEF Ends, RaceTypeOK
  <2> QED BY <1>6, <2>1, PlaceFrame DEF Ends, RaceTypeOK, Places
<1>7. ASSUME NEW p \in Processes, NEW d \in pending[p], AlreadySealed(p, d) PROVE RaceTypeOK'
  <2>1. pending' \in [Processes -> SUBSET Days]
    BY <1>7 DEF AlreadySealed, RaceTypeOK
  <2> QED BY <1>7, <2>1 DEF AlreadySealed, RaceTypeOK
<1>8. ASSUME NEW p \in Processes, NEW d \in pending[p], NotSealedYet(p, d) PROVE RaceTypeOK'
  BY <1>8, PlaceFrame DEF NotSealedYet, At, RaceTypeOK, Places
<1>9. ASSUME NEW p \in Processes, NEW d \in pending[p], ReadRecords(p, d) PROVE RaceTypeOK'
  <2>1. root' \in [Processes -> Roots]
    BY <1>9 DEF ReadRecords, RaceTypeOK
  <2> QED BY <1>9, <2>1, PlaceFrame DEF ReadRecords, At, RaceTypeOK, Places
<1>10. ASSUME NEW p \in Processes, NEW d \in pending[p], AppendSeal(p, d) PROVE RaceTypeOK'
  <2>1. pending' \in [Processes -> SUBSET Days] /\ seals' \in Seq(Seals)
    BY <1>10, AppendSealFacts DEF AppendSeal, RaceTypeOK
  <2> QED BY <1>10, <2>1, PlaceFrame DEF AppendSeal, At, RaceTypeOK, Places
<1>11. CASE UNCHANGED vars
  BY <1>11 DEF vars, RaceTypeOK
<1> QED BY <1>1, <1>2, <1>3, <1>4, <1>5, <1>6, <1>7, <1>8, <1>9, <1>10, <1>11 DEF Next, Step

-----------------------------------------------------------------------------
\* The poll that read the time on a day and has not written its record.
Writing(d) == pc[Agent] = "polling" /\ when = d

\* What a seal, or a process about to write one, has of the file of a day.
Signs(d, signed) ==
  /\ SubSeq(files[d], 1, Len(signed)) = signed
  /\ Len(files[d]) \in {Len(signed), Len(signed) + 1}
  /\ Len(files[d]) = Len(signed) + 1 => ~ Writing(d)

OverInv ==
  /\ when <= today
  /\ \A i \in DOMAIN seals : seals[i].day < today /\ Signs(seals[i].day, seals[i].root)
  /\ \A p \in Processes : \A d \in pending[p] : d < today
  /\ \A p \in Processes : \A d \in pending[p] :
       pc[p] \in {"rooted", "chained"} /\ Oldest(p, d) => Signs(d, root[p])

\* A day that is over has room for the poll under way, and for no other.
LEMMA SignsStays ==
  ASSUME RaceTypeOK, NEW d \in Days, d < today, NEW signed \in Roots, Signs(d, signed), [Next]_vars
  PROVE  Signs(d, signed)'
<1> USE ConstantFacts
<1>1. files[d] \in Roots /\ Len(files[d]) \in Nat /\ Len(signed) \in Nat
  BY DEF RaceTypeOK, Roots
<1>2. CASE WriteRecord /\ when = d
  <2>1. Writing(d) /\ Len(files[d]) = Len(signed)
    BY <1>1, <1>2 DEF WriteRecord, At, Writing, Signs
  <2>2. PICK id \in RecordIds : files' = [files EXCEPT ![d] = Append(files[d], id)]
    BY <1>2 DEF WriteRecord, At, RaceTypeOK
  <2>3. files'[d] = Append(files[d], id)
    BY <2>2 DEF RaceTypeOK
  <2>4. Len(files'[d]) = Len(signed) + 1 /\ SubSeq(files'[d], 1, Len(signed)) = files[d]
    BY <1>1, <2>1, <2>3 DEF Roots
  <2>5. SubSeq(files[d], 1, Len(signed)) = files[d]
    BY <1>1, <2>1 DEF Roots
  <2>6. ~ Writing(d)'
    BY <1>2, PlaceFrame DEF WriteRecord, At, Writing, Places
  <2> QED BY <2>4, <2>5, <2>6 DEF Signs
<1>3. CASE ~ (WriteRecord /\ when = d)
  <2>1. files'[d] = files[d]
    BY <1>3 DEF Next, Step, vars, ReadTime, WriteRecord, Midnight, ListPending, ReadLastSeal, Ends,
                AlreadySealed, NotSealedYet, ReadRecords, AppendSeal, RaceTypeOK
  <2>2. Writing(d)' => Writing(d)
    <3>1. CASE ReadTime
      BY <3>1 DEF ReadTime, Writing, RaceTypeOK
    <3>2. CASE WriteRecord \/ Midnight \/ UNCHANGED vars
      BY <3>2, PlaceFrame DEF WriteRecord, Midnight, At, Writing, vars, Places
    <3>3. ASSUME NEW p \in Processes, NEW here \in Places \ {"polling"},
                 pc' = [pc EXCEPT ![p] = here], when' = when
          PROVE  Writing(d)' => Writing(d)
      BY <3>3, PlaceFrame DEF Writing
    <3>4. ASSUME NEW p \in Processes, ListPending(p) \/ ReadLastSeal(p) \/ Ends(p)
          PROVE  Writing(d)' => Writing(d)
      BY <3>3, <3>4 DEF ListPending, ReadLastSeal, Ends, At, Places
    <3>5. ASSUME NEW p \in Processes, NEW e \in pending[p], AlreadySealed(p, e)
          PROVE  Writing(d)' => Writing(d)
      BY <3>5 DEF AlreadySealed, Writing
    <3>6. ASSUME NEW p \in Processes, NEW e \in pending[p],
                 NotSealedYet(p, e) \/ ReadRecords(p, e) \/ AppendSeal(p, e)
          PROVE  Writing(d)' => Writing(d)
      BY <3>3, <3>6 DEF NotSealedYet, ReadRecords, AppendSeal, At, Places
    <3> QED BY <3>1, <3>2, <3>4, <3>5, <3>6 DEF Next, Step
  <2> QED BY <2>1, <2>2 DEF Signs
<1> QED BY <1>2, <1>3

LEMMA OverInit == Init => OverInv
<1> SUFFICES ASSUME Init PROVE OverInv
  OBVIOUS
<1>1. when = 0 /\ today = 0 /\ DOMAIN seals = {} /\ \A p \in Processes : pending[p] = {}
  BY DEF Init
<1> QED BY <1>1 DEF OverInv

LEMMA TodayStays ==
  ASSUME RaceTypeOK, [Next]_vars
  PROVE  today' >= today /\ today \in Nat /\ today' \in Nat
<1>1. today \in Nat /\ today' \in Nat
  BY RaceTypeStep, ConstantFacts DEF RaceTypeOK
<1>2. today' = today \/ today' = today + 1
  BY DEF Next, Step, vars, ReadTime, WriteRecord, Midnight, ListPending, ReadLastSeal, Ends,
         AlreadySealed, NotSealedYet, ReadRecords, AppendSeal
<1> QED BY <1>1, <1>2

LEMMA SealsStay ==
  ASSUME RaceTypeOK, [Next]_vars
  PROVE  /\ \A i \in DOMAIN seals : i \in DOMAIN seals' /\ seals'[i] = seals[i]
         /\ \/ seals' = seals
            \/ \E p \in Processes : \E d \in pending[p] : AppendSeal(p, d)
<1>1. seals' = seals \/ \E p \in Processes : \E d \in pending[p] : AppendSeal(p, d)
  BY DEF Next, Step, vars, ReadTime, WriteRecord, Midnight, ListPending, ReadLastSeal, Ends,
         AlreadySealed, NotSealedYet, ReadRecords
<1> QED BY <1>1, AppendSealFacts

LEMMA OverStep == RaceTypeOK /\ OverInv /\ [Next]_vars => OverInv'
<1> SUFFICES ASSUME RaceTypeOK, OverInv, [Next]_vars PROVE OverInv'
  OBVIOUS
<1>1. today' >= today /\ today \in Nat /\ today' \in Nat /\ when \in Nat
  BY TodayStays, ConstantFacts DEF RaceTypeOK
<1>2. when' <= today'
  <2>1. when' = when \/ when' = today
    BY DEF Next, Step, vars, ReadTime, WriteRecord, Midnight, ListPending, ReadLastSeal, Ends,
           AlreadySealed, NotSealedYet, ReadRecords, AppendSeal
  <2> QED BY <1>1, <2>1 DEF OverInv
<1>3. \A p \in Processes : pending[p] \subseteq Days
  BY DEF RaceTypeOK
<1>4. \A p \in Processes : \A d \in pending'[p] : d \in Nat /\ d < today'
  <2>1. ASSUME NEW p \in Processes, NEW q \in Processes, ListPending(q), NEW d \in pending'[p]
        PROVE  d \in Nat /\ d < today
    BY <1>3, <2>1, ConstantFacts DEF ListPending, OverInv, RaceTypeOK
  <2>2. (\A p \in Processes : ~ ListPending(p)) => \A p \in Processes : pending'[p] \subseteq pending[p]
    BY DEF Next, Step, vars, ReadTime, WriteRecord, Midnight, ReadLastSeal, Ends,
           AlreadySealed, NotSealedYet, ReadRecords, AppendSeal, RaceTypeOK
  <2>3. \A p \in Processes : \A d \in pending[p] : d \in Nat /\ d < today
    BY <1>3, ConstantFacts DEF OverInv
  <2> QED BY <1>1, <2>1, <2>2, <2>3
<1>5. ASSUME NEW i \in DOMAIN seals' PROVE (seals[i].day < today /\ Signs(seals[i].day, seals[i].root))'
  <2>1. CASE i \in DOMAIN seals
    <3>1. /\ seals[i] \in Seals /\ seals[i].day \in Days /\ seals[i].root \in Roots
          /\ seals[i].day < today /\ Signs(seals[i].day, seals[i].root) /\ seals'[i] = seals[i]
      BY <2>1, SealFacts, SealsStay DEF OverInv, Seals
    <3>2. PICK d \in Days, signed \in Roots : d = seals[i].day /\ signed = seals[i].root
      BY <3>1
    <3>3. Signs(d, signed)'
      BY <3>1, <3>2, SignsStays
    <3> QED BY <1>1, <3>1, <3>2, <3>3, ConstantFacts DEF Signs
  <2>2. ASSUME NEW p \in Processes, NEW d \in pending[p], AppendSeal(p, d), i \notin DOMAIN seals
        PROVE  (seals[i].day < today /\ Signs(seals[i].day, seals[i].root))'
    <3>0. i = Len(seals) + 1
      <4>1. i \in 1..(Len(seals) + 1) /\ i \notin 1..Len(seals) /\ Len(seals) \in Nat
        BY <2>2, AppendSealFacts, SealFacts
      <4> QED BY <4>1
    <3>1. seals'[i].day = d /\ seals'[i].root = root[p]
      <4>1. seals'[i] = [day |-> d, root |-> root[p], prev |-> prev[p]]
        BY <2>2, <3>0, AppendSealFacts
      <4> QED BY <4>1
    <3>2. Signs(d, root[p]) /\ d \in Days /\ d < today
      BY <1>3, <2>2 DEF OverInv, AppendSeal, At
    <3>3. PICK signed \in Roots : signed = root[p]
      BY DEF RaceTypeOK
    <3>4. Signs(d, signed)'
      BY <3>2, <3>3, SignsStays
    <3> QED BY <1>1, <3>1, <3>2, <3>3, <3>4, ConstantFacts DEF Signs
  <2> QED BY <2>1, <2>2, SealsStay
<1>6. ASSUME NEW p \in Processes, NEW d \in pending'[p], pc'[p] \in {"rooted", "chained"}, Oldest(p, d)'
      PROVE  Signs(d, root[p])'
  <2>1. ASSUME NEW e \in pending[p], ReadRecords(p, e) PROVE Signs(d, root[p])'
    <3>1. d = e
      <4>1. pending' = pending /\ Oldest(p, e)
        BY <2>1 DEF ReadRecords
      <4>2. d \in Nat /\ e \in Nat /\ d <= e /\ e <= d
        BY <1>3, <1>6, <4>1, ConstantFacts DEF Oldest
      <4> QED BY <4>2
    <3>2. root'[p] = files[d] /\ files'[d] = files[d] /\ files[d] \in Seq(RecordIds)
      BY <1>3, <2>1, <3>1 DEF ReadRecords, RaceTypeOK, Roots
    <3>3. SubSeq(files[d], 1, Len(files[d])) = files[d] /\ Len(files[d]) # Len(files[d]) + 1
      BY <3>2
    <3> QED BY <3>2, <3>3 DEF Signs
  <2>2. CASE \A e \in pending[p] : ~ ReadRecords(p, e)
    <3>1. /\ pc[p] \in {"rooted", "chained"} /\ pending'[p] = pending[p] /\ root'[p] = root[p]
      <4>1. CASE UNCHANGED vars \/ ReadTime \/ WriteRecord \/ Midnight
        BY <1>6, <4>1, ConstantFacts, PlaceFrame DEF vars, ReadTime, WriteRecord, Midnight, At, Places
      <4>2. ASSUME NEW q \in Processes, ListPending(q) \/ Ends(q)
            PROVE  /\ pc[p] \in {"rooted", "chained"} /\ pending'[p] = pending[p] /\ root'[p] = root[p]
        BY <1>6, <4>2, PlaceFrame DEF ListPending, Ends, At, RaceTypeOK, Places
      <4>3. ASSUME NEW q \in Processes, ReadLastSeal(q)
            PROVE  /\ pc[p] \in {"rooted", "chained"} /\ pending'[p] = pending[p] /\ root'[p] = root[p]
        BY <1>6, <4>3, PlaceFrame DEF ReadLastSeal, At, Places
      <4>4. ASSUME NEW q \in Processes, NEW e \in pending[q], AlreadySealed(q, e)
            PROVE  /\ pc[p] \in {"rooted", "chained"} /\ pending'[p] = pending[p] /\ root'[p] = root[p]
        BY <1>6, <4>4 DEF AlreadySealed, RaceTypeOK
      <4>5. ASSUME NEW q \in Processes, NEW e \in pending[q], NotSealedYet(q, e) \/ AppendSeal(q, e)
            PROVE  /\ pc[p] \in {"rooted", "chained"} /\ pending'[p] = pending[p] /\ root'[p] = root[p]
        BY <1>6, <4>5, PlaceFrame DEF NotSealedYet, AppendSeal, At, RaceTypeOK, Places
      <4>6. ASSUME NEW q \in Processes, NEW e \in pending[q], ReadRecords(q, e)
            PROVE  /\ pc[p] \in {"rooted", "chained"} /\ pending'[p] = pending[p] /\ root'[p] = root[p]
        <5>1. q # p
          BY <2>2, <4>6
        <5> QED BY <1>6, <4>6, <5>1, PlaceFrame DEF ReadRecords, At, RaceTypeOK, Places
      <4> QED BY <4>1, <4>2, <4>3, <4>4, <4>5, <4>6 DEF Next, Step
    <3>2. Signs(d, root[p]) /\ d \in Days /\ d < today
      BY <1>3, <1>6, <3>1 DEF OverInv, Oldest
    <3>3. PICK signed \in Roots : signed = root[p]
      BY DEF RaceTypeOK
    <3>4. Signs(d, signed)'
      BY <3>2, <3>3, SignsStays
    <3> QED BY <3>1, <3>3, <3>4 DEF Signs
  <2> QED BY <2>1, <2>2
<1> QED BY <1>2, <1>4, <1>5, <1>6 DEF OverInv

LEMMA RaceInvariant == Spec => [](RaceTypeOK /\ OverInv)
BY RaceTypeInit, RaceTypeStep, OverInit, OverStep, PTL DEF Spec

\* Whatever processes seal beside the agent, and however many: a seal signs the beginning
\* of its day's file and misses at most one record of it.
THEOREM OnePollIsMissed == Spec => []SealMissesOnePoll
<1>1. RaceTypeOK /\ OverInv => SealMissesOnePoll
  <2> SUFFICES ASSUME RaceTypeOK, OverInv, NEW i \in DOMAIN seals
               PROVE  LET file == files[seals[i].day]
                          signed == Len(seals[i].root) IN
                      Len(file) <= signed + 1 /\ SubSeq(file, 1, signed) = seals[i].root
    BY DEF SealMissesOnePoll
  <2>1. Signs(seals[i].day, seals[i].root) /\ seals[i] \in Seals
    BY SealFacts DEF OverInv
  <2>2. Len(seals[i].root) \in Nat
    BY <2>1 DEF Seals, Roots
  <2> QED BY <2>1, <2>2 DEF Signs
<1> QED BY <1>1, RaceInvariant, PTL

-----------------------------------------------------------------------------
\* The processes that found a day without a seal and have not appended theirs.
Committed(d) ==
  {p \in Processes : pc[p] \in {"sealing", "rooted", "chained"} /\ d \in pending[p] /\ Oldest(p, d)}

\* Every seal has its author, and no process has sealed a day that it has sealed before
\* or has found without a seal.
AuthorInv ==
  /\ authors \in Seq(Processes) /\ Len(authors) = Len(seals)
  /\ OneSealPerProcess
  /\ \A d \in Days : \A p \in Committed(d) :
       \A i \in DOMAIN seals : authors[i] = p => seals[i].day # d

\* No process commits itself to a day but after it looked for the day's seal.
LEMMA CommittedShrinks ==
  ASSUME RaceTypeOK, NEW d \in Days, [Next]_vars,
         \A p \in Processes : \A e \in pending[p] : NotSealedYet(p, e) => e # d
  PROVE  Committed(d)' \subseteq Committed(d)
<1> SUFFICES ASSUME NEW p \in Processes, pc'[p] \in {"sealing", "rooted", "chained"},
                    d \in pending'[p], Oldest(p, d)'
             PROVE  p \in Committed(d)
  BY DEF Committed
<1> USE ConstantFacts
<1>1. /\ Oldest(p, d) => d \in pending[p]
      /\ pending'[p] = pending[p] => Oldest(p, d)
  BY DEF Oldest
<1>2. CASE UNCHANGED vars \/ ReadTime \/ WriteRecord \/ Midnight
  BY <1>1, <1>2, PlaceFrame DEF vars, ReadTime, WriteRecord, Midnight, At, Places, Committed
<1>3. ASSUME NEW q \in Processes, ListPending(q) \/ Ends(q) PROVE p \in Committed(d)
  BY <1>1, <1>3, PlaceFrame DEF ListPending, Ends, At, RaceTypeOK, Places, Committed
<1>4. ASSUME NEW q \in Processes, ReadLastSeal(q) PROVE p \in Committed(d)
  BY <1>1, <1>4, PlaceFrame DEF ReadLastSeal, At, Places, Committed
<1>5. ASSUME NEW q \in Processes, NEW e \in pending[q], AlreadySealed(q, e) PROVE p \in Committed(d)
  BY <1>1, <1>5 DEF AlreadySealed, RaceTypeOK, Committed
<1>6. ASSUME NEW q \in Processes, NEW e \in pending[q], NotSealedYet(q, e) PROVE p \in Committed(d)
  <2>1. pending' = pending /\ Oldest(q, e) /\ e # d /\ pending[q] \subseteq Nat
    BY <1>6 DEF NotSealedYet, RaceTypeOK
  <2>2. q # p
    <3>1. q = p => d <= e /\ e <= d /\ d \in Nat /\ e \in Nat
      BY <1>1, <2>1 DEF Oldest
    <3> QED BY <2>1, <3>1
  <2> QED BY <1>1, <1>6, <2>1, <2>2, PlaceFrame DEF NotSealedYet, At, Places, Committed
<1>7. ASSUME NEW q \in Processes, NEW e \in pending[q], AppendSeal(q, e) PROVE p \in Committed(d)
  <2>1. q # p
    BY <1>7, PlaceFrame DEF AppendSeal, At, Places
  <2> QED BY <1>1, <1>7, <2>1, PlaceFrame DEF AppendSeal, At, RaceTypeOK, Places, Committed
<1>8. ASSUME NEW q \in Processes, NEW e \in pending[q], ReadRecords(q, e) PROVE p \in Committed(d)
  BY <1>1, <1>8, PlaceFrame DEF ReadRecords, At, Places, Committed
<1> QED BY <1>2, <1>3, <1>4, <1>5, <1>6, <1>7, <1>8 DEF Next, Step

LEMMA AppendAuthor ==
  ASSUME RaceTypeOK, AuthorInv, NEW p \in Processes, NEW d \in pending[p], AppendSeal(p, d)
  PROVE  /\ authors' \in Seq(Processes) /\ Len(authors') = Len(seals') /\ p \in Committed(d)
         /\ authors'[Len(seals) + 1] = p /\ seals'[Len(seals) + 1].day = d
         /\ \A i \in DOMAIN seals : authors'[i] = authors[i] /\ seals'[i] = seals[i]
         /\ DOMAIN seals' = DOMAIN seals \cup {Len(seals) + 1}
<1>1. /\ authors \in Seq(Processes) /\ Len(authors) = Len(seals) /\ authors' = Append(authors, p)
  BY DEF AuthorInv, AppendSeal
<1>2. /\ authors' \in Seq(Processes) /\ Len(authors') = Len(authors) + 1
      /\ authors'[Len(authors) + 1] = p /\ \A i \in 1..Len(authors) : authors'[i] = authors[i]
  BY <1>1, AppendProperties
<1>3. /\ seals' \in Seq(Seals) /\ DOMAIN seals' = 1..(Len(seals) + 1)
      /\ DOMAIN seals = 1..Len(seals) /\ Len(seals) \in Nat
      /\ \A i \in DOMAIN seals : seals'[i] = seals[i]
      /\ seals'[Len(seals) + 1] = [day |-> d, root |-> root[p], prev |-> prev[p]]
  BY AppendSealFacts, SealFacts
<1>4. Len(seals') = Len(seals) + 1 /\ DOMAIN seals' = DOMAIN seals \cup {Len(seals) + 1}
  BY <1>3
<1>5. p \in Committed(d)
  BY DEF AppendSeal, At, Committed
<1> QED BY <1>1, <1>2, <1>3, <1>4, <1>5

LEMMA AuthorStep == RaceTypeOK /\ AuthorInv /\ [Next]_vars => AuthorInv'
<1> SUFFICES ASSUME RaceTypeOK, AuthorInv, [Next]_vars PROVE AuthorInv'
  OBVIOUS
<1>1. \A d \in Days : \A p \in Committed(d) :
        \A i \in DOMAIN seals : authors[i] = p => seals[i].day # d
  BY DEF AuthorInv
<1>2. ASSUME NEW p \in Processes, NEW e \in pending[p], AppendSeal(p, e) PROVE AuthorInv'
  <2> DEFINE n == Len(seals) + 1
  <2>1. /\ authors' \in Seq(Processes) /\ Len(authors') = Len(seals') /\ p \in Committed(e)
        /\ authors'[n] = p /\ seals'[n].day = e /\ DOMAIN seals' = DOMAIN seals \cup {n}
        /\ \A i \in DOMAIN seals : authors'[i] = authors[i] /\ seals'[i] = seals[i]
    BY <1>2, AppendAuthor
  <2> HIDE DEF n
  <2>2. e \in Days
    BY <1>2 DEF RaceTypeOK
  <2>3. \A i \in DOMAIN seals : authors[i] = p => seals[i].day # e
    BY <1>1, <2>1, <2>2
  <2>4. OneSealPerProcess'
    BY <2>1, <2>3 DEF OneSealPerProcess, AuthorInv
  <2>5. ASSUME NEW d \in Days PROVE Committed(d)' \subseteq Committed(d) \ {p}
    <3>1. ~ \E q \in Processes : \E x \in pending[q] : NotSealedYet(q, x)
      <4>1. DOMAIN seals' = 1..(Len(seals) + 1) /\ DOMAIN seals = 1..Len(seals) /\ Len(seals) \in Nat
        BY <1>2, AppendSealFacts, SealFacts
      <4>2. Len(seals) + 1 \in DOMAIN seals' /\ Len(seals) + 1 \notin DOMAIN seals
        BY <4>1
      <4>3. seals' # seals
        BY <4>2
      <4> QED BY <4>3 DEF NotSealedYet
    <3>2. Committed(d)' \subseteq Committed(d)
      BY <3>1, CommittedShrinks
    <3>3. p \notin Committed(d)'
      BY <1>2, PlaceFrame DEF AppendSeal, At, Places, Committed
    <3> QED BY <3>2, <3>3
  <2>6. ASSUME NEW d \in Days, NEW q \in Committed(d)', NEW i \in DOMAIN seals', authors'[i] = q
        PROVE  seals'[i].day # d
    <3>1. q \in Committed(d) /\ q # p
      BY <2>5, <2>6
    <3>2. i \in DOMAIN seals /\ authors[i] = q /\ seals'[i] = seals[i]
      BY <2>1, <2>6, <3>1
    <3> QED BY <1>1, <3>1, <3>2
  <2> QED BY <2>1, <2>4, <2>6 DEF AuthorInv
<1>3. CASE ~ \E p \in Processes : \E e \in pending[p] : AppendSeal(p, e)
  <2>1. seals' = seals /\ authors' = authors
    BY <1>3 DEF Next, Step, vars, ReadTime, WriteRecord, Midnight, ListPending, ReadLastSeal, Ends,
                AlreadySealed, NotSealedYet, ReadRecords
  <2>2. OneSealPerProcess'
    BY <2>1 DEF AuthorInv, OneSealPerProcess
  <2>3. ASSUME NEW d \in Days, NEW p \in Committed(d)', NEW i \in DOMAIN seals, authors[i] = p
        PROVE  seals[i].day # d
    <3>1. CASE \E q \in Processes : \E e \in pending[q] : NotSealedYet(q, e) /\ e = d
      BY <3>1 DEF NotSealedYet, SealedDays
    <3>2. CASE \A q \in Processes : \A e \in pending[q] : NotSealedYet(q, e) => e # d
      BY <1>1, <2>3, <3>2, CommittedShrinks
    <3> QED BY <3>1, <3>2
  <2> QED BY <2>1, <2>2, <2>3 DEF AuthorInv
<1> QED BY <1>2, <1>3

\* No process appends two seals of one day, for any number of processes, of days and of
\* calls, however the calls overlap.
THEOREM NoProcessSealsTwice == Spec => []OneSealPerProcess
<1>1. Init => AuthorInv
  <2> SUFFICES ASSUME Init PROVE AuthorInv
    OBVIOUS
  <2>1. authors = <<>> /\ seals = <<>> /\ \A d \in Days : Committed(d) = {}
    BY DEF Init, Committed
  <2>2. authors \in Seq(Processes) /\ DOMAIN seals = {} /\ Len(authors) = Len(seals)
    BY <2>1
  <2> QED BY <2>1, <2>2 DEF AuthorInv, OneSealPerProcess
<1>2. AuthorInv => OneSealPerProcess
  BY DEF AuthorInv
<1> QED BY <1>1, <1>2, AuthorStep, RaceInvariant, PTL DEF Spec

-----------------------------------------------------------------------------
\* A day that has records and no seal.
Unsealed(d) == files[d] # <<>> /\ d \notin SealedDays

After(d) == \A i \in DOMAIN seals : seals[i].day < d

\* A process that seals alone has listed every such day but those that are later.
SealsInOrder(p) ==
  pc[p] \in {"listed", "sealing", "rooted", "chained"} =>
    /\ \A d \in pending[p] : Unsealed(d)
    /\ \A e \in Days : Unsealed(e) => e \in pending[p] \/ \A d \in pending[p] : d < e
    /\ pc[p] \in {"rooted", "chained"} => \A d \in pending[p] : Oldest(p, d) => root[p] = files[d]
    /\ pc[p] = "chained" => prev[p] = ChainHead

OneAtWork == \A p, q \in AtWork : p = q

AloneInv ==
  ~ overlapped =>
    /\ OneAtWork
    /\ pc[Agent] = "polling" => After(when)
    /\ \A d \in Days : Unsealed(d) => After(d)
    /\ \A p \in Processes : SealsInOrder(p)

LEMMA AtMostOne ==
  ASSUME NEW S, IsFiniteSet(S), ~ (Cardinality(S) > 1), NEW x \in S, NEW y \in S
  PROVE  x = y
<1> SUFFICES ASSUME x # y PROVE FALSE
  OBVIOUS
<1>1. IsFiniteSet({x}) /\ Cardinality({x}) = 1
  BY FS_Singleton
<1> DEFINE T == {x}
<1>2. IsFiniteSet(T \cup {y}) /\ Cardinality(T \cup {y}) = 2
  <2>1. y \notin T
    OBVIOUS
  <2> HIDE DEF T
  <2>2. Cardinality(T \cup {y}) = Cardinality(T) + 1 /\ IsFiniteSet(T \cup {y})
    BY <1>1, <2>1, FS_AddElement DEF T
  <2> QED BY <1>1, <2>2 DEF T
<1>3. Cardinality(T \cup {y}) <= Cardinality(S)
  BY <1>2, FS_Subset
<1>4. Cardinality(S) \in Nat
  BY FS_CardinalityType
<1> QED BY <1>2, <1>3, <1>4

LEMMA TurnsAreTaken ==
  ASSUME Next, ~ overlapped'
  PROVE  ~ overlapped /\ OneAtWork'
<1>1. overlapped' = (overlapped \/ Cardinality(AtWork') > 1)
  BY DEF Next
<1>2. IsFiniteSet(AtWork')
  BY ConstantFacts, FS_Subset DEF AtWork
<1> QED BY <1>1, <1>2, AtMostOne DEF OneAtWork

LEMMA OthersIdle ==
  ASSUME RaceTypeOK, OneAtWork, OneAtWork', NEW p \in Processes, NEW here \in Places,
         pc' = [pc EXCEPT ![p] = here], pc[p] # "idle" \/ here # "idle"
  PROVE  pc'[p] = here /\ \A q \in Processes \ {p} : pc[q] = "idle" /\ pc'[q] = "idle"
BY PlaceFrame DEF OneAtWork, AtWork

LEMMA FilesKept ==
  ASSUME files' = files, seals' = seals
  PROVE  /\ ChainHead' = ChainHead /\ SealedDays' = SealedDays
         /\ \A d : Unsealed(d)' = Unsealed(d) /\ After(d)' = After(d)
BY DEF ChainHead, SealedDays, Unsealed, After

\* A step of the only process at work, which is not polling afterwards.
LEMMA AloneFrame ==
  ASSUME OneAtWork', NEW p \in Processes, pc'[p] # "polling",
         \A q \in Processes \ {p} : pc'[q] = "idle",
         \A d \in Days : Unsealed(d)' => After(d)', SealsInOrder(p)'
  PROVE  AloneInv'
<1>1. pc'[Agent] # "polling"
  BY ConstantFacts
<1>2. \A q \in Processes \ {p} : SealsInOrder(q)'
  BY DEF SealsInOrder
<1> QED BY <1>1, <1>2 DEF AloneInv

LEMMA WriteRecordAlone ==
  ASSUME RaceTypeOK, OverInv, AloneInv, OneAtWork', ~ overlapped, WriteRecord
  PROVE  AloneInv' /\ Chain!ChainNext
<1> USE ConstantFacts
<1>1. /\ OneAtWork /\ After(when) /\ pc[Agent] = "polling" /\ written + 1 \in RecordIds
      /\ when \in Days /\ seals' = seals /\ pc' = [pc EXCEPT ![Agent] = "idle"]
      /\ files' = [files EXCEPT ![when] = Append(files[when], written + 1)]
  BY DEF AloneInv, WriteRecord, At, RaceTypeOK
<1>2. \A q \in Processes : pc'[q] = "idle"
  BY <1>1, OthersIdle DEF Places
<1>3. \A d \in Days : d # when => files'[d] = files[d]
  BY <1>1 DEF RaceTypeOK
<1>4. \A d \in Days : Unsealed(d)' => After(d)'
  BY <1>1, <1>3 DEF AloneInv, Unsealed, SealedDays, After
<1>5. AloneInv'
  BY <1>2, <1>4, AloneFrame DEF SealsInOrder
<1>6. ~ Chain!Closed(when)
  <2> SUFFICES ASSUME NEW i \in DOMAIN seals, when <= seals[i].day PROVE FALSE
    BY DEF Chain!Closed
  <2>1. seals[i].day < when /\ seals[i].day \in Nat /\ when \in Nat
    BY <1>1, SealFacts DEF After, Seals
  <2> QED BY <2>1
<1>7. Chain!Grow(when, written + 1)
  BY <1>1, <1>6 DEF Chain!Grow
<1> QED BY <1>1, <1>5, <1>7 DEF Chain!ChainNext, RecordIds

\* Alone, a process seals the oldest day without a seal, from all of its file.
LEMMA AppendSealAlone ==
  ASSUME RaceTypeOK, OverInv, AloneInv, OneAtWork', ~ overlapped,
         NEW p \in Processes, NEW d \in pending[p], AppendSeal(p, d)
  PROVE  AloneInv' /\ Chain!ChainNext
<1> USE ConstantFacts
<1>1. /\ OneAtWork /\ SealsInOrder(p) /\ pc[p] = "chained" /\ pc' = [pc EXCEPT ![p] = "listed"]
      /\ d \in Days /\ d \in pending[p] /\ Oldest(p, d) /\ files' = files
      /\ pending'[p] = pending[p] \ {d} /\ pending[p] \subseteq Days
  BY DEF AloneInv, AppendSeal, At, RaceTypeOK
<1>2. pc'[p] = "listed" /\ \A q \in Processes \ {p} : pc'[q] = "idle"
  BY <1>1, OthersIdle DEF Places
<1>3. /\ Unsealed(d) /\ After(d) /\ root[p] = files[d] /\ prev[p] = ChainHead
      /\ \A e \in pending[p] : Unsealed(e)
      /\ \A e \in Days : Unsealed(e) => e \in pending[p] \/ \A x \in pending[p] : x < e
  BY <1>1 DEF SealsInOrder, AloneInv
<1>4. /\ DOMAIN seals' = DOMAIN seals \cup {Len(seals) + 1}
      /\ \A i \in DOMAIN seals : seals'[i] = seals[i]
      /\ seals'[Len(seals) + 1].day = d
  <2>1. DOMAIN seals' = 1..(Len(seals) + 1) /\ DOMAIN seals = 1..Len(seals) /\ Len(seals) \in Nat
    BY AppendSealFacts, SealFacts
  <2>2. seals'[Len(seals) + 1] = [day |-> d, root |-> root[p], prev |-> prev[p]]
    BY AppendSealFacts
  <2> QED BY <2>1, <2>2, AppendSealFacts
<1>5. SealedDays' = SealedDays \cup {d}
  BY <1>4 DEF SealedDays
<1>6. \A e \in Days : Unsealed(e)' <=> Unsealed(e) /\ e # d
  BY <1>1, <1>5 DEF Unsealed
<1>7. ASSUME NEW e \in Days, Unsealed(e)' PROVE After(e)'
  <2>1. Unsealed(e) /\ e # d
    BY <1>6, <1>7
  <2>2. d < e
    <3>1. e \in pending[p] => d <= e
      BY <1>1 DEF Oldest
    <3> QED BY <1>1, <1>3, <2>1, <3>1
  <2>3. After(e)
    BY <2>1 DEF AloneInv
  <2> QED BY <1>4, <2>2, <2>3 DEF After
<1>8. SealsInOrder(p)'
  <2>1. \A e \in pending'[p] : Unsealed(e)'
    BY <1>1, <1>3, <1>6
  <2>2. \A e \in Days : Unsealed(e)' => e \in pending'[p] \/ \A x \in pending'[p] : x < e
    BY <1>1, <1>3, <1>6
  <2> QED BY <1>2, <2>1, <2>2 DEF SealsInOrder
<1>9. AloneInv'
  BY <1>2, <1>7, <1>8, AloneFrame
<1>10. ~ Chain!Closed(d)
  <2> SUFFICES ASSUME NEW i \in DOMAIN seals, d <= seals[i].day PROVE FALSE
    BY DEF Chain!Closed
  <2>1. seals[i].day < d /\ seals[i].day \in Nat /\ d \in Nat
    BY <1>1, <1>3, SealFacts DEF After, Seals
  <2> QED BY <2>1
<1>11. seals' = Append(seals, [day |-> d, root |-> files[d], prev |-> ChainHead])
  BY <1>3 DEF AppendSeal
<1>12. Chain!Close(d)
  BY <1>1, <1>3, <1>10, <1>11 DEF Chain!Close, Chain!Sealed, ChainHead, Unsealed
<1> QED BY <1>1, <1>9, <1>12 DEF Chain!ChainNext

LEMMA ReadsAlone ==
  ASSUME RaceTypeOK, OverInv, AloneInv, OneAtWork', ~ overlapped, NEW p \in Processes,
         \/ p = Agent /\ ReadTime
         \/ ListPending(p) \/ ReadLastSeal(p) \/ Ends(p)
         \/ \E d \in pending[p] : AlreadySealed(p, d) \/ NotSealedYet(p, d) \/ ReadRecords(p, d)
  PROVE  AloneInv' /\ files' = files /\ seals' = seals
<1> USE ConstantFacts
<1>1. files' = files /\ seals' = seals
  BY DEF ReadTime, ListPending, ReadLastSeal, Ends, AlreadySealed, NotSealedYet, ReadRecords
<1>2. OneAtWork /\ SealsInOrder(p) /\ \A d \in Days : Unsealed(d) => After(d)
  BY DEF AloneInv
<1>3. /\ ChainHead' = ChainHead /\ SealedDays' = SealedDays
      /\ \A d \in Days : Unsealed(d)' = Unsealed(d) /\ After(d)' = After(d)
  BY <1>1, FilesKept
<1>4. \A d \in Days : Unsealed(d)' => After(d)'
  BY <1>2, <1>3
<1>5. pending[p] \subseteq Days
  BY DEF RaceTypeOK
<1>6. CASE ReadTime /\ p = Agent
  <2>1. pc' = [pc EXCEPT ![Agent] = "polling"] /\ when' = today
    BY <1>6 DEF ReadTime, At
  <2>2. pc'[Agent] = "polling" /\ \A q \in Processes \ {Agent} : pc'[q] = "idle"
    BY <1>2, <2>1, OthersIdle DEF Places
  <2>3. After(when)'
    BY <1>1, <2>1 DEF OverInv, After
  <2>4. \A q \in Processes : SealsInOrder(q)'
    BY <2>2 DEF SealsInOrder
  <2> QED BY <1>1, <1>4, <2>3, <2>4 DEF AloneInv
<1>7. CASE ListPending(p)
  <2>1. /\ pc' = [pc EXCEPT ![p] = "listed"]
        /\ pending'[p] = {d \in Days : d < today /\ files[d] # <<>> /\ d \notin SealedDays}
    BY <1>7 DEF ListPending, At, RaceTypeOK
  <2>2. pc'[p] = "listed" /\ \A q \in Processes \ {p} : pc'[q] = "idle"
    BY <1>2, <2>1, OthersIdle DEF Places
  <2>3. \A d \in pending'[p] : d \in Days /\ Unsealed(d)'
    BY <1>3, <2>1 DEF Unsealed
  <2>4. \A e \in Days : Unsealed(e)' => e \in pending'[p] \/ \A d \in pending'[p] : d < e
    <3> SUFFICES ASSUME NEW e \in Days, Unsealed(e)', e \notin pending'[p], NEW d \in pending'[p]
                 PROVE  d < e
      OBVIOUS
    <3>1. ~ (e < today)
      BY <1>3, <2>1 DEF Unsealed
    <3>2. today \in Nat /\ e \in Nat /\ d \in Nat /\ d < today
      BY <2>1 DEF RaceTypeOK
    <3> QED BY <3>1, <3>2
  <2>5. SealsInOrder(p)'
    BY <2>2, <2>3, <2>4 DEF SealsInOrder
  <2> QED BY <1>1, <1>4, <2>2, <2>5, AloneFrame
<1>8. CASE ReadLastSeal(p)
  <2>1. /\ pc[p] = "rooted" /\ pc' = [pc EXCEPT ![p] = "chained"] /\ prev'[p] = ChainHead
        /\ pending' = pending /\ root' = root
    BY <1>8 DEF ReadLastSeal, At, RaceTypeOK
  <2>2. pc'[p] = "chained" /\ \A q \in Processes \ {p} : pc'[q] = "idle"
    BY <1>2, <2>1, OthersIdle DEF Places
  <2>3. SealsInOrder(p)'
    BY <1>1, <1>2, <1>3, <1>5, <2>1, <2>2 DEF SealsInOrder, Oldest
  <2> QED BY <1>1, <1>4, <2>2, <2>3, AloneFrame
<1>9. CASE Ends(p)
  <2>1. pc[p] # "idle" /\ pc' = [pc EXCEPT ![p] = "idle"]
    BY <1>9 DEF Ends
  <2>2. pc'[p] = "idle" /\ \A q \in Processes \ {p} : pc'[q] = "idle"
    BY <1>2, <2>1, OthersIdle DEF Places
  <2>3. SealsInOrder(p)'
    BY <2>2 DEF SealsInOrder
  <2> QED BY <1>1, <1>4, <2>2, <2>3, AloneFrame
<1>10. ASSUME NEW d \in pending[p], AlreadySealed(p, d) PROVE FALSE
  BY <1>2, <1>10 DEF AlreadySealed, SealsInOrder, Unsealed
<1>11. ASSUME NEW d \in pending[p], NotSealedYet(p, d) PROVE AloneInv'
  <2>1. pc[p] = "listed" /\ pc' = [pc EXCEPT ![p] = "sealing"] /\ pending' = pending
    BY <1>11 DEF NotSealedYet, At
  <2>2. pc'[p] = "sealing" /\ \A q \in Processes \ {p} : pc'[q] = "idle"
    BY <1>2, <2>1, OthersIdle DEF Places
  <2>3. SealsInOrder(p)'
    BY <1>2, <1>3, <1>5, <2>1, <2>2 DEF SealsInOrder
  <2> QED BY <1>4, <2>2, <2>3, AloneFrame
<1>12. ASSUME NEW d \in pending[p], ReadRecords(p, d) PROVE AloneInv'
  <2>1. /\ pc[p] = "sealing" /\ pc' = [pc EXCEPT ![p] = "rooted"] /\ pending' = pending
        /\ Oldest(p, d) /\ root'[p] = files[d]
    BY <1>12 DEF ReadRecords, At, RaceTypeOK
  <2>2. pc'[p] = "rooted" /\ \A q \in Processes \ {p} : pc'[q] = "idle"
    BY <1>2, <2>1, OthersIdle DEF Places
  <2>3. \A e \in pending[p] : Oldest(p, e) => e = d
    <3> SUFFICES ASSUME NEW e \in pending[p], Oldest(p, e) PROVE e = d
      OBVIOUS
    <3>1. e \in Nat /\ d \in Nat /\ d <= e /\ e <= d
      BY <1>5, <2>1 DEF Oldest
    <3> QED BY <3>1
  <2>4. \A e \in pending'[p] : Oldest(p, e)' => root'[p] = files'[e]
    BY <1>1, <2>1, <2>3 DEF Oldest
  <2>5. SealsInOrder(p)'
    BY <1>2, <1>3, <1>5, <2>1, <2>2, <2>4 DEF SealsInOrder
  <2> QED BY <1>4, <2>2, <2>5, AloneFrame
<1> QED BY <1>1, <1>6, <1>7, <1>8, <1>9, <1>10, <1>11, <1>12

LEMMA AloneStep ==
  ASSUME RaceTypeOK, OverInv, AloneInv, [Next]_vars
  PROVE  AloneInv' /\ [~ overlapped' => Chain!ChainNext]_<<files, seals>>
<1>1. CASE UNCHANGED vars
  <2>1. AloneInv'
    BY <1>1 DEF vars, AloneInv, OneAtWork, AtWork, After, Unsealed, SealedDays, SealsInOrder, Oldest,
                ChainHead
  <2> QED BY <1>1, <2>1 DEF vars
<1>2. ASSUME Next, ~ overlapped' PROVE AloneInv' /\ [Chain!ChainNext]_<<files, seals>>
  <2>1. ~ overlapped /\ OneAtWork'
    BY <1>2, TurnsAreTaken
  <2>2. CASE Midnight
    <3>1. AloneInv'
      BY <2>1, <2>2 DEF Midnight, AloneInv, AtWork, After, Unsealed, SealedDays, SealsInOrder, Oldest,
                  ChainHead
    <3> QED BY <2>2, <3>1 DEF Midnight
  <2>3. CASE WriteRecord
    BY <2>1, <2>3, WriteRecordAlone
  <2>4. ASSUME NEW p \in Processes, NEW d \in pending[p], AppendSeal(p, d)
        PROVE  AloneInv' /\ [Chain!ChainNext]_<<files, seals>>
    BY <2>1, <2>4, AppendSealAlone
  <2> QED BY <1>2, <2>1, <2>2, <2>3, <2>4, ReadsAlone, ConstantFacts DEF Next, Step
<1>3. CASE overlapped'
  BY <1>3 DEF AloneInv
<1> QED BY <1>1, <1>2, <1>3

\* Processes that take turns, for any number of them, do to the files what the abstract
\* chain of seals allows, whatever midnights, polls and interruptions come between.
THEOREM TurnsImplementSealChain == Spec => ImplementsSealChain
<1>1. Init => AloneInv
  <2> SUFFICES ASSUME Init PROVE AloneInv
    OBVIOUS
  <2>1. DOMAIN seals = {} /\ \A p \in Processes : pc[p] = "idle"
    BY DEF Init
  <2> QED BY <2>1, ConstantFacts DEF AloneInv, OneAtWork, AtWork, After, SealsInOrder
<1>2. Init => Chain!ChainInit
  BY DEF Init, Chain!ChainInit
<1>3. RaceTypeOK /\ OverInv /\ AloneInv /\ [Next]_vars => AloneInv'
  BY AloneStep
<1>4. RaceTypeOK /\ OverInv /\ AloneInv /\ [Next]_vars =>
        [~ overlapped' => Chain!ChainNext]_<<files, seals>>
  BY AloneStep
<1> QED BY <1>1, <1>2, <1>3, <1>4, RaceInvariant, PTL DEF Spec, ImplementsSealChain
=============================================================================
