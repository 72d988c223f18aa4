--------------------------- MODULE AgentProperties ---------------------------
(***************************************************************************)
(* What the agent's loop promises: the commitments it leaves on disk open  *)
(* whatever fails, its baseline is learnt from mining only, and the days   *)
(* that end while it runs are sealed.                                      *)
(***************************************************************************)
EXTENDS Agent, LedgerProperties

OpenIntervals == [action : Actions, executed : BOOLEAN, opened : Nat, nonce : Nat, commit : Commits]

\* Records are intervals; only machines that are wired are ever switched off.
AgentTypeOK ==
  /\ \A d \in Days : \A i \in DOMAIN records[d] : records[d][i].body \in Intervals
  /\ open_interval \in OpenIntervals \cup {Null}
  /\ decision \in Actions /\ mode \in {"advisory", "webhook"} /\ baseline \subseteq Actions
  /\ phase \in {"poll", "check", "changed", "sealing"}
  /\ today \in Int /\ last_seal_day \in Int
  /\ off \subseteq Wired /\ polls \in Nat

-----------------------------------------------------------------------------
Predecessor(d, i) == IF i = 1 THEN record_before(d) ELSE records[d][i - 1]

\* The first record of a day, when the day before has none and an earlier day has some.
AfterGap(d, i) ==
  i = 1 /\ record_before(d) = Null /\ \E e \in Days : e < d /\ records[e] # <<>>

\* How an honest agent reads, in every day whose file can be read and whatever appends
\* failed: the first record of a session is unrevealed and each other opens the commitment
\* of its predecessor, except the first record after a day without any, which is read as
\* a mismatch because the predecessor is looked for in the file of the day before.
DecisionsRevealed ==
  \A d \in Days : \A i \in DOMAIN records[d] :
    LET line == records[d][i]
        predecessor == Predecessor(d, i) IN
    line.json = Parses /\ (predecessor = Null \/ predecessor.json = Parses)
      => reveal_state(line, predecessor) =
           IF line.body.reveal = Null THEN UNREVEALED
           ELSE IF AfterGap(d, i) THEN MISMATCHED ELSE REVEALED

\* "predecessor of None means it could not be read ... That is UNREVEALED: not an
\* accusation": a record whose predecessor is not found never reads as a mismatch.
MissingNeverMismatched ==
  \A d \in Days : \A i \in DOMAIN records[d] :
    records[d][i].json = Parses /\ Predecessor(d, i) = Null
      => reveal_state(records[d][i], Null) # MISMATCHED

\* The interval now running was committed before it began: the last record on the
\* disk carries exactly its commitment, even after polls whose record was lost.
OpenIntervalCommitted ==
  up /\ open_interval # Null =>
    \A d \in Days :
      IsHead(d) /\ Last(records[d]).json = Parses
        => Last(records[d]).body.commit = open_interval.commit

\* The baseline only learns from intervals that the agent believes were mining: no
\* sample is read while the decision last sent to the relays is PAUSE.
BaselineBelievedMining == baseline \subseteq {"MINE"}

\* A day that ends while the agent runs is sealed by it, or the agent stops first: no
\* midnight, console request or failed seal makes the loop forget it.  (A file that a
\* failed append damaged may block it, as in EveryFinishedDaySealed.)
SessionSealsFinishedDays ==
  \A d \in Days :
    (up /\ records[d] # <<>> /\ last_seal_day <= d /\ d < local)
      ~> (d \in SealedDays \/ ~ up \/ Damaged)
=============================================================================
