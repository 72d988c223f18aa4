-------------------------------- MODULE Commit --------------------------------
(***************************************************************************)
(* Commit and reveal, src/hashguard/commit.py: a record carries the        *)
(* commitment of the decision that governs the interval it opens, and the  *)
(* next record reveals it.  A commitment is the decision and its nonce,    *)
(* free of collisions.                                                     *)
(***************************************************************************)
EXTENDS Integers, PythonNone

CONSTANT DecisionFields   \* DECISION_FIELDS, those that the composing module tells apart

decision_snapshot(interval) == [field \in DecisionFields |-> interval[field]]
commit_hash(snapshot, nonce) == [decision |-> snapshot, nonce |-> nonce]

REVEALED == "revealed"
UNREVEALED == "unrevealed"
MISMATCHED == "mismatched"
LEGACY == "legacy"

Committed(line) == line # Null /\ line.body.commit # Null

Reproduces(line, predecessor) ==
  predecessor.body.commit = commit_hash(decision_snapshot(line.body), line.body.reveal.nonce)

reveal_state(line, predecessor) ==
  CASE line.body.reveal = Null /\ (Committed(predecessor) \/ Committed(line)) -> UNREVEALED
    [] line.body.reveal = Null /\ ~ Committed(predecessor) /\ ~ Committed(line) -> LEGACY
    [] line.body.reveal # Null ->
         IF /\ Committed(predecessor)
            /\ line.body.reveal.commit_seq = line.seq - 1
            /\ predecessor.seq = line.seq - 1
            /\ Reproduces(line, predecessor)
         THEN REVEALED
         ELSE MISMATCHED
=============================================================================
