------------------------- MODULE SealRaceProperties -------------------------
(***************************************************************************)
(* What the writers of one ledger directory keep of the promise that its   *)
(* files make (SealChain): all of it while they take turns, less of it     *)
(* when they seal at once.                                                 *)
(***************************************************************************)
EXTENDS SealRace

Chain == INSTANCE SealChain WITH ChainDays <- Days, Ids <- 1..MaxRecords, chain <- seals

\* Processes that take turns keep the promise of the files, one file access after
\* another: while midnights pass, polls that began the day before are on their way and
\* calls are interrupted anywhere, what they do to the files is a behaviour of the
\* abstract chain of seals.  (One agent alone is the case of a single process.)
ImplementsSealChain ==
  Chain!ChainInit /\ [][~ overlapped' => Chain!ChainNext]_<<files, seals>>

\* Processes that seal at once may each append a seal of the same day, but no process
\* appends two, however often it is called and whoever seals beside it: seal_day reads
\* the seals before it appends, and a day listed once is sealed once.
OneSealPerProcess ==
  \A i, j \in DOMAIN seals :
    i # j /\ authors[i] = authors[j] => seals[i].day # seals[j].day

\* "Idempotent -- re-sealing a day returns the existing seal rather than forking the
\* chain": no day has a second seal.  It has when two processes seal at once.
DaySealedOnce == \A i, j \in DOMAIN seals : i # j => seals[i].day # seals[j].day

\* Whatever processes seal beside the agent, the poll that was under way at midnight
\* is the only one that can still write to a day once it is over: a seal signs the
\* beginning of its day's file and misses at most one record of it.
SealMissesOnePoll ==
  \A i \in DOMAIN seals :
    LET file == files[seals[i].day]
        signed == Len(seals[i].root) IN
    Len(file) <= signed + 1 /\ SubSeq(file, 1, signed) = seals[i].root
=============================================================================
