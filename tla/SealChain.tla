------------------------------ MODULE SealChain ------------------------------
(***************************************************************************)
(* What the files of a ledger promise to whoever reads them, whatever      *)
(* process writes them and however it stops: the file of a day only grows, *)
(* and no more once that day, or a later one, is sealed; a day is sealed   *)
(* at most once, in the order of the days, from everything its file then   *)
(* holds, and its seal is chained to the one before.                       *)
(***************************************************************************)
EXTENDS Integers, Sequences

CONSTANTS
  ChainDays,   \* the days a ledger may hold
  Ids          \* the hashes of the records

VARIABLES
  files,   \* the hashes of the records of each day
  chain    \* the seals, each with its day, its root and the chain it continues

chainVars == <<files, chain>>

Closed(d) == \E i \in DOMAIN chain : d <= chain[i].day

Sealed == IF chain = <<>> THEN <<>>
          ELSE Append(chain[Len(chain)].prev, chain[Len(chain)].root)

ChainInit == files = [d \in ChainDays |-> <<>>] /\ chain = <<>>

Grow(d, id) ==
  /\ ~ Closed(d)
  /\ files' = [files EXCEPT ![d] = Append(@, id)]
  /\ UNCHANGED chain

Close(d) ==
  /\ ~ Closed(d) /\ files[d] # <<>>
  /\ chain' = Append(chain, [day |-> d, root |-> files[d], prev |-> Sealed])
  /\ UNCHANGED files

ChainNext == \E d \in ChainDays : Close(d) \/ \E id \in Ids : Grow(d, id)

ChainSpec == ChainInit /\ [][ChainNext]_chainVars
=============================================================================
