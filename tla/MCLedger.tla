------------------------------ MODULE MCLedger ------------------------------
(* Instances of the ledger: small sets of skews and outcomes for its .cfg. *)
EXTENDS LedgerProperties

WestOfUtc == {-1, 0}
EastOfUtc == {0, 1}

NotForced == {NoDay}
MayForce == {NoDay, 1}

Nothing == {}
Whole == {"whole"}
LostOrTorn == {"lost", "torn"}
AnyOutcome == Outcomes
=============================================================================
