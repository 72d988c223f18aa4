------------------------------- MODULE MCAgent -------------------------------
(* Instances of the agent: its records are the bodies of the ledger's lines. *)
EXTENDS AgentProperties

OnUtc == {0}
NotForced == {NoDay}
Nothing == {}
Whole == {"whole"}
LostOrTorn == {"lost", "torn"}
AnyOutcome == Outcomes
=============================================================================
