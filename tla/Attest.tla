------------------------------- MODULE Attest ---------------------------------
(***************************************************************************)
(* src/hashguard/attest.py: what the hashrate telemetry witnesses of a     *)
(* claimed pause, and the auditor that adds the claims of a period up.     *)
(***************************************************************************)
EXTENDS Integers, Functions, FiniteSets, PythonNone

PPM == 1000000
MIN_DARK_FRACTION_PPM == 50000

Clamp(x, low, high) == IF x < low THEN low ELSE IF x > high THEN high ELSE x

dark_fraction_ppm(baseline_gh, observed_gh) ==
  IF baseline_gh = Null \/ observed_gh = Null
  THEN Null
  ELSE IF baseline_gh <= 0
       THEN Null
       ELSE Clamp(((baseline_gh - observed_gh) * PPM) \div baseline_gh, 0, PPM)

corroborated_wh(claim) ==
  LET fraction == dark_fraction_ppm(claim.baseline_gh, claim.observed_gh) IN
  IF fraction = Null
  THEN 0
  ELSE IF fraction < MIN_DARK_FRACTION_PPM THEN 0 ELSE (claim.claimed_wh * fraction) \div PPM

billable_wh(claim) ==
  IF claim.claimed_wh <= corroborated_wh(claim) THEN claim.claimed_wh ELSE corroborated_wh(claim)

-----------------------------------------------------------------------------
(* SavingsAuditor.                                                         *)

SumOf(numbers) == FoldFunction(+, 0, numbers)

Uncorroborated(claim) == claim.claimed_wh > 0 /\ corroborated_wh(claim) = 0

Exceeds(claimed, corroborated, margin_ppm) ==
  corroborated > 0 /\ (claimed * PPM) \div corroborated > margin_ppm

\* The auditor once each of these claims was submitted.  The report sorts what is flagged.
Submitted(claims, margin_ppm) ==
  [claimed_wh |-> SumOf([c \in DOMAIN claims |-> claims[c].claimed_wh]),
   corroborated_wh |-> SumOf([c \in DOMAIN claims |-> corroborated_wh(claims[c])]),
   billable_wh |-> SumOf([c \in DOMAIN claims |-> billable_wh(claims[c])]),
   n_claims |-> Cardinality(DOMAIN claims),
   n_uncorroborated |-> Cardinality({c \in DOMAIN claims : Uncorroborated(claims[c])}),
   flagged |-> {claims[c].seq : c \in {e \in DOMAIN claims :
      Uncorroborated(claims[e])
      \/ Exceeds(claims[e].claimed_wh, corroborated_wh(claims[e]), margin_ppm)}}]

verdict(auditor, margin_ppm) ==
  CASE auditor.claimed_wh = 0 -> "CORROBORATED"
    [] auditor.claimed_wh # 0 /\ auditor.corroborated_wh = 0 -> "UNCORROBORATED"
    [] auditor.claimed_wh # 0 /\ auditor.corroborated_wh # 0 ->
         IF Exceeds(auditor.claimed_wh, auditor.corroborated_wh, margin_ppm)
         THEN "OVERCLAIMED"
         ELSE IF auditor.billable_wh < auditor.claimed_wh THEN "PARTIAL" ELSE "CORROBORATED"

report(auditor, margin_ppm) ==
  [verdict |-> verdict(auditor, margin_ppm), margin_ppm |-> margin_ppm,
   claimed_wh |-> auditor.claimed_wh, corroborated_wh |-> auditor.corroborated_wh,
   billable_wh |-> auditor.billable_wh, n_claims |-> auditor.n_claims,
   n_uncorroborated |-> auditor.n_uncorroborated, flagged_seq |-> auditor.flagged]
=============================================================================
