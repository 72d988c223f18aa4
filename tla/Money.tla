-------------------------------- MODULE Money ---------------------------------
(***************************************************************************)
(* The integer arithmetic of src/hashguard/money.py.  Decimal quantities   *)
(* are fractions of integers; every conversion rounds half to even but the *)
(* fee, which is rounded down.                                             *)
(***************************************************************************)
EXTENDS Integers

FeeBase == 10000   \* basis points of the whole

\* Decimal.quantize(ROUND_HALF_EVEN) of num / den.
HalfEven(num, den) ==
  LET whole == num \div den
      twice == 2 * (num % den) IN
  IF twice > den \/ (twice = den /\ whole % 2 = 1) THEN whole + 1 ELSE whole

to_wh(watts, seconds, machines) == HalfEven(watts * seconds * machines, 3600)

\* The revenue forgone, from micro-EUR per hour and machine.
to_micro(hourly, seconds, machines) == HalfEven(hourly * seconds * machines, 3600)

energy_cost_micro_eur(wh, price_ppm_per_kwh) == HalfEven(wh * price_ppm_per_kwh, 1000)

fee_micro_eur(net, fee_bp) == IF net <= 0 THEN 0 ELSE (net * fee_bp) \div FeeBase

client_keeps_micro_eur(net, fee_bp) == IF net <= 0 THEN net ELSE net - fee_micro_eur(net, fee_bp)
=============================================================================
