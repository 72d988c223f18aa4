------------------------------ MODULE MCInvoice -------------------------------
(* Three records in two days of a month and the day after it.  At the         *)
(* cheap price a pause loses more than it saves; 50 Wh at it are 51.5 micro-   *)
(* EUR, a half to round.                                                      *)
EXTENDS InvoiceProperties

MCDays == 0..2
MCMonth == {0, 1}
MCDecisions == {[action |-> "MINE", price |-> 2000],
                [action |-> "PAUSE", price |-> 1030], [action |-> "PAUSE", price |-> 2001]}
MCMeasurements == {[elapsed |-> e, baseline_gh |-> b, observed_gh |-> o] :
  <<e, b, o>> \in {<<90, 100, 0>>, <<30, 100, 95>>, <<-5, 100, 40>>,
                   <<60, 100, 96>>, <<60, Null, 40>>}}
=============================================================================
