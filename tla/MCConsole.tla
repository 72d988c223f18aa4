------------------------------ MODULE MCConsole -------------------------------
(* Two boards and the fan of one machine; thresholds in half sigmas.  One label *)
(* moves a threshold past what the console may set; a patch with two knobs, a  *)
(* third out of bounds and a path of the operator's; a file written by hand without   *)
(* a token, and one with a bad value.                                           *)
EXTENDS ConsoleProperties

MCField ==
  [z_alert |-> [minimum |-> 3, maximum |-> 12, default |-> 5],
   z_critical |-> [minimum |-> 4, maximum |-> 16, default |-> 8],
   fan_temp_alert |-> [minimum |-> 2, maximum |-> 10, default |-> 4],
   hw_err_slope_alert |-> [minimum |-> 2, maximum |-> 12, default |-> 4],
   window |-> [minimum |-> 1, maximum |-> 2, default |-> 1],
   min_siblings |-> [minimum |-> 2, maximum |-> 64, default |-> 2],
   min_samples |-> [minimum |-> 1, maximum |-> 2, default |-> 1],
   persistence |-> [minimum |-> 1, maximum |-> 2, default |-> 2],
   enabled |-> [minimum |-> 0, maximum |-> 1, default |-> 1]]

MCOperatorDefaults == [poll_seconds |-> 60]
MCUsable == {5, 60}

MCPatches == {[persistence |-> 1, enabled |-> 0, z_alert |-> 99, poll_seconds |-> 5]}

MCEdits == {[poll_seconds |-> 60], [fan_temp_alert |-> 11]}
\* The streaks decide nothing.
WithoutStreaks == <<settings, window, samples, breaches, alerts, raised, verdicts, standing, told>>
=============================================================================
