----------------------------- MODULE MCActivity -----------------------------
(* Values for TLC: the activity lasts from hour 0 to hour 1; updates move   *)
(* its end to hour 3, or the whole period to the hours 2 and 3.             *)
EXTENDS Activity

FirstPeriod == <<0, 1>>
MovedPeriods == {<<0, 3>>, <<2, 3>>}
=============================================================================
