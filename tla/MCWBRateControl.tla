--------------------------- MODULE MCWBRateControl ---------------------------
(***************************************************************************)
(* Instances of WBRateControl. Sensor readings stand at both sides of every *)
(* threshold (70, 85, 95 degrees); percentages and MCS indices at the ends  *)
(* of what the setters accept.                                              *)
(***************************************************************************)
EXTENDS WBRateControl
=============================================================================
