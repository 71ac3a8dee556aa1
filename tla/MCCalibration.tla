----------------------------- MODULE MCCalibration -----------------------------
(* Calibration as it stands: three boards, three levels.                   *)
EXTENDS Calibration
================================================================================
