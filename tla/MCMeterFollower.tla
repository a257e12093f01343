--------------------------- MODULE MCMeterFollower ---------------------------
(* Instances of MeterFollower for TLC.                                     *)
EXTENDS MeterFollower
=============================================================================
