------------------------------ MODULE MCFanout ------------------------------
(* Plans of up to four destinations against a limit of three pending sinks,  *)
(* so that the early, the late and the joint limit are all exceeded.         *)
EXTENDS FanoutDelivery

MCSinks == 1..MaxPlan
=============================================================================
