------------------------------ MODULE MCSensors ------------------------------
(* Every capture sensor, started three times, so that a thread may outlive a  *)
(* stop and a start; or the three cameras on timers.                          *)
EXTENDS Sensors
===============================================================================
