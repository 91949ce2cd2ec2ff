-------------------------- MODULE MCRobotGestures --------------------------
(* RobotGestures for TLC: every gesture, a few requests, and a microphone  *)
(* that is started twice.                                                  *)
EXTENDS RobotGestures
=============================================================================
