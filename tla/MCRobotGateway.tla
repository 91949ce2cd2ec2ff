--------------------------- MODULE MCRobotGateway ---------------------------
(* RobotGateway on small instances. *)
EXTENDS RobotGateway
=============================================================================
