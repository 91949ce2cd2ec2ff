---------------------------- MODULE MCClassifiers ----------------------------
(* Classifiers on small instances: one zone on each side of UTC. *)
EXTENDS Classifiers

AllZones == {-1, 0, 1}
==============================================================================
