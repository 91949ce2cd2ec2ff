--------------------------- MODULE MCSpeechToText ---------------------------
(* SpeechToText on small instances. *)
EXTENDS SpeechToText, TLC

Symmetry == Permutations(Models)
=============================================================================
