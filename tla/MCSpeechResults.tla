--------------------------- MODULE MCSpeechResults ---------------------------
(* SpeechResults on small instances. *)
EXTENDS SpeechResults
==============================================================================
