----------------------------- MODULE MCTelephony -----------------------------
(* Telephony on small instances: clips of one and of three bytes and frames of *)
(* two, so that a frame takes part of a clip, or the end of one and the next.  *)
EXTENDS Telephony

ShortAndLong == {<<1>>, <<2, 3, 4>>}
==============================================================================
