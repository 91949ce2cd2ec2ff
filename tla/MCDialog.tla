------------------------------ MODULE MCDialog ------------------------------
(* Dialog on small instances: three responses that are cached, one of them *)
(* without intents, and one that is not.                                   *)
EXTENDS Dialog

FourResponses ==
    {[stack |-> "root", intents |-> TRUE, tagged |-> TRUE],
     [stack |-> "node", intents |-> TRUE, tagged |-> TRUE],
     [stack |-> "root", intents |-> FALSE, tagged |-> TRUE],
     [stack |-> "node", intents |-> TRUE, tagged |-> FALSE]}
=============================================================================
