----------------------------- MODULE MCServices -----------------------------
(* The services on small instances: three models, two streams, two logins, *)
(* two pages and a tablet that changes twice.                              *)
EXTENDS Services
=============================================================================
