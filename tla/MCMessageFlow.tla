---------------------------- MODULE MCMessageFlow ----------------------------
(* Two adapters, with messages of members and of outsiders, for TLC.       *)
EXTENDS MessageFlow

CONSTANTS a1, a2, b1, b2

(* The messages whose name starts with a come from the first adapter.      *)
TwoAdapters(m) == IF m \in {a1, a2} THEN 1 ELSE 2
=============================================================================
