----------------------------- MODULE MCEventLoops ------------------------------
(* The threads of small instances of EventLoops, for TLC.                  *)
EXTENDS EventLoops

CONSTANTS w1, w2

TwoWorkers == {w1, w2}
=============================================================================
