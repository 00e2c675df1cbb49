------------------------------- MODULE MCChat --------------------------------
(* Instances of ChatRequest for TLC.                                       *)
EXTENDS ChatRequest

CONSTANTS r1
=============================================================================
