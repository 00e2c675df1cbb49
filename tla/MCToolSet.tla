----------------------------- MODULE MCToolSet -----------------------------
(* ToolSet for TLC: requests are interchangeable.                          *)
EXTENDS ToolSet, TLC

RequestSymmetry == Permutations(Requests)
=============================================================================
