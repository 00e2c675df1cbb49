----------------------------- MODULE MCDispatch -----------------------------
(* Instances of Dispatch for TLC.                                          *)
EXTENDS Dispatch, TLC

CONSTANTS r1, r2

NoQuota == [c \in Conns |-> 0]
QuotaOne == [c \in Conns |-> IF c = 1 THEN 1 ELSE 0]

(* Request slots are interchangeable: nothing orders or names them.        *)
RequestSymmetry == Permutations(Requests)
=============================================================================
