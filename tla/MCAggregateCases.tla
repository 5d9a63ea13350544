-------------------------- MODULE MCAggregateCases --------------------------
(* AggregateCases with the three heights of the code, five keys and  *)
(* values of two videos, so that every check can be the one that fails.  No  *)
(* definition tells keys apart, so they are interchangeable.                 *)
EXTENDS AggregateCases, TLC

KeySymmetry == Permutations(Keys)
=============================================================================
