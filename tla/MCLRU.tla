------------------------------- MODULE MCLRU -------------------------------
(* LRUCalls on a small instance.                                           *)
EXTENDS LRUCalls, TLC

CONSTANTS e1, e2, e3, e4

Symmetric == Permutations(Event)
==============================================================================
