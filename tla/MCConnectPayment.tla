--------------------------- MODULE MCConnectPayment ---------------------------
(* ConnectPayment on small instances: two flows of one client, or of two.  *)
EXTENDS ConnectPayment, TLC

CONSTANTS f1, f2, s1, s2, s3, q1, q2, q3

OneStore(f) == "store"
OwnStore(f) == IF f = f1 THEN "store1" ELSE "store2"

Symmetric == Permutations(Session) \cup Permutations(Quote)
==============================================================================
