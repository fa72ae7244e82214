--------------------------- MODULE MCAutoRefresh ---------------------------
(* AutoRefresh on small instances.                                         *)
EXTENDS AutoRefreshImplements, TLC

CONSTANTS p1, p2, p3, s1, s2, s3, k1, k2, k3, k4

TwoTracks == {"business", "connect"}
OneTrack == {"business"}

\* Goroutines, heap cells and tokens are interchangeable (safety runs only).
Symmetric == Permutations(Proc) \cup Permutations(Session) \cup Permutations(Token)
==============================================================================
