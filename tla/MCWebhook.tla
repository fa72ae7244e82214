----------------------------- MODULE MCWebhook -----------------------------
(* WebhookVerifier on small instances.                                     *)
EXTENDS WebhookVerifier, TLC

CONSTANTS r1, r2, e1, e2

\* The sender's clock is one unit behind or one ahead.
NearClock == {-1, 1}
\* The sender's clock is ahead by the skew less the body's delay.
FarClock == {1}
\* Seconds and milliseconds: a timestamp 2^63 ns or more in the future.  With
\* it AcceptedWithinSkew fails.
MilliClock == {0, 20}

Symmetric == Permutations(Request) \cup Permutations(Event)
==============================================================================
