------------------------ MODULE AutoRefreshImplements ------------------------
(* AutoRefresh seen as TokenRotation: the refinement mapping.              *)
EXTENDS AutoRefresh

\* The goroutines with a refresh request at the gateway or its answer in hand;
\* a request that carries no token (its session was erased) is not one.
Refreshers == {p \in Proc : pc[p] \in {"sent", "answer"} /\ sent[p] # NoToken}

\* The exchange goroutine p is engaged in.
Engaged(p) ==
  [of |-> cur[p], token |-> sent[p], pair |-> IF pc[p] = "answer" THEN ans[p] ELSE NoToken]

Rotation == INSTANCE TokenRotation WITH
  held <- tok,
  exchanges <- {Engaged(p) : p \in Refreshers},
  issued <- {k \in Token : issuedOn[k] # Unknown}

\* docs/tokens.md, "single-use" and "one round trip": Ensure with its locks,
\* its flight, its two looks at the session and its store does to the tokens
\* only what TokenRotation allows.  One exchange per session at a time, begun
\* with a token nobody has spent behind its back, and what it brings reaches
\* the session that paid for it, whatever else happens to session and store.
ImplementsTokenRotation == Rotation!Spec
==============================================================================
