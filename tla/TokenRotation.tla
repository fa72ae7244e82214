---------------------------- MODULE TokenRotation ----------------------------
(***************************************************************************)
(* What package auth promises about refresh tokens, without goroutines,    *)
(* locks, tracks or a store: a session holds at most one token; it trades  *)
(* that token for a new one in one exchange at a time; and what an         *)
(* exchange brings goes into the session that gave its token for it.       *)
(*                                                                         *)
(* docs/tokens.md: refresh tokens rotate and are single-use, and           *)
(* concurrent callers cost one round trip.                                 *)
(***************************************************************************)
CONSTANTS Session, Token, NoToken

VARIABLES
  held,       \* the token a session holds (NoToken: none, or erased)
  exchanges,  \* exchanges in progress: of which session, for which token,
              \* and the token received for it (NoToken: not yet)
  issued,     \* tokens the gateway has given out
  spent,      \* tokens the gateway has taken back
  lost        \* tokens of exchanges that were given up

vars == <<held, exchanges, issued, spent, lost>>

Init == /\ held = [s \in Session |-> NoToken]
        /\ exchanges = {} /\ issued = {} /\ spent = {} /\ lost = {}

\* A login gives a session its first token.
Issue(s, k) ==
  /\ held[s] = NoToken /\ k \notin issued
  /\ held' = [held EXCEPT ![s] = k]
  /\ issued' = issued \cup {k}
  /\ UNCHANGED <<exchanges, spent, lost>>

\* A session without an exchange in progress offers its token, which nobody
\* has spent but an exchange that was given up.
Ask(s) ==
  /\ held[s] # NoToken /\ (held[s] \in spent => held[s] \in lost)
  /\ \A x \in exchanges : x.of # s
  /\ exchanges' = exchanges \cup {[of |-> s, token |-> held[s], pair |-> NoToken]}
  /\ UNCHANGED <<held, issued, spent, lost>>

\* The gateway takes an unspent token and gives a new one.
Exchange(x, k) ==
  /\ x.pair = NoToken /\ x.token \notin spent /\ k \notin issued
  /\ exchanges' = (exchanges \ {x}) \cup {[x EXCEPT !.pair = k]}
  /\ issued' = issued \cup {k} /\ spent' = spent \cup {x.token}
  /\ UNCHANGED <<held, lost>>

\* The new token replaces the old one in the session that asked.
Install(x) ==
  /\ x.pair # NoToken
  /\ held' = [held EXCEPT ![x.of] = x.pair]
  /\ exchanges' = exchanges \ {x}
  /\ UNCHANGED <<issued, spent, lost>>

\* The gateway refuses.
Reject(x) ==
  /\ x.pair = NoToken
  /\ exchanges' = exchanges \ {x}
  /\ UNCHANGED <<held, issued, spent, lost>>

\* Nobody waits for the answer any more; the gateway may still act (Late).
GiveUp(x) ==
  /\ exchanges' = exchanges \ {x} /\ lost' = lost \cup {x.token}
  /\ UNCHANGED <<held, issued, spent>>

Late(k) ==
  /\ spent' = spent \cup {k}
  /\ UNCHANGED <<held, exchanges, issued, lost>>

\* Sessions are erased.
Forget(S) ==
  /\ held' = [s \in Session |-> IF s \in S THEN NoToken ELSE held[s]]
  /\ UNCHANGED <<exchanges, issued, spent, lost>>

Next ==
  \/ \E s \in Session : Ask(s) \/ \E k \in Token : Issue(s, k)
  \/ \E x \in exchanges : \/ Install(x) \/ Reject(x) \/ GiveUp(x)
                          \/ \E k \in Token : Exchange(x, k)
  \/ \E k \in lost \ spent : Late(k)
  \/ \E S \in SUBSET Session : Forget(S)

Spec == Init /\ [][Next]_vars
==============================================================================
