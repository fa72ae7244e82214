------------------------------- MODULE LRUCalls -------------------------------
(***************************************************************************)
(* Callers of one LRU, each with a reading of the clock that may have      *)
(* become old while it waited for the lock, and the contract of            *)
(* webhook.ReplayCache that the LRU implements.                            *)
(***************************************************************************)
EXTENDS LRU

CONSTANTS MaxLag,   \* how long a caller can wait for the lock
          MaxTime   \* bound on the clock

ASSUME CallsAssumption == {MaxLag, MaxTime} \subseteq Nat

VARIABLES
  clock,   \* time.Now
  older,   \* <<a, b>>: b was seen since a was (history, for recency)
  reply    \* the last call and its result

vars == <<cache, clock, older, reply>>

\* The type invariant: the shape of the state, and list and map of LRU in step.
TypeOK ==
  /\ clock \in 0 .. MaxTime
  /\ keys \subseteq Event /\ ListMatchesMap
  /\ expiresAt \in [Event -> 0 .. MaxTime + Ttl]
  /\ older \subseteq Event \X Event

Init == CacheInit /\ clock = 0 /\ older = {} /\ reply = <<>>

\* e is seen: from now on every other id is older.
Touch(e) == older' = {x \in older : x[1] # e} \cup ((Event \ {e}) \X {e})

\* A caller reads the clock, waits for the lock, and gets its answer.
Call ==
  \E e \in Event, now \in 0 .. clock :
    /\ clock - now <= MaxLag
    /\ \/ Hit(e, now) /\ reply' = <<e, TRUE>>
       \/ Insert(e, now) /\ reply' = <<e, FALSE>>
    /\ Touch(e)
    /\ UNCHANGED clock

Tick == clock < MaxTime /\ clock' = clock + 1 /\ UNCHANGED <<cache, older, reply>>

Next == Call \/ Tick

Spec == Init /\ [][Next]_vars

-----------------------------------------------------------------------------
\* The contract the verifier relies on.
Contract == INSTANCE ReplayCache WITH now <- clock, until <- expiresAt, known <- keys,
                                 Slack <- MaxLag

\* LRU keeps the ReplayCache contract: no id is taken for a replay that was not
\* observed; every id is marked for its whole ttl, counted from a reading of the
\* clock at most MaxLag old, and until then is forgotten only when the cache is
\* full, and then exactly as many as the new one needs.
ImplementsContract == Contract!Spec

\* "The eviction policy is pure LRU": an id dropped by a call is one that was
\* seen less recently than every id that stays, hits included.
EvictsLeastRecent ==
  [][\A a \in keys \ keys', b \in keys \cap keys' : <<a, b>> \in older]_vars
==============================================================================
