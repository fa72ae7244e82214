----------------------------- MODULE ReplayCache -----------------------------
(***************************************************************************)
(* The contract of webhook.ReplayCache: Seen reports whether an event id   *)
(* was observed already and marks it; an entry is retained for its ttl,    *)
(* counted from the time the caller brought, which is at most Slack old,   *)
(* and may be dropped earlier only when the cache is full.                 *)
(***************************************************************************)
EXTENDS Naturals, FiniteSets

CONSTANTS Event,  \* event ids
          Cap,    \* the number of ids the cache has room for
          Ttl,    \* the retention Seen is asked for
          Slack   \* how old the caller's time may be when Seen runs

VARIABLES
  now,    \* the wall clock
  until,  \* until[e]: the end of the retention e was last promised (0: never)
  known,  \* the ids the cache can still recognise
  reply   \* the last answer: <<event, what Seen returned>>

vars == <<now, until, known, reply>>

Init == now = 0 /\ until = [e \in Event |-> 0] /\ known = {} /\ reply = <<>>

Pass == now' \in {now, now + 1} /\ UNCHANGED <<until, known, reply>>

\* Seen answers true: only for an id it observed and has not retained beyond
\* its time; nothing is forgotten.
Recognise(e) ==
  /\ e \in known /\ until[e] + Slack > now
  /\ reply' = <<e, TRUE>>
  /\ UNCHANGED <<now, until, known>>

\* Seen answers false and marks the id for the ttl it was asked for: no longer,
\* and shorter by no more than the age of the caller's time.  An id it had
\* marked is taken for a new one only when its time is up; other ids are dropped
\* only to make room, and no more of them than the room needs.
Mark(e) ==
  /\ e \in known => until[e] <= now
  /\ e \in known'
  /\ known' \subseteq known \cup {e}
  /\ LET dropped == known \ known' IN
       dropped = {} \/ (Cardinality(known \ {e}) >= Cap /\ Cardinality(known') = Cap)
  /\ \E d \in 0 .. now + Ttl :
       /\ now + Ttl <= d + Slack
       /\ until' = [until EXCEPT ![e] = d]
  /\ reply' = <<e, FALSE>>
  /\ UNCHANGED now

Next == Pass \/ \E e \in Event : Recognise(e) \/ Mark(e)

Spec == Init /\ [][Next]_vars
==============================================================================
