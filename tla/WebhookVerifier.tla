--------------------------- MODULE WebhookVerifier ---------------------------
(***************************************************************************)
(* webhook.Handler and Verifier.Verify with an LRU replay cache, on        *)
(* requests that arrive concurrently and repeatedly: the sender retries,   *)
(* the network duplicates and delays.  A delivery is what the signature    *)
(* covers, the body of an event and a timestamp.  The event id the cache   *)
(* is asked about is a header beside it, which the signature does not      *)
(* cover: it may be missing, or differ from one arrival to the next.  The  *)
(* handler's two readings of the clock, one for the freshness test and one *)
(* inside Seen, are separate steps.                                        *)
(***************************************************************************)
EXTENDS Integers, FiniteSets

CONSTANTS Request,     \* requests being served at a time
          Event,       \* events, and the ids in X-Zeam-Event-Id
          Cap,         \* the LRU's capacity
          MaxSkew,     \* Verifier.MaxSkew
          Offset,      \* signed timestamp minus the verifier's clock, when signed
          MaxDelay,    \* time from the freshness test to Seen (the server's read timeout)
          Wide,        \* 2^63 nanoseconds: durations lie in -Wide .. Wide-1
          MaxTime,     \* bound on the clock
          MaxSigned,   \* bound on the deliveries the platform signs
          NoDelivery,
          NoId         \* no X-Zeam-Event-Id, or a verifier without a cache

ASSUME VerifierAssumption == /\ {MaxSkew, MaxDelay, MaxTime, MaxSigned, Wide} \subseteq Nat
                             /\ MaxSkew > 0 /\ Wide > MaxSkew
                             /\ Offset \subseteq Int /\ Cap \in Nat \ {0}

VARIABLES
  clock,                  \* the verifier's clock
  list, keys, expiresAt,  \* the LRU
  signed,                 \* deliveries the platform has signed and may send, again and again
  pc, delivery, eventId,  \* each request: where it stands, what was signed, its header
  fresh,                  \* its first reading of the clock
  seenAt,                 \* its second
  accepted,               \* <<delivery, id>> that Verify has returned without error
  twice,                  \* ids under which it has returned a delivery more than once
  evicted                 \* ids dropped from the cache for lack of room

cacheVars == <<list, keys, expiresAt>>
requests == <<pc, delivery, eventId, fresh, seenAt>>
vars == <<clock, cacheVars, signed, requests, accepted, twice, evicted>>

\* Fault: an id is remembered for one skew instead of the whole window.
FaultySeenTtl == MaxSkew

\* The retention Verify asks Seen for: the window is MaxSkew on either side.
SeenTtl == 2 * MaxSkew

Cache == INSTANCE LRU WITH Ttl <- SeenTtl

Timestamp == {t + o : t \in 0 .. MaxTime, o \in Offset}
Delivery == Event \X Timestamp

ASSUME DeliveryAssumption == NoDelivery \notin Delivery /\ NoId \notin Event

(***************************************************************************)
(* The type invariant of the handler's and the cache's state.              *)
(***************************************************************************)
TypeOK ==
  /\ clock \in 0 .. MaxTime
  /\ keys \subseteq Event /\ Cache!ListMatchesMap
  /\ expiresAt \in [Event -> 0 .. MaxTime + 2 * MaxSkew]
  /\ pc \in [Request -> {"idle", "body", "seen"}]
  /\ delivery \in [Request -> Delivery \cup {NoDelivery}]
  /\ eventId \in [Request -> Event \cup {NoId}]
  /\ fresh \in [Request -> 0 .. MaxTime] /\ seenAt \in [Request -> 0 .. MaxTime]
  /\ signed \subseteq Delivery /\ accepted \subseteq signed \X (Event \cup {NoId})
  /\ twice \subseteq Event \cup {NoId} /\ evicted \subseteq Event
  /\ \A r \in Request :
       /\ pc[r] = "idle" <=> delivery[r] = NoDelivery
       /\ pc[r] = "seen" => eventId[r] \in Event

Init ==
  /\ clock = 0 /\ Cache!CacheInit /\ signed = {}
  /\ pc = [r \in Request |-> "idle"] /\ delivery = [r \in Request |-> NoDelivery]
  /\ eventId = [r \in Request |-> NoId]
  /\ fresh = [r \in Request |-> 0] /\ seenAt = [r \in Request |-> 0]
  /\ accepted = {} /\ twice = {} /\ evicted = {}

-----------------------------------------------------------------------------
\* time.Time.Sub saturates; negating the least duration gives it back.
Saturate(d) == IF d < -Wide THEN -Wide ELSE IF d > Wide - 1 THEN Wide - 1 ELSE d
Negate(d) == IF d = -Wide THEN d ELSE -d
absDuration(d) == IF d < 0 THEN Negate(d) ELSE d

\* Fault: the operands are swapped and the absolute value is forgotten.
FaultyWithinSkew(now, ts) == Saturate(ts - now) <= MaxSkew

WithinSkew(now, ts) == absDuration(Saturate(now - ts)) <= MaxSkew

\* The request is answered and its goroutine ends.
Respond(r) ==
  /\ pc' = [pc EXCEPT ![r] = "idle"]
  /\ delivery' = [delivery EXCEPT ![r] = NoDelivery]
  /\ eventId' = [eventId EXCEPT ![r] = NoId]
  /\ fresh' = [fresh EXCEPT ![r] = 0] /\ seenAt' = [seenAt EXCEPT ![r] = 0]

\* Verify returns the body and next is served.
Served(r) ==
  /\ accepted' = accepted \cup {<<delivery[r], eventId[r]>>}
  /\ twice' = IF <<delivery[r], eventId[r]>> \in accepted THEN twice \cup {eventId[r]}
                                                         ELSE twice
  /\ Respond(r)

\* The platform signs an event, perhaps once more for a retry.
Sign(e) ==
  /\ Cardinality(signed) < MaxSigned
  /\ \E o \in Offset : signed' = signed \cup {<<e, clock + o>>}
  /\ UNCHANGED <<clock, cacheVars, requests, accepted, twice, evicted>>

\* A signed delivery arrives, for the first time or again, with any id in its
\* header or none, and its timestamp is within the skew; an unsigned or stale
\* one is refused without a trace.
Arrive(r) ==
  /\ pc[r] = "idle"
  /\ \E d \in signed, id \in Event \cup {NoId} :
       /\ WithinSkew(clock, d[2])
       /\ delivery' = [delivery EXCEPT ![r] = d]
       /\ eventId' = [eventId EXCEPT ![r] = id]
  /\ fresh' = [fresh EXCEPT ![r] = clock]
  /\ pc' = [pc EXCEPT ![r] = "body"]
  /\ UNCHANGED <<clock, cacheVars, signed, seenAt, accepted, twice, evicted>>

\* The body is too large, cannot be read or does not match its signature.
Refuse(r) ==
  /\ pc[r] = "body" /\ Respond(r)
  /\ UNCHANGED <<clock, cacheVars, signed, accepted, twice, evicted>>

\* The body was read and its signature matches, but there is no id to ask the
\* cache about: the request is accepted without a look at it.
AcceptUnseen(r) ==
  /\ pc[r] = "body" /\ eventId[r] = NoId
  /\ Served(r)
  /\ UNCHANGED <<clock, cacheVars, signed, evicted>>

\* It has an id: Seen reads the clock, before it has the lock.
Stamp(r) ==
  /\ pc[r] = "body" /\ eventId[r] # NoId
  /\ seenAt' = [seenAt EXCEPT ![r] = clock]
  /\ pc' = [pc EXCEPT ![r] = "seen"]
  /\ UNCHANGED <<clock, cacheVars, signed, delivery, eventId, fresh, accepted, twice, evicted>>

\* Seen knows the id: ErrReplay.
Replayed(r) ==
  /\ pc[r] = "seen"
  /\ Cache!Hit(eventId[r], seenAt[r])
  /\ Respond(r)
  /\ UNCHANGED <<clock, signed, accepted, twice, evicted>>

\* Seen does not know the id.
Accept(r) ==
  /\ pc[r] = "seen"
  /\ Cache!Insert(eventId[r], seenAt[r])
  /\ Served(r)
  /\ evicted' = evicted \cup (keys \ keys')
  /\ UNCHANGED <<clock, signed>>

Serve(r) == \/ Arrive(r) \/ Refuse(r) \/ AcceptUnseen(r)
            \/ Stamp(r) \/ Replayed(r) \/ Accept(r)

\* Time passes, but no request takes longer than MaxDelay to its Seen.
Tick ==
  /\ clock < MaxTime
  /\ \A r \in Request : pc[r] = "body" => clock < fresh[r] + MaxDelay
  /\ clock' = clock + 1
  /\ UNCHANGED <<cacheVars, signed, requests, accepted, twice, evicted>>

Next == Tick \/ (\E e \in Event : Sign(e)) \/ \E r \in Request : Serve(r)

Spec == Init /\ [][Next]_vars

-----------------------------------------------------------------------------
\* verifier.go, "duplicate events are rejected with ErrReplay", as far as the
\* code goes: what was signed once is accepted once under an id, unless the
\* cache dropped that id for lack of room.  Nothing is said of a repetition
\* whose header is missing or differs, which verifier.go accepts.  And the two
\* clock readings leave room for a second acceptance under the same id when
\* the sender's clock is ahead and the body is slow by MaxSkew together.
AcceptedOnce == twice \ {NoId} \subseteq evicted

\* doc.go, "enforces a clock-skew window": a request that passed the freshness
\* test carries a timestamp no further than MaxSkew from the verifier's clock.
AcceptedWithinSkew ==
  \A r \in Request : pc[r] # "idle" =>
    LET age == fresh[r] - delivery[r][2] IN age <= MaxSkew /\ -age <= MaxSkew
==============================================================================
