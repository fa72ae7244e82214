----------------------------- MODULE WebhookProofs -----------------------------
(***************************************************************************)
(* Theorems about WebhookVerifier for any number of requests, events and   *)
(* deliveries, any capacity of the replay cache, and any skew and delay    *)
(* that leave room for each other.                                         *)
(*                                                                         *)
(* The argument: a request in flight carries a timestamp that was tested   *)
(* against a clock no more than MaxDelay ago (RequestInv); no timestamp is *)
(* further ahead of the clock than it was when it was signed (SignedInv);  *)
(* and so the entry of the id a delivery was accepted under outlives every *)
(* later request that could pass the freshness test with that delivery     *)
(* (RetainInv).                                                            *)
(***************************************************************************)
EXTENDS WebhookVerifier, Sequences, TLAPS

Facts == INSTANCE LRUProofs WITH Ttl <- SeenTtl

\* A request carries a delivery the platform has signed.
Carried == \A r \in Request : pc[r] # "idle" => delivery[r] \in signed

\* Clock readings of a request, and what its freshness test has shown.
RequestInv ==
  \A r \in Request :
    /\ pc[r] = "body" => fresh[r] <= clock /\ clock <= fresh[r] + MaxDelay
    /\ pc[r] = "seen" => /\ fresh[r] <= seenAt[r] /\ seenAt[r] <= fresh[r] + MaxDelay
                         /\ seenAt[r] <= clock
    /\ pc[r] # "idle" => WithinSkew(fresh[r], delivery[r][2])

\* How far ahead of the verifier's clock a timestamp can be.
SignedInv ==
  /\ \A d \in signed : \E o \in Offset : d[2] <= clock + o
  /\ \A r \in Request : pc[r] # "idle" =>
       \E o \in Offset : delivery[r][2] <= fresh[r] + o

\* The entry of an id a delivery was accepted under, unless it had to make room,
\* is there until no request can carry the delivery any more.
RetainInv ==
  \A d \in Delivery, id \in Event : <<d, id>> \in accepted /\ id \notin evicted =>
    id \in keys /\ d[2] + MaxSkew + MaxDelay < expiresAt[id]

\* The skew is not the longest duration there is, and no timestamp lies so far
\* ahead that the difference to the clock has no absolute value.
DurationsSuffice == MaxSkew < Wide - 1 /\ \A o \in Offset : o < Wide

\* The sender's lead and the time a body may take do not use up the skew.
RoomForDelay == \A o \in Offset : o + MaxDelay < MaxSkew

-----------------------------------------------------------------------------
\* What a known id changes in the cache of the verifier.
LEMMA CacheHit ==
  ASSUME Facts!CacheOK, NEW e \in Event, NEW now, Cache!Hit(e, now)
  PROVE  Facts!CacheOK' /\ UNCHANGED <<keys, expiresAt>>
<1>1. Facts!Hit(e, now)
  BY DEF Facts!Hit, Cache!Hit, Facts!Unlink, Cache!Unlink, Facts!RemoveAt, Cache!RemoveAt
<1>2. Cap \in Nat \ {0} /\ SeenTtl \in Nat
  BY VerifierAssumption DEF SeenTtl
<1> QED BY <1>1, <1>2, Facts!HitEffect DEF Facts!Hit

\* What a new one changes.
LEMMA CacheInsert ==
  ASSUME Facts!CacheOK, NEW e \in Event, NEW now \in Nat, Cache!Insert(e, now)
  PROVE  /\ Facts!CacheOK' /\ e \in keys' /\ keys' \subseteq keys \cup {e}
         /\ e \in keys => expiresAt[e] <= now
         /\ expiresAt' = [expiresAt EXCEPT ![e] = now + SeenTtl]
<1>1. Facts!Insert(e, now)
  BY DEF Facts!Insert, Cache!Insert, Facts!Unlink, Cache!Unlink, Facts!RemoveAt,
         Cache!RemoveAt, Facts!ToSet, Cache!ToSet
<1>2. Cap \in Nat \ {0} /\ SeenTtl \in Nat
  BY VerifierAssumption DEF SeenTtl
<1> QED BY <1>1, <1>2, Facts!InsertEffect DEF Facts!Insert

\* An answered request is gone, the others are where they were.
LEMMA Responded ==
  ASSUME TypeOK, NEW r \in Request, Respond(r)
  PROVE  /\ pc' \in [Request -> {"idle", "body", "seen"}]
         /\ delivery' \in [Request -> Delivery \cup {NoDelivery}]
         /\ eventId' \in [Request -> Event \cup {NoId}]
         /\ fresh' \in [Request -> 0 .. MaxTime] /\ seenAt' \in [Request -> 0 .. MaxTime]
         /\ pc'[r] = "idle" /\ delivery'[r] = NoDelivery
         /\ \A q \in Request \ {r} :
              /\ pc'[q] = pc[q] /\ delivery'[q] = delivery[q] /\ eventId'[q] = eventId[q]
              /\ fresh'[q] = fresh[q] /\ seenAt'[q] = seenAt[q]
  BY VerifierAssumption DEF TypeOK, Respond

\* An accepted request is answered, and what it carried is on record.
LEMMA ServedRecord ==
  ASSUME TypeOK, Carried, NEW r \in Request, pc[r] # "idle", Served(r), signed' = signed
  PROVE  /\ Respond(r)
         /\ accepted' = accepted \cup {<<delivery[r], eventId[r]>>}
         /\ accepted' \subseteq signed' \X (Event \cup {NoId})
         /\ twice' \subseteq Event \cup {NoId}
         /\ \A id \in twice' \ twice :
              id = eventId[r] /\ <<delivery[r], eventId[r]>> \in accepted
<1>1. delivery[r] \in signed /\ eventId[r] \in Event \cup {NoId}
  BY DEF TypeOK, Carried
<1> QED BY <1>1 DEF Served, TypeOK

\* What the platform signs at a time of the clock is a timestamp.
LEMMA Stamped ==
  ASSUME NEW t \in 0 .. MaxTime, NEW o \in Offset
  PROVE  t + o \in Timestamp
  BY DEF Timestamp

\* A delivery is an id and a time.
LEMMA Timestamps == \A d \in Delivery : d[1] \in Event /\ d[2] \in Int
<1>1. ASSUME NEW s \in Timestamp PROVE s \in Int
  BY VerifierAssumption DEF Timestamp
<1> QED BY <1>1 DEF Delivery

\* Type correctness of requests, deliveries and cache; list and map of the LRU
\* stay in step under concurrent requests.
THEOREM TypeCorrect == Spec => [](TypeOK /\ Facts!CacheOK /\ Carried)
<1> USE VerifierAssumption, DeliveryAssumption
<1> DEFINE Inv == TypeOK /\ Facts!CacheOK /\ Carried
<1>1. Init => Inv
  <2> SUFFICES ASSUME Init PROVE Inv
    OBVIOUS
  <2>1. list \in Seq(Event) /\ Len(list) = 0 /\ DOMAIN list = {} /\ keys = {}
    BY DEF Init, Cache!CacheInit
  <2>2. Facts!ListMatchesMap /\ Cache!ListMatchesMap
    BY <2>1 DEF Facts!ListMatchesMap, Facts!ToSet, Facts!IsInjective,
                Cache!ListMatchesMap, Cache!ToSet, Cache!IsInjective
  <2> QED BY <2>1, <2>2 DEF Init, TypeOK, Facts!CacheOK, Cache!CacheInit, Carried
<1>2. Inv /\ [Next]_vars => Inv'
  <2> SUFFICES ASSUME TypeOK, Facts!CacheOK, Carried, [Next]_vars PROVE Inv'
    OBVIOUS
  <2>1. Facts!CacheOK' => Cache!ListMatchesMap'
    BY DEF Facts!CacheOK, Facts!ListMatchesMap, Facts!ToSet, Facts!IsInjective,
           Cache!ListMatchesMap, Cache!ToSet, Cache!IsInjective
  <2>2. ASSUME UNCHANGED cacheVars PROVE Facts!CacheOK'
    BY <2>2 DEF cacheVars, Facts!CacheOK, Facts!ListMatchesMap
  <2>3. ASSUME NEW e \in Event, Sign(e) PROVE Inv'
    <3>1. \A o \in Offset : clock + o \in Timestamp
      BY Stamped DEF TypeOK
    <3>2. signed' \subseteq Delivery /\ signed \subseteq signed'
      <4>1. PICK o \in Offset : signed' = signed \cup {<<e, clock + o>>}
        BY <2>3 DEF Sign
      <4>2. <<e, clock + o>> \in Delivery
        BY <3>1 DEF Delivery
      <4> QED BY <4>1, <4>2 DEF TypeOK
    <3> QED BY <2>1, <2>2, <2>3, <3>2 DEF Sign, requests, cacheVars, TypeOK, Carried
  <2>4. ASSUME NEW r \in Request, Arrive(r) PROVE Inv'
    BY <2>1, <2>2, <2>4 DEF Arrive, cacheVars, TypeOK, Carried
  <2>5. ASSUME NEW r \in Request, Refuse(r) PROVE Inv'
    BY <2>1, <2>2, <2>5, Responded DEF Refuse, cacheVars, TypeOK, Carried
  <2>6. ASSUME NEW r \in Request, Stamp(r) PROVE Inv'
    BY <2>1, <2>2, <2>6 DEF Stamp, cacheVars, TypeOK, Carried
  <2>7. ASSUME NEW r \in Request, pc[r] = "seen"
        PROVE  /\ delivery[r] \in signed /\ eventId[r] \in Event
               /\ seenAt[r] \in Nat /\ seenAt[r] <= MaxTime
    BY <2>7 DEF TypeOK, Carried
  <2>8. ASSUME NEW r \in Request, Replayed(r) PROVE Inv'
    <3>1. Facts!CacheOK' /\ UNCHANGED <<keys, expiresAt>>
      BY <2>7, <2>8, CacheHit DEF Replayed
    <3> QED BY <2>1, <2>8, <3>1, Responded DEF Replayed, TypeOK, Carried
  <2>9. ASSUME NEW r \in Request, Accept(r) PROVE Inv'
    <3>1. /\ Facts!CacheOK' /\ keys' \subseteq Event
          /\ expiresAt' = [expiresAt EXCEPT ![eventId[r]] = seenAt[r] + SeenTtl]
      BY <2>7, <2>9, CacheInsert DEF Accept, TypeOK
    <3>2. seenAt[r] + SeenTtl \in 0 .. MaxTime + 2 * MaxSkew
      BY <2>7, <2>9 DEF Accept, SeenTtl
    <3>3. expiresAt' \in [Event -> 0 .. MaxTime + 2 * MaxSkew]
      BY <3>1, <3>2 DEF TypeOK
    <3>4. /\ Respond(r) /\ accepted' \subseteq signed' \X (Event \cup {NoId})
          /\ twice' \subseteq Event \cup {NoId}
      BY <2>9, ServedRecord DEF Accept
    <3>5. evicted' \subseteq Event /\ signed' = signed /\ clock' = clock
      BY <2>9 DEF Accept, TypeOK
    <3> QED BY <2>1, <2>9, <3>1, <3>3, <3>4, <3>5, Responded DEF TypeOK, Carried
  <2>12. ASSUME NEW r \in Request, AcceptUnseen(r) PROVE Inv'
    <3>1. /\ Respond(r) /\ accepted' \subseteq signed' \X (Event \cup {NoId})
          /\ twice' \subseteq Event \cup {NoId}
      BY <2>12, ServedRecord DEF AcceptUnseen
    <3> QED BY <2>1, <2>2, <2>12, <3>1, Responded
            DEF AcceptUnseen, cacheVars, TypeOK, Carried
  <2>10. CASE Tick
    BY <2>1, <2>2, <2>10 DEF Tick, requests, cacheVars, TypeOK, Carried
  <2>11. CASE UNCHANGED vars
    BY <2>1, <2>2, <2>11 DEF vars, requests, cacheVars, TypeOK, Carried
  <2> QED BY <2>3, <2>4, <2>5, <2>6, <2>8, <2>9, <2>10, <2>11, <2>12 DEF Next, Serve
<1> QED BY <1>1, <1>2, PTL DEF Spec

\* How long ago each request's readings of the clock were, and that its
\* timestamp passed the freshness test at the first of them.
THEOREM RequestInvariant == Spec => []RequestInv
<1> USE VerifierAssumption, DeliveryAssumption
<1>1. Init => RequestInv
  BY DEF Init, RequestInv
<1>2. TypeOK /\ RequestInv /\ [Next]_vars => RequestInv'
  <2> SUFFICES ASSUME TypeOK, RequestInv, [Next]_vars PROVE RequestInv'
    OBVIOUS
  <2>0. /\ clock \in Nat /\ MaxDelay \in Nat
        /\ \A r \in Request : fresh[r] \in Nat /\ seenAt[r] \in Nat
    BY DEF TypeOK
  <2> DEFINE Own(r) ==
        /\ pc[r] = "body" => fresh[r] <= clock /\ clock <= fresh[r] + MaxDelay
        /\ pc[r] = "seen" => /\ fresh[r] <= seenAt[r] /\ seenAt[r] <= fresh[r] + MaxDelay
                             /\ seenAt[r] <= clock
        /\ pc[r] # "idle" => WithinSkew(fresh[r], delivery[r][2])
  <2>1. \A r \in Request : Own(r)
    BY DEF RequestInv
  <2>2. ASSUME NEW q \in Request, clock' = clock, pc'[q] = pc[q],
               delivery'[q] = delivery[q], fresh'[q] = fresh[q], seenAt'[q] = seenAt[q]
        PROVE  Own(q)'
    BY <2>1, <2>2 DEF WithinSkew, absDuration, Negate, Saturate
  <2>3. ASSUME NEW e \in Event, Sign(e) PROVE RequestInv'
    BY <2>2, <2>3 DEF Sign, requests, RequestInv
  <2>4. ASSUME NEW r \in Request, Arrive(r) PROVE RequestInv'
    <3>1. /\ clock' = clock /\ pc'[r] = "body" /\ fresh'[r] = clock
          /\ WithinSkew(clock, delivery'[r][2])
      BY <2>4 DEF Arrive, TypeOK
    <3>2. Own(r)'
      BY <2>0, <3>1 DEF WithinSkew, absDuration, Negate, Saturate
    <3>3. ASSUME NEW q \in Request \ {r} PROVE Own(q)'
      BY <2>2, <2>4 DEF Arrive, TypeOK
    <3> QED BY <3>2, <3>3 DEF RequestInv
  <2>5. ASSUME NEW r \in Request, Respond(r), clock' = clock PROVE RequestInv'
    <3>1. Own(r)'
      BY <2>5, Responded
    <3>2. ASSUME NEW q \in Request \ {r} PROVE Own(q)'
      BY <2>2, <2>5, Responded
    <3> QED BY <3>1, <3>2 DEF RequestInv
  <2>6. ASSUME NEW r \in Request, Refuse(r) \/ AcceptUnseen(r) PROVE RequestInv'
    BY <2>5, <2>6 DEF Refuse, AcceptUnseen, Served
  <2>7. ASSUME NEW r \in Request, Stamp(r) PROVE RequestInv'
    <3>1. /\ clock' = clock /\ pc'[r] = "seen" /\ pc[r] = "body" /\ seenAt'[r] = clock
          /\ UNCHANGED <<delivery, fresh>>
          /\ \A q \in Request \ {r} : pc'[q] = pc[q] /\ seenAt'[q] = seenAt[q]
      BY <2>7 DEF Stamp, TypeOK
    <3>2. Own(r)'
      BY <2>0, <2>1, <3>1 DEF WithinSkew, absDuration, Negate, Saturate
    <3>3. ASSUME NEW q \in Request \ {r} PROVE Own(q)'
      BY <2>2, <3>1
    <3> QED BY <3>2, <3>3 DEF RequestInv
  <2>8. ASSUME NEW r \in Request, Replayed(r) \/ Accept(r) PROVE RequestInv'
    BY <2>5, <2>8 DEF Replayed, Accept, Served
  <2>9. CASE Tick
    <3>1. /\ clock' = clock + 1 /\ UNCHANGED <<pc, delivery, fresh, seenAt>>
          /\ \A q \in Request : pc[q] = "body" => clock < fresh[q] + MaxDelay
      BY <2>9 DEF Tick, requests
    <3>2. ASSUME NEW q \in Request PROVE Own(q)'
      BY <2>0, <2>1, <3>1 DEF WithinSkew, absDuration, Negate, Saturate
    <3> QED BY <3>2 DEF RequestInv
  <2>10. CASE UNCHANGED vars
    BY <2>2, <2>10 DEF vars, requests, RequestInv
  <2> QED BY <2>3, <2>4, <2>6, <2>7, <2>8, <2>9, <2>10 DEF Next, Serve
<1> QED BY <1>1, <1>2, TypeCorrect, PTL DEF Spec

\* No signed timestamp is further ahead of the verifier's clock than the
\* sender's lead, neither now nor when a request's freshness was tested.
THEOREM SignedInvariant == Spec => []SignedInv
<1> USE VerifierAssumption, DeliveryAssumption
<1>1. Init => SignedInv
  BY DEF Init, SignedInv
<1>2. TypeOK /\ Carried /\ SignedInv /\ [Next]_vars => SignedInv'
  <2> SUFFICES ASSUME TypeOK, Carried, SignedInv, [Next]_vars PROVE SignedInv'
    OBVIOUS
  <2> DEFINE Lead(d, now) == \E o \in Offset : d[2] <= now + o
  <2>0. /\ clock \in Nat /\ \A d \in signed : d[2] \in Int
        /\ \A o \in Offset : o \in Int
    BY Timestamps DEF TypeOK
  <2>1. /\ \A d \in signed : Lead(d, clock)
        /\ \A r \in Request : pc[r] # "idle" => Lead(delivery[r], fresh[r])
    BY DEF SignedInv
  <2>2. ASSUME NEW q \in Request, pc'[q] = "idle" \/ pc'[q] = pc[q] \/ pc[q] # "idle",
               pc'[q] # "idle" => delivery'[q] = delivery[q] /\ fresh'[q] = fresh[q]
        PROVE  pc'[q] # "idle" => Lead(delivery[q], fresh[q])'
    BY <2>1, <2>2
  <2>3. ASSUME NEW e \in Event, Sign(e) PROVE SignedInv'
    <3>1. PICK o \in Offset : signed' = signed \cup {<<e, clock + o>>}
      BY <2>3 DEF Sign
    <3>2. UNCHANGED <<clock, requests>>
      BY <2>3 DEF Sign
    <3>3. \A d \in signed' : Lead(d, clock)
      <4>1. Lead(<<e, clock + o>>, clock)
        <5>1. <<e, clock + o>>[2] <= clock + o
          BY <2>0
        <5> QED BY <5>1
      <4> HIDE DEF Lead
      <4> QED BY <2>1, <3>1, <4>1
    <3> QED BY <2>1, <3>2, <3>3 DEF SignedInv, requests
  <2>4. ASSUME NEW r \in Request, Arrive(r) PROVE SignedInv'
    <3>1. /\ UNCHANGED <<clock, signed>> /\ delivery'[r] \in signed /\ fresh'[r] = clock
          /\ \A q \in Request \ {r} :
               pc'[q] = pc[q] /\ delivery'[q] = delivery[q] /\ fresh'[q] = fresh[q]
      BY <2>4 DEF Arrive, TypeOK
    <3> QED BY <2>1, <3>1 DEF SignedInv
  <2>5. ASSUME NEW r \in Request, Respond(r), UNCHANGED <<clock, signed>> PROVE SignedInv'
    BY <2>1, <2>5, Responded DEF SignedInv
  <2>6. ASSUME NEW r \in Request, Refuse(r) \/ AcceptUnseen(r) PROVE SignedInv'
    BY <2>5, <2>6 DEF Refuse, AcceptUnseen, Served
  <2>7. ASSUME NEW r \in Request, Stamp(r) PROVE SignedInv'
    <3>1. /\ UNCHANGED <<clock, signed, delivery, fresh>> /\ pc[r] = "body"
          /\ \A q \in Request \ {r} : pc'[q] = pc[q]
      BY <2>7 DEF Stamp, TypeOK
    <3> QED BY <2>1, <3>1 DEF SignedInv
  <2>8. ASSUME NEW r \in Request, Replayed(r) \/ Accept(r) PROVE SignedInv'
    BY <2>5, <2>8 DEF Replayed, Accept, Served
  <2>9. CASE Tick
    <3>1. clock' = clock + 1 /\ UNCHANGED <<signed, pc, delivery, fresh>>
      BY <2>9 DEF Tick, requests
    <3>2. ASSUME NEW d \in signed PROVE Lead(d, clock + 1)
      <4>1. PICK o \in Offset : d[2] <= clock + o
        BY <2>1
      <4>2. d[2] <= (clock + 1) + o
        BY <2>0, <4>1
      <4> QED BY <4>2
    <3> QED BY <2>1, <3>1, <3>2 DEF SignedInv
  <2>10. CASE UNCHANGED vars
    BY <2>1, <2>10 DEF vars, requests, SignedInv
  <2> QED BY <2>3, <2>4, <2>6, <2>7, <2>8, <2>9, <2>10 DEF Next, Serve
<1> QED BY <1>1, <1>2, TypeCorrect, PTL DEF Spec

-----------------------------------------------------------------------------
\* A timestamp that passes the freshness test is near, when the difference to
\* the clock can be told from a saturated one.
LEMMA Near ==
  ASSUME DurationsSuffice, NEW now \in Nat, NEW stamp \in Int, NEW o \in Offset,
         stamp <= now + o, WithinSkew(now, stamp)
  PROVE  now - stamp <= MaxSkew /\ stamp - now <= MaxSkew
<1> DEFINE d == now - stamp
<1>1. d \in Int /\ d > -Wide /\ Wide \in Int /\ MaxSkew \in Nat /\ MaxSkew < Wide - 1
  <2>1. o \in Int /\ o < Wide /\ Wide \in Int
    BY VerifierAssumption DEF DurationsSuffice
  <2> QED BY <2>1, VerifierAssumption DEF DurationsSuffice
<1>2. absDuration(Saturate(d)) <= MaxSkew
  BY DEF WithinSkew
<1> HIDE DEF d
<1>3. d <= MaxSkew /\ -d <= MaxSkew
  BY <1>1, <1>2 DEF absDuration, Negate, Saturate
<1> QED BY <1>1, <1>3 DEF d

\* doc.go's window: whatever passes the freshness test was signed no further
\* than MaxSkew from the verifier's clock, on either side, provided the skew is
\* less than the longest duration and no sender's clock leads by a duration
\* that has no absolute value.
THEOREM WithinTheWindow ==
  ASSUME DurationsSuffice
  PROVE  Spec => []AcceptedWithinSkew
<1>1. TypeOK /\ Carried /\ RequestInv /\ SignedInv => AcceptedWithinSkew
  <2> SUFFICES ASSUME TypeOK, Carried, RequestInv, SignedInv,
                      NEW r \in Request, pc[r] # "idle"
               PROVE  /\ fresh[r] - delivery[r][2] <= MaxSkew
                      /\ -(fresh[r] - delivery[r][2]) <= MaxSkew
    BY DEF AcceptedWithinSkew
  <2>1. fresh[r] \in Nat /\ delivery[r][2] \in Int
    BY VerifierAssumption, Timestamps DEF TypeOK, Carried
  <2>2. WithinSkew(fresh[r], delivery[r][2])
    BY DEF RequestInv
  <2>3. PICK o \in Offset : delivery[r][2] <= fresh[r] + o
    BY DEF SignedInv
  <2>4. /\ fresh[r] - delivery[r][2] <= MaxSkew
        /\ delivery[r][2] - fresh[r] <= MaxSkew
    BY <2>1, <2>2, <2>3, Near
  <2> QED BY <2>1, <2>4, VerifierAssumption
<1> QED BY <1>1, TypeCorrect, RequestInvariant, SignedInvariant, PTL

\* What a request that reaches the cache knows of its times: the entry it makes
\* will outlive its delivery, and the delivery is not yet too old.
LEMMA TimesOfAccept ==
  ASSUME DurationsSuffice, RoomForDelay, TypeOK, Carried, RequestInv, SignedInv,
         AcceptedWithinSkew, NEW r \in Request, pc[r] = "seen"
  PROVE  /\ eventId[r] \in Event /\ delivery[r] \in Delivery /\ delivery[r][2] \in Int
         /\ delivery[r] \in signed /\ seenAt[r] \in Nat
         /\ delivery[r][2] + MaxSkew + MaxDelay < seenAt[r] + SeenTtl
         /\ seenAt[r] <= delivery[r][2] + MaxSkew + MaxDelay
<1>1. /\ eventId[r] \in Event /\ delivery[r] \in Delivery /\ delivery[r][2] \in Int
      /\ delivery[r] \in signed
      /\ seenAt[r] \in Nat /\ fresh[r] \in Nat
  <2>1. delivery[r] \in signed /\ signed \subseteq Delivery
    BY DEF TypeOK, Carried
  <2>2. eventId[r] \in Event
    BY DEF TypeOK
  <2>3. seenAt[r] \in 0 .. MaxTime /\ fresh[r] \in 0 .. MaxTime
    BY DEF TypeOK
  <2> QED BY <2>1, <2>2, <2>3, Timestamps, VerifierAssumption
<1>2. fresh[r] <= seenAt[r] /\ seenAt[r] <= fresh[r] + MaxDelay
  BY DEF RequestInv
<1>3. PICK o \in Offset : delivery[r][2] <= fresh[r] + o
  BY DEF SignedInv
<1>4. o \in Int /\ o + MaxDelay < MaxSkew /\ MaxSkew \in Nat /\ MaxDelay \in Nat
  BY VerifierAssumption DEF RoomForDelay
<1>5. fresh[r] - delivery[r][2] <= MaxSkew
  BY DEF AcceptedWithinSkew
<1> QED BY <1>1, <1>2, <1>3, <1>4, <1>5 DEF SeenTtl

\* The entry of an id a delivery was accepted under is in the cache for as long
\* as a request could carry the delivery, unless it was dropped for lack of room.
THEOREM Retained ==
  ASSUME DurationsSuffice, RoomForDelay
  PROVE  Spec => []RetainInv
<1> USE VerifierAssumption
<1>1. Init => RetainInv
  BY DEF Init, RetainInv
<1>2. TypeOK /\ Facts!CacheOK /\ Carried /\ RequestInv /\ SignedInv /\ AcceptedWithinSkew
     /\ RetainInv
     /\ [Next]_vars => RetainInv'
  <2> SUFFICES ASSUME TypeOK, Facts!CacheOK, Carried, RequestInv, SignedInv,
                      AcceptedWithinSkew, RetainInv, [Next]_vars
               PROVE  RetainInv'
    OBVIOUS
  <2>1. ASSUME UNCHANGED <<keys, expiresAt, accepted, evicted>> PROVE RetainInv'
    BY <2>1 DEF RetainInv
  <2>2. ASSUME NEW r \in Request, Accept(r) PROVE RetainInv'
    <3> DEFINE e == eventId[r]
    <3>1. pc[r] = "seen" /\ Cache!Insert(e, seenAt[r])
      BY <2>2 DEF Accept
    <3>2. /\ e \in Event /\ delivery[r][2] \in Int /\ seenAt[r] \in Nat
          /\ delivery[r][2] + MaxSkew + MaxDelay < seenAt[r] + SeenTtl
      BY <3>1, TimesOfAccept
    <3>3. /\ accepted' = accepted \cup {<<delivery[r], e>>}
          /\ evicted' = evicted \cup (keys \ keys')
      BY <2>2 DEF Accept, Served
    <3>4. /\ e \in keys' /\ (e \in keys => expiresAt[e] <= seenAt[r])
          /\ expiresAt' = [expiresAt EXCEPT ![e] = seenAt[r] + SeenTtl]
      BY <3>1, <3>2, CacheInsert
    <3>5. /\ expiresAt'[e] = seenAt[r] + SeenTtl
          /\ \A x \in Event : x # e => expiresAt'[x] = expiresAt[x]
          /\ \A x \in Event : expiresAt[x] \in Nat
      <4> HIDE DEF e
      <4> QED BY <3>2, <3>4 DEF TypeOK
    <3>6. SeenTtl \in Nat
      BY DEF SeenTtl
    <3>7. ASSUME NEW d \in Delivery, NEW id \in Event, <<d, id>> \in accepted',
                 id \notin evicted'
          PROVE  id \in keys' /\ d[2] + MaxSkew + MaxDelay < expiresAt'[id]
      <4>1. CASE d = delivery[r] /\ id = e
        BY <3>2, <3>4, <3>5, <4>1
      <4>2. CASE <<d, id>> \in accepted
        <5>1. /\ id \in keys /\ d[2] + MaxSkew + MaxDelay < expiresAt[id] /\ id \in keys'
          BY <3>3, <3>7, <4>2 DEF RetainInv
        <5>2. d[2] + MaxSkew + MaxDelay \in Int /\ expiresAt[id] \in Nat
          BY <3>5, Timestamps
        <5>3. CASE id = e
          <6>1. expiresAt[id] <= seenAt[r] /\ expiresAt'[id] = seenAt[r] + SeenTtl
            BY <3>4, <3>5, <5>1, <5>3
          <6> HIDE DEF e
          <6> QED BY <3>2, <3>6, <5>1, <5>2, <6>1
        <5>4. CASE id # e
          BY <3>5, <5>1, <5>4
        <5> QED BY <5>3, <5>4
      <4> QED BY <3>3, <3>7, <4>1, <4>2
    <3> QED BY <3>7 DEF RetainInv
  <2>3. ASSUME NEW r \in Request, Replayed(r) PROVE RetainInv'
    <3>1. eventId[r] \in Event
      BY <2>3, TimesOfAccept DEF Replayed
    <3>2. UNCHANGED <<keys, expiresAt>>
      BY <2>3, <3>1, CacheHit DEF Replayed
    <3> QED BY <2>1, <2>3, <3>2 DEF Replayed
  <2>4. ASSUME NEW e \in Event, Sign(e) PROVE RetainInv'
    BY <2>1, <2>4 DEF Sign, cacheVars
  <2>5. ASSUME NEW r \in Request, Arrive(r) \/ Refuse(r) \/ Stamp(r) PROVE RetainInv'
    BY <2>1, <2>5 DEF Arrive, Refuse, Stamp, cacheVars
  <2>6. CASE Tick \/ UNCHANGED vars
    BY <2>1, <2>6 DEF Tick, vars, cacheVars
  <2>7. ASSUME NEW r \in Request, AcceptUnseen(r) PROVE RetainInv'
    <3>1. /\ accepted' = accepted \cup {<<delivery[r], NoId>>}
          /\ UNCHANGED <<keys, expiresAt, evicted>>
      BY <2>7 DEF AcceptUnseen, Served, cacheVars
    <3>2. \A d \in Delivery, id \in Event : <<d, id>> \in accepted' => <<d, id>> \in accepted
      BY <3>1, DeliveryAssumption
    <3> QED BY <3>1, <3>2 DEF RetainInv
  <2> QED BY <2>2, <2>3, <2>4, <2>5, <2>6, <2>7 DEF Next, Serve
<1> QED BY <1>1, <1>2, TypeCorrect, RequestInvariant, SignedInvariant,
           WithinTheWindow, PTL DEF Spec

\* verifier.go, "duplicate events are rejected with ErrReplay", for requests
\* that carry the id: when the sender's lead and the time a body takes stay
\* below the skew together, what was signed once is accepted once under an id,
\* unless the cache dropped that id for lack of room.
THEOREM OnceAccepted ==
  ASSUME DurationsSuffice, RoomForDelay
  PROVE  Spec => []AcceptedOnce
<1>1. Init => AcceptedOnce
  BY DEF Init, AcceptedOnce
<1>2. TypeOK /\ Facts!CacheOK /\ Carried /\ RequestInv /\ SignedInv /\ AcceptedWithinSkew
     /\ RetainInv /\ AcceptedOnce
     /\ [Next]_vars => AcceptedOnce'
  <2> SUFFICES ASSUME TypeOK, Facts!CacheOK, Carried, RequestInv, SignedInv,
                      AcceptedWithinSkew, RetainInv, AcceptedOnce, [Next]_vars
               PROVE  AcceptedOnce'
    OBVIOUS
  <2>1. ASSUME NEW r \in Request, Accept(r) PROVE AcceptedOnce'
    <3> DEFINE e == eventId[r]
    <3>1. pc[r] = "seen" /\ Cache!Insert(e, seenAt[r])
      BY <2>1 DEF Accept
    <3>2. /\ e \in Event /\ delivery[r] \in Delivery
          /\ delivery[r][2] \in Int /\ seenAt[r] \in Nat
          /\ seenAt[r] <= delivery[r][2] + MaxSkew + MaxDelay
      BY <3>1, TimesOfAccept
    <3>3. e \in keys => expiresAt[e] <= seenAt[r]
      BY <3>1, <3>2, CacheInsert
    <3>4. expiresAt[e] \in Int /\ MaxSkew \in Nat /\ MaxDelay \in Nat
      BY <3>2, VerifierAssumption DEF TypeOK
    <3>5. <<delivery[r], e>> \in accepted => e \in evicted
      BY <3>2, <3>3, <3>4 DEF RetainInv
    <3>6. \A id \in twice' \ twice : id = e /\ <<delivery[r], e>> \in accepted
      BY <2>1, <3>1, ServedRecord DEF Accept
    <3> QED BY <2>1, <3>5, <3>6 DEF Accept, AcceptedOnce
  <2>2. ASSUME UNCHANGED <<twice, evicted>> PROVE AcceptedOnce'
    BY <2>2 DEF AcceptedOnce
  <2>3. ASSUME NEW r \in Request, Arrive(r) \/ Refuse(r) \/ Stamp(r) \/ Replayed(r)
        PROVE  AcceptedOnce'
    BY <2>2, <2>3 DEF Arrive, Refuse, Stamp, Replayed
  <2>4. CASE Tick \/ (\E e \in Event : Sign(e)) \/ UNCHANGED vars
    BY <2>2, <2>4 DEF Tick, Sign, vars
  <2>5. ASSUME NEW r \in Request, AcceptUnseen(r) PROVE AcceptedOnce'
    <3>1. evicted' = evicted /\ \A id \in twice' \ twice : id = NoId
      BY <2>5, ServedRecord DEF AcceptUnseen
    <3> QED BY <3>1 DEF AcceptedOnce
  <2> QED BY <2>1, <2>3, <2>4, <2>5 DEF Next, Serve
<1> QED BY <1>1, <1>2, TypeCorrect, RequestInvariant, SignedInvariant,
           WithinTheWindow, Retained, PTL DEF Spec

==============================================================================
