----------------------------- MODULE LRUCallsProofs -----------------------------
(***************************************************************************)
(* Theorems about the callers of one LRU, for any ids, capacity, retention *)
(* and waiting time: list and map never part, the list is in the order of  *)
(* use, and the LRU implements the contract of webhook.ReplayCache.        *)
(***************************************************************************)
EXTENDS LRUCalls, LRUProofs

\* The list is in the order of use: what stands in front was seen since.
RecencyInv == \A a, b \in Event : Before(a, b) => <<b, a>> \in older

-----------------------------------------------------------------------------
\* webhook.LRU, type correctness: after any calls the list and the map hold the
\* same ids, each once, and no more than the capacity.
THEOREM TypeCorrect == Spec => [](CacheOK /\ TypeOK)
<1>1. Init => CacheOK /\ TypeOK
  <2> SUFFICES ASSUME Init PROVE CacheOK /\ TypeOK
    OBVIOUS
  <2>1. list \in Seq(Event) /\ Len(list) = 0 /\ DOMAIN list = {}
    BY DEF Init, CacheInit
  <2>2. ToSet(list) = {} /\ IsInjective(list)
    BY <2>1 DEF ToSet, IsInjective
  <2> QED BY <2>1, <2>2, LRUAssumption, CallsAssumption
          DEF Init, CacheInit, CacheOK, TypeOK, ListMatchesMap
<1>2. CacheOK /\ TypeOK /\ [Next]_vars => (CacheOK /\ TypeOK)'
  <2> SUFFICES ASSUME CacheOK, TypeOK, [Next]_vars PROVE (CacheOK /\ TypeOK)'
    OBVIOUS
  <2> USE LRUAssumption, CallsAssumption
  <2>1. ASSUME NEW e \in Event, NEW now \in 0 .. clock,
               Hit(e, now) \/ Insert(e, now), Touch(e), clock' = clock
        PROVE  (CacheOK /\ TypeOK)'
    <3>1. now \in Nat /\ now <= MaxTime
      BY DEF TypeOK
    <3>2. CacheOK'
      BY <2>1, <3>1, HitEffect, InsertEffect
    <3>3. expiresAt' \in [Event -> 0 .. MaxTime + Ttl]
      BY <2>1, <3>1 DEF Hit, Insert, TypeOK
    <3>4. older' \subseteq Event \X Event
      BY <2>1 DEF Touch, TypeOK
    <3> QED BY <2>1, <3>2, <3>3, <3>4 DEF TypeOK, CacheOK
  <2>2. CASE Tick \/ UNCHANGED vars
    BY <2>2 DEF Tick, vars, cache, TypeOK, CacheOK, ListMatchesMap
  <2> QED BY <2>1, <2>2 DEF Next, Call
<1> QED BY <1>1, <1>2, PTL DEF Spec

\* The order of the list is the order of the calls, hits included.
THEOREM RecencyInvariant == Spec => []RecencyInv
<1>1. Init => RecencyInv
  BY DEF Init, CacheInit, RecencyInv, Before
<1>2. CacheOK /\ TypeOK /\ RecencyInv /\ [Next]_vars => RecencyInv'
  <2> SUFFICES ASSUME CacheOK, TypeOK, RecencyInv, [Next]_vars PROVE RecencyInv'
    OBVIOUS
  <2>1. ASSUME NEW e \in Event, NEW now \in 0 .. clock,
               Hit(e, now) \/ Insert(e, now), Touch(e)
        PROVE  RecencyInv'
    <3>1. \A a, b : Before(a, b)' => b # e /\ (a = e \/ Before(a, b))
      BY <2>1, HitEffect, InsertEffect DEF TypeOK
    <3> QED BY <2>1, <3>1 DEF Touch, RecencyInv
  <2>2. CASE Tick \/ UNCHANGED vars
    BY <2>2 DEF Tick, vars, cache, RecencyInv, Before
  <2> QED BY <2>1, <2>2 DEF Next, Call
<1> QED BY <1>1, <1>2, TypeCorrect, PTL DEF Spec

\* verifier.go, "The eviction policy is pure LRU": what a call drops was seen
\* less recently than everything that stays.
THEOREM LeastRecentFirst == Spec => EvictsLeastRecent
<1> DEFINE Safe == \A a \in keys \ keys', b \in keys \cap keys' : <<a, b>> \in older
<1>1. CacheOK /\ TypeOK /\ RecencyInv /\ [Next]_vars => [Safe]_vars
  <2> SUFFICES ASSUME CacheOK, TypeOK, RecencyInv, Next PROVE Safe
    OBVIOUS
  <2>1. ASSUME NEW e \in Event, NEW now \in 0 .. clock, Insert(e, now) PROVE Safe
    <3>1. \A a \in keys \ keys', b \in keys \cap keys' : Before(b, a)
      BY <2>1, InsertEffect DEF TypeOK
    <3> QED BY <3>1 DEF RecencyInv, CacheOK
  <2>2. CASE keys' = keys
    BY <2>2
  <2> QED BY <2>1, <2>2 DEF Next, Call, Tick, cache, Hit
<1> QED BY <1>1, TypeCorrect, RecencyInvariant, PTL DEF Spec, EvictsLeastRecent

\* webhook.ReplayCache, "Seen reports whether the event id has been observed":
\* an id is taken for a replay only if it was observed and its retention, but
\* for the wait for the lock, is not over; it is retained for the whole ttl from
\* a reading of the clock no older than that wait, and taken for a new one only
\* if it was not observed, that time is over, or it had to make room.
THEOREM Implementation == Spec => ImplementsContract
<1> USE LRUAssumption, CallsAssumption
<1>1. Init => Contract!Init
  BY DEF Init, CacheInit, Contract!Init
<1>2. CacheOK /\ TypeOK /\ [Next]_vars => [Contract!Next]_Contract!vars
  <2> SUFFICES ASSUME CacheOK, TypeOK, [Next]_vars
               PROVE  Contract!Next \/ UNCHANGED Contract!vars
    OBVIOUS
  <2>1. ASSUME NEW e \in Event, NEW now \in 0 .. clock, clock - now <= MaxLag,
               Hit(e, now), reply' = <<e, TRUE>>, clock' = clock
        PROVE  Contract!Recognise(e)
    BY <2>1 DEF Hit, TypeOK, Contract!Recognise
  <2>2. ASSUME NEW e \in Event, NEW now \in 0 .. clock, clock - now <= MaxLag,
               Insert(e, now), reply' = <<e, FALSE>>, clock' = clock
        PROVE  Contract!Mark(e)
    <3>1. /\ e \in keys' /\ keys' \subseteq keys \cup {e}
          /\ \/ keys \subseteq keys'
             \/ e \notin keys /\ Cardinality(keys) = Cap /\ Cardinality(keys') = Cap
      BY <2>2, InsertEffect DEF TypeOK
    <3>2. /\ now \in Nat /\ clock \in Nat /\ now <= clock
          /\ now + Ttl \in 0 .. clock + Ttl
          /\ clock + Ttl <= (now + Ttl) + MaxLag
      BY <2>2 DEF TypeOK
    <3>3. e \in keys => expiresAt[e] <= clock
      BY <2>2, <3>2 DEF Insert, TypeOK
    <3>4. \E d \in 0 .. clock + Ttl : /\ clock + Ttl <= d + MaxLag
                                     /\ expiresAt' = [expiresAt EXCEPT ![e] = d]
      BY <2>2, <3>2 DEF Insert
    <3>5. \/ keys \ keys' = {}
          \/ Cardinality(keys \ {e}) >= Cap /\ Cardinality(keys') = Cap
      <4>1. CASE keys \subseteq keys'
        BY <4>1
      <4>2. CASE e \notin keys /\ Cardinality(keys) = Cap /\ Cardinality(keys') = Cap
        <5>1. keys \ {e} = keys
          BY <4>2
        <5> QED BY <4>2, <5>1
      <4> QED BY <3>1, <4>1, <4>2
    <3>6. UNCHANGED clock /\ reply' = <<e, FALSE>>
      BY <2>2
    <3>7. \A S : Contract!Cardinality(S) = Cardinality(S)
      BY DEF Contract!Cardinality, Cardinality
    <3> QED BY <3>1, <3>3, <3>4, <3>5, <3>6, <3>7 DEF Contract!Mark
  <2>3. CASE Tick
    BY <2>3 DEF Tick, cache, Contract!Next, Contract!Pass
  <2>4. CASE UNCHANGED vars
    BY <2>4 DEF vars, cache, Contract!vars
  <2> QED BY <2>1, <2>2, <2>3, <2>4 DEF Next, Call, Contract!Next
<1> QED BY <1>1, <1>2, TypeCorrect, PTL DEF Spec, ImplementsContract, Contract!Spec
==============================================================================
