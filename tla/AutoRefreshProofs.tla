-------------------------- MODULE AutoRefreshProofs --------------------------
(***************************************************************************)
(* Theorems about AutoRefresh for any number of goroutines, sessions,      *)
(* tokens and tracks.                                                      *)
(*                                                                         *)
(* The argument: singleflight gives every track at most one goroutine past *)
(* Join (FlightInv); sessions never move to another track (HomeInv); and a *)
(* token is held by one session, by one request or by nobody (TokenInv).   *)
(* Each invariant is inductive relative to those before it.                *)
(***************************************************************************)
EXTENDS AutoRefresh, TLAPS

\* A leader with a request at the gateway or its answer in hand.
Exchanging(p) == pc[p] \in {"sent", "answer"}

\* The leader that has tested the session and holds on to it.
Holding(p) == pc[p] \in RefreshPC \ {"leadGet"}

\* Who runs the flight of a track, and that nobody waits for a flight that
\* has no leader.
FlightInv ==
  /\ \A p \in Proc : pc[p] \in RefreshPC => flight[trk[p]] = p
  /\ \A t \in Track, p \in Proc :
       flight[t] = p => trk[p] = t /\ pc[p] \in RefreshPC \cup PutPC
  /\ \A p \in Proc : pc[p] = "wait" => flight[trk[p]] \in Proc

\* Which track a session belongs to, wherever it is found.
HomeInv ==
  /\ \A s \in Session : track[s] \in {home[s], Unknown}
  /\ \A t \in Track : store[t] # NoSession => home[store[t]] = t
  /\ \A t \in Slot : store[t] # NoSession => home[store[t]] # Unknown
  /\ \A p \in Proc : cur[p] # NoSession => home[cur[p]] # Unknown
  /\ \A p \in Proc : Holding(p) \/ pc[p] \in CallPC => home[cur[p]] = trk[p]

\* What Put relies on between the erasure and the write; nothing that passes
\* a track test is ever filed under TrackUnknown.
PutInv ==
  /\ \A p \in Proc : pc[p] = "store" => mu = p
  /\ \A p \in Proc : pc[p] = "store" =>
       \/ store[track[cur[p]]] \in {NoSession, cur[p]}
       \/ track[store[track[cur[p]]]] = Unknown
  /\ store[Unknown] # NoSession => track[store[Unknown]] = Unknown

\* Tokens in sessions, requests and answers were issued, on the right track.
IssueInv ==
  /\ \A s \in Session : tok[s] # NoToken => issuedOn[tok[s]] = home[s] /\ home[s] # Unknown
  /\ \A p \in Proc : Exchanging(p) /\ sent[p] # NoToken => issuedOn[sent[p]] = trk[p]
  /\ \A p \in Proc : pc[p] = "answer" => ans[p] # NoToken
  /\ \A p \in Proc : pc[p] \in {"answer", "bearer"} /\ ans[p] # NoToken
                     => issuedOn[ans[p]] = trk[p]
  /\ \A k \in spent \cup lost : issuedOn[k] # Unknown

\* No token is in two places.
TokenInv ==
  /\ \A s1, s2 \in Session : tok[s1] # NoToken /\ tok[s1] = tok[s2] => s1 = s2
  /\ \A p \in Proc : Exchanging(p) => tok[cur[p]] \in {sent[p], NoToken}
  /\ \A p \in Proc, s \in Session :
       Exchanging(p) /\ sent[p] # NoToken /\ tok[s] = sent[p] => s = cur[p]
  /\ \A p \in Proc : pc[p] = "answer" =>
       /\ ans[p] \notin spent \cup lost
       /\ \A s \in Session : tok[s] # ans[p]
       /\ \A q \in Proc : Exchanging(q) => sent[q] # ans[p]
       /\ \A q \in Proc : pc[q] = "answer" /\ ans[q] = ans[p] => q = p

-----------------------------------------------------------------------------
\* The end of a call keeps every local variable of every goroutine in its type.
LEMMA ReturnType ==
  ASSUME TypeOK, NEW p \in Proc, NEW s \in Session \cup {NoSession}, Return(p, s)
  PROVE  /\ flight' \in [Track -> Proc \cup {NoProc}]
         /\ pc' \in [Proc -> Control] /\ trk' \in [Proc -> Track]
         /\ cur' \in [Proc -> Session \cup {NoSession}]
         /\ sent' \in [Proc -> Token \cup {NoToken}]
         /\ ans' \in [Proc -> Token \cup {NoToken}]
         /\ \A q \in Proc : pc'[q] # "idle" => cur'[q] # NoSession
  BY DEF TypeOK, Return, Control

\* Erase keeps sessions in their type.
LEMMA EraseType ==
  ASSUME TypeOK, NEW S, EraseAll(S)
  PROVE  /\ home' \in [Session -> Slot] /\ track' \in [Session -> Slot]
         /\ tok' \in [Session -> Token \cup {NoToken}]
         /\ stale' \in [Session -> BOOLEAN]
  BY DEF TypeOK, EraseAll, Slot

\* Type correctness of Session, MemoryStore, AutoRefresher and their callers:
\* in particular no path through Ensure, Refresh, Put or Call uses a nil session.
THEOREM TypeCorrect == Spec => []TypeOK
<1>1. Init => TypeOK
  BY SentinelAssumption DEF Init, TypeOK, Slot, Control
<1>2. TypeOK /\ [Next]_vars => TypeOK'
  <2> SUFFICES ASSUME TypeOK, [Next]_vars PROVE TypeOK'
    OBVIOUS
  <2> USE DEF gateway, heap, Goto, Slot, Get, NewSession, Update
  <2>1. ASSUME NEW p \in Proc, NEW t \in Track, EnsureGet(p, t) PROVE TypeOK'
    BY <2>1 DEF EnsureGet, TypeOK, Control
  <2>2. ASSUME NEW p \in Proc, EnsureCheck(p) PROVE TypeOK'
    BY <2>2 DEF EnsureCheck, TypeOK, Control
  <2>3. ASSUME NEW p \in Proc, Join(p) PROVE TypeOK'
    BY <2>3 DEF Join, TypeOK, Control, RefreshPC
  <2>4. ASSUME NEW p \in Proc, LeadGet(p) PROVE TypeOK'
    <3>1. CASE store[trk[p]] = NoSession
      BY <2>4, <3>1, ReturnType DEF LeadGet, TypeOK
    <3>2. CASE store[trk[p]] # NoSession
      BY <2>4, <3>2 DEF LeadGet, TypeOK, Control, RefreshPC
    <3> QED BY <3>1, <3>2
  <2>5. ASSUME NEW p \in Proc, LeadCheck(p) PROVE TypeOK'
    <3>1. CASE stale[cur[p]]
      BY <2>5, <3>1 DEF LeadCheck, NeedsRefresh, TypeOK, Control, RefreshPC
    <3>2. CASE ~stale[cur[p]]
      BY <2>5, <3>2, ReturnType DEF LeadCheck, NeedsRefresh, TypeOK
    <3> QED BY <3>1, <3>2
  <2>6. ASSUME NEW p \in Proc, RefreshTrack(p) PROVE TypeOK'
    <3>1. CASE track[cur[p]] = trk[p]
      BY <2>6, <3>1 DEF RefreshTrack, TypeOK, Control, RefreshPC
    <3>2. CASE track[cur[p]] # trk[p]
      BY <2>6, <3>2, ReturnType DEF RefreshTrack, TypeOK
    <3> QED BY <3>1, <3>2
  <2>7. ASSUME NEW p \in Proc, RefreshBody(p) PROVE TypeOK'
    BY <2>7 DEF RefreshBody, TypeOK, Control, RefreshPC
  <2>8. ASSUME NEW p \in Proc, GatewayExchange(p) PROVE TypeOK'
    BY <2>8 DEF GatewayExchange, TypeOK, Control, RefreshPC
  <2>9. ASSUME NEW p \in Proc, RefreshRejected(p) PROVE TypeOK'
    BY <2>9, ReturnType DEF RefreshRejected, TypeOK
  <2>10. ASSUME NEW p \in Proc, RefreshGivenUp(p) PROVE TypeOK'
    BY <2>10, ReturnType DEF RefreshGivenUp, TypeOK
  <2>11. ASSUME NEW p \in Proc, AnswerUpdate(p) PROVE TypeOK'
    BY <2>11 DEF AnswerUpdate, TypeOK, Control, PutPC
  <2>12. ASSUME NEW p \in Proc, NEW t \in Track, Login(p, t) PROVE TypeOK'
    BY <2>12, SentinelAssumption DEF Login, TypeOK, Control, PutPC
  <2>13. ASSUME NEW p \in Proc, PutCheck(p) PROVE TypeOK'
    <3>1. CASE track[cur[p]] = Unknown
      BY <2>13, <3>1, ReturnType DEF PutCheck, TypeOK
    <3>2. CASE track[cur[p]] # Unknown
      BY <2>13, <3>2 DEF PutCheck, TypeOK, Control, PutPC
    <3> QED BY <3>1, <3>2
  <2>14. ASSUME NEW p \in Proc, PutLookup(p) PROVE TypeOK'
    BY <2>14, EraseType DEF PutLookup, TypeOK, Control, PutPC
  <2>15. ASSUME NEW p \in Proc, PutStore(p) PROVE TypeOK'
    BY <2>15, ReturnType DEF PutStore, TypeOK
  <2>16. ASSUME NEW t \in Track, Delete(t) PROVE TypeOK'
    BY <2>16, EraseType DEF Delete, TypeOK
  <2>17. CASE Close
    BY <2>17, EraseType DEF Close, TypeOK
  <2>18. ASSUME NEW p \in Proc, Erase(p) PROVE TypeOK'
    BY <2>18, EraseType DEF Erase, TypeOK
  <2>19. ASSUME NEW s \in Session, Age(s) PROVE TypeOK'
    BY <2>19 DEF Age, TypeOK
  <2>20. ASSUME NEW k \in Token, GatewayLate(k) PROVE TypeOK'
    BY <2>20 DEF GatewayLate, TypeOK
  <2>21. ASSUME NEW p \in Proc, NEW t \in Track, CallGuard(p, t) PROVE TypeOK'
    BY <2>21 DEF CallGuard, TypeOK, Control, CallPC
  <2>22. ASSUME NEW p \in Proc, CallBearer(p) PROVE TypeOK'
    BY <2>22 DEF CallBearer, TypeOK, Control, CallPC
  <2>23. ASSUME NEW p \in Proc, CallDone(p) PROVE TypeOK'
    BY <2>23 DEF CallDone, TypeOK, Control
  <2>24. CASE UNCHANGED vars
    BY <2>24 DEF vars, TypeOK
  <2> QED
    BY <2>1, <2>2, <2>3, <2>4, <2>5, <2>6, <2>7, <2>8, <2>9, <2>10, <2>11, <2>12,
       <2>13, <2>14, <2>15, <2>16, <2>17, <2>18, <2>19, <2>20, <2>21, <2>22, <2>23,
       <2>24 DEF Next, Environment, Proceed, Begin, Refreshing, Network, Putting, Calling
<1> QED BY <1>1, <1>2, PTL DEF Spec

-----------------------------------------------------------------------------
\* Returning ends the flight of the goroutine that leads it, if it leads one,
\* and releases its followers; nothing else changes hands.
LEMMA ReturnFlight ==
  ASSUME TypeOK, FlightInv, NEW p \in Proc, NEW s \in Session \cup {NoSession},
         pc[p] # "wait", Return(p, s)
  PROVE  FlightInv'
<1> USE SentinelAssumption DEF TypeOK, Return, Sharing
<1>1. \A q \in Proc : pc[q] \in RefreshPC /\ q # p => flight[trk[q]] # p
  BY DEF FlightInv
<1>2. \A q \in Proc : pc'[q] \in RefreshPC => flight'[trk'[q]] = q
  BY <1>1 DEF FlightInv, RefreshPC
<1>3. \A t \in Track, q \in Proc :
        flight'[t] = q => trk'[q] = t /\ pc'[q] \in RefreshPC \cup PutPC
  BY DEF FlightInv, RefreshPC, PutPC
<1>4. \A q \in Proc : pc'[q] = "wait" => flight'[trk'[q]] \in Proc
  BY DEF FlightInv
<1> QED BY <1>2, <1>3, <1>4 DEF FlightInv

\* singleflight, seen from outside: a track has at most one goroutine at work
\* on its refresh, and whoever waits has a leader to wait for.
THEOREM FlightInvariant == Spec => []FlightInv
<1>1. Init => FlightInv
  BY SentinelAssumption DEF Init, FlightInv, RefreshPC
<1>2. TypeOK /\ FlightInv /\ [Next]_vars => FlightInv'
  <2> SUFFICES ASSUME TypeOK, FlightInv, [Next]_vars PROVE FlightInv'
    OBVIOUS
  <2> USE SentinelAssumption DEF Goto, RefreshPC, PutPC
  <2>1. ASSUME NEW p \in Proc, NEW t \in Track, EnsureGet(p, t) PROVE FlightInv'
    BY <2>1 DEF EnsureGet, TypeOK, FlightInv
  <2>2. ASSUME NEW p \in Proc, EnsureCheck(p) PROVE FlightInv'
    BY <2>2 DEF EnsureCheck, TypeOK, FlightInv
  <2>3. ASSUME NEW p \in Proc, Join(p) PROVE FlightInv'
    BY <2>3 DEF Join, TypeOK, FlightInv
  <2>4. ASSUME NEW p \in Proc, LeadGet(p) PROVE FlightInv'
    <3>1. CASE store[trk[p]] = NoSession
      BY <2>4, <3>1, ReturnFlight DEF LeadGet, Get
    <3>2. CASE store[trk[p]] # NoSession
      BY <2>4, <3>2 DEF LeadGet, Get, TypeOK, FlightInv
    <3> QED BY <3>1, <3>2
  <2>5. ASSUME NEW p \in Proc, LeadCheck(p) PROVE FlightInv'
    <3>1. CASE stale[cur[p]]
      BY <2>5, <3>1 DEF LeadCheck, NeedsRefresh, TypeOK, FlightInv
    <3>2. CASE ~stale[cur[p]]
      BY <2>5, <3>2, ReturnFlight DEF LeadCheck, NeedsRefresh, TypeOK
    <3> QED BY <3>1, <3>2
  <2>6. ASSUME NEW p \in Proc, RefreshTrack(p) PROVE FlightInv'
    <3>1. CASE track[cur[p]] = trk[p]
      BY <2>6, <3>1 DEF RefreshTrack, TypeOK, FlightInv
    <3>2. CASE track[cur[p]] # trk[p]
      BY <2>6, <3>2, ReturnFlight DEF RefreshTrack
    <3> QED BY <3>1, <3>2
  <2>7. ASSUME NEW p \in Proc, RefreshBody(p) \/ AnswerUpdate(p) PROVE FlightInv'
    BY <2>7 DEF RefreshBody, AnswerUpdate, TypeOK, FlightInv
  <2>8. ASSUME NEW p \in Proc, GatewayExchange(p) PROVE FlightInv'
    BY <2>8 DEF GatewayExchange, TypeOK, FlightInv
  <2>9. ASSUME NEW p \in Proc, RefreshRejected(p) \/ RefreshGivenUp(p) PROVE FlightInv'
    BY <2>9, ReturnFlight DEF RefreshRejected, RefreshGivenUp
  <2>10. ASSUME NEW p \in Proc, NEW t \in Track, Login(p, t) PROVE FlightInv'
    BY <2>10 DEF Login, TypeOK, FlightInv
  <2>11. ASSUME NEW p \in Proc, PutCheck(p) PROVE FlightInv'
    <3>1. CASE track[cur[p]] = Unknown
      BY <2>11, <3>1, ReturnFlight DEF PutCheck
    <3>2. CASE track[cur[p]] # Unknown
      BY <2>11, <3>2 DEF PutCheck, TypeOK, FlightInv
    <3> QED BY <3>1, <3>2
  <2>12. ASSUME NEW p \in Proc, PutLookup(p) PROVE FlightInv'
    BY <2>12 DEF PutLookup, TypeOK, FlightInv
  <2>13. ASSUME NEW p \in Proc, PutStore(p) PROVE FlightInv'
    BY <2>13, ReturnFlight DEF PutStore, TypeOK
  <2>14. CASE Environment
    BY <2>14 DEF Environment, Close, Delete, Age, GatewayLate, FlightInv
  <2>15. ASSUME NEW p \in Proc, Erase(p) PROVE FlightInv'
    BY <2>15 DEF Erase, FlightInv
  <2>16. ASSUME NEW p \in Proc, NEW t \in Track, CallGuard(p, t) PROVE FlightInv'
    BY <2>16 DEF CallGuard, TypeOK, FlightInv
  <2>17. ASSUME NEW p \in Proc, CallBearer(p) \/ CallDone(p) PROVE FlightInv'
    BY <2>17 DEF CallBearer, CallDone, TypeOK, FlightInv
  <2>18. CASE UNCHANGED vars
    BY <2>18 DEF vars, FlightInv
  <2> QED
    BY <2>1, <2>2, <2>3, <2>4, <2>5, <2>6, <2>7, <2>8, <2>9, <2>10, <2>11, <2>12, <2>13,
       <2>14, <2>15, <2>16, <2>17, <2>18
       DEF Next, Proceed, Begin, Refreshing, Network, Putting, Calling
<1> QED BY <1>1, <1>2, TypeCorrect, PTL DEF Spec

-----------------------------------------------------------------------------
\* Returning a session that exists hands nobody a session of another track.
LEMMA ReturnHome ==
  ASSUME TypeOK, HomeInv, NEW p \in Proc, NEW s \in Session \cup {NoSession},
         s # NoSession => home[s] # Unknown,
         Return(p, s), home' = home
  PROVE  /\ \A q \in Proc : cur'[q] # NoSession => home'[cur'[q]] # Unknown
         /\ \A q \in Proc : Holding(q)' \/ pc'[q] \in CallPC => home'[cur'[q]] = trk'[q]
  BY DEF TypeOK, Return, HomeInv, Holding, RefreshPC, CallPC

\* Erasing sessions moves none of them to another track.
LEMMA EraseHome ==
  ASSUME TypeOK, HomeInv, NEW S, EraseAll(S), UNCHANGED <<pc, cur, trk>>,
         \A t \in Slot : store'[t] \in {store[t], NoSession}
  PROVE  HomeInv'
  BY DEF TypeOK, EraseAll, HomeInv, Holding, Slot

\* A session is only ever found under the track it was created for, and only
\* handed to callers of that track; erased sessions end under TrackUnknown.
THEOREM HomeInvariant == Spec => []HomeInv
<1>1. Init => HomeInv
  BY DEF Init, HomeInv, Holding, RefreshPC, CallPC, Slot
<1>2. TypeOK /\ HomeInv /\ [Next]_vars => HomeInv'
  <2> SUFFICES ASSUME TypeOK, HomeInv, [Next]_vars PROVE HomeInv'
    OBVIOUS
  <2> USE SentinelAssumption DEF Goto, heap, Slot, Get, NewSession, Update
  <2>1. ASSUME NEW p \in Proc, NEW t \in Track, EnsureGet(p, t) PROVE HomeInv'
    BY <2>1 DEF EnsureGet, TypeOK, HomeInv, Holding, RefreshPC, CallPC
  <2>2. ASSUME NEW p \in Proc, EnsureCheck(p) \/ Join(p) PROVE HomeInv'
    BY <2>2 DEF EnsureCheck, Join, TypeOK, HomeInv, Holding, RefreshPC, CallPC
  <2>3. ASSUME NEW p \in Proc, LeadGet(p) PROVE HomeInv'
    <3>1. CASE store[trk[p]] = NoSession
      BY <2>3, <3>1, ReturnHome DEF LeadGet, HomeInv
    <3>2. CASE store[trk[p]] # NoSession
      BY <2>3, <3>2 DEF LeadGet, TypeOK, HomeInv, Holding, RefreshPC, CallPC
    <3> QED BY <3>1, <3>2
  <2>4. ASSUME NEW p \in Proc, LeadCheck(p) PROVE HomeInv'
    <3>1. CASE stale[cur[p]]
      BY <2>4, <3>1 DEF LeadCheck, NeedsRefresh, TypeOK, HomeInv, Holding, RefreshPC, CallPC
    <3>2. CASE ~stale[cur[p]]
      BY <2>4, <3>2, ReturnHome DEF LeadCheck, NeedsRefresh, TypeOK, HomeInv
    <3> QED BY <3>1, <3>2
  <2>5. ASSUME NEW p \in Proc, RefreshTrack(p) PROVE HomeInv'
    <3>1. CASE track[cur[p]] = trk[p]
      BY <2>5, <3>1 DEF RefreshTrack, TypeOK, HomeInv, Holding, RefreshPC, CallPC
    <3>2. CASE track[cur[p]] # trk[p]
      BY <2>5, <3>2, ReturnHome DEF RefreshTrack, HomeInv
    <3> QED BY <3>1, <3>2
  <2>6. ASSUME NEW p \in Proc, RefreshBody(p) \/ GatewayExchange(p) PROVE HomeInv'
    BY <2>6 DEF RefreshBody, GatewayExchange, TypeOK, HomeInv, Holding, RefreshPC, CallPC
  <2>7. ASSUME NEW p \in Proc, RefreshRejected(p) \/ RefreshGivenUp(p) PROVE HomeInv'
    BY <2>7, ReturnHome DEF RefreshRejected, RefreshGivenUp, HomeInv
  <2>8. ASSUME NEW p \in Proc, AnswerUpdate(p) PROVE HomeInv'
    BY <2>8 DEF AnswerUpdate, TypeOK, HomeInv, Holding, RefreshPC, CallPC
  <2>9. ASSUME NEW p \in Proc, NEW t \in Track, Login(p, t) PROVE HomeInv'
    BY <2>9 DEF Login, TypeOK, HomeInv, Holding, RefreshPC, CallPC
  <2>10. ASSUME NEW p \in Proc, PutCheck(p) PROVE HomeInv'
    <3>1. CASE track[cur[p]] = Unknown
      BY <2>10, <3>1, ReturnHome DEF PutCheck, HomeInv
    <3>2. CASE track[cur[p]] # Unknown
      BY <2>10, <3>2 DEF PutCheck, TypeOK, HomeInv, Holding, RefreshPC, CallPC
    <3> QED BY <3>1, <3>2
  <2>11. ASSUME NEW p \in Proc, PutLookup(p) PROVE HomeInv'
    BY <2>11 DEF PutLookup, EraseAll, TypeOK, HomeInv, Holding, RefreshPC, CallPC
  <2>12. ASSUME NEW p \in Proc, PutStore(p) PROVE HomeInv'
    <3>1. cur[p] \in Session /\ home[cur[p]] # Unknown
      BY <2>12 DEF PutStore, TypeOK, HomeInv
    <3>2. \A t \in Slot : store'[t] # NoSession => home[store'[t]] # Unknown
      BY <2>12, <3>1 DEF PutStore, TypeOK, HomeInv
    <3>3. \A t \in Track : store'[t] # NoSession => home[store'[t]] = t
      BY <2>12, <3>1 DEF PutStore, TypeOK, HomeInv
    <3> QED BY <2>12, <3>1, <3>2, <3>3, ReturnHome DEF PutStore, HomeInv
  <2>13. ASSUME NEW t \in Track, Delete(t) PROVE HomeInv'
    BY <2>13, EraseHome DEF Delete, TypeOK
  <2>14. CASE Close
    BY <2>14, EraseHome DEF Close, TypeOK
  <2>15. ASSUME NEW p \in Proc, Erase(p) PROVE HomeInv'
    BY <2>15, EraseHome DEF Erase, TypeOK
  <2>16. ASSUME NEW p \in Proc, NEW t \in Track, CallGuard(p, t) PROVE HomeInv'
    BY <2>16 DEF CallGuard, TypeOK, HomeInv, Holding, RefreshPC, CallPC
  <2>17. ASSUME NEW p \in Proc, CallBearer(p) \/ CallDone(p) PROVE HomeInv'
    BY <2>17 DEF CallBearer, CallDone, TypeOK, HomeInv, Holding, RefreshPC, CallPC
  <2>18. CASE UNCHANGED vars
    BY <2>18 DEF vars, HomeInv, Holding
  <2>19. ASSUME NEW s \in Session, Age(s) PROVE HomeInv'
    BY <2>19 DEF Age, HomeInv, Holding
  <2>20. ASSUME NEW k \in Token, GatewayLate(k) PROVE HomeInv'
    BY <2>20 DEF GatewayLate, HomeInv, Holding
  <2> QED
    BY <2>1, <2>2, <2>3, <2>4, <2>5, <2>6, <2>7, <2>8, <2>9, <2>10, <2>11, <2>12, <2>13,
       <2>14, <2>15, <2>16, <2>17, <2>18, <2>19, <2>20
       DEF Next, Environment, Proceed, Begin, Refreshing, Network, Putting, Calling
<1> QED BY <1>1, <1>2, TypeCorrect, PTL DEF Spec

-----------------------------------------------------------------------------
\* Erasing sessions, possibly dropping them from the store, leaves whoever is
\* between Put's erasure and its write where it was.
LEMMA ErasePut ==
  ASSUME TypeOK, PutInv, NEW S, EraseAll(S), UNCHANGED <<pc, cur, mu>>,
         \/ UNCHANGED store
         \/ mu = NoProc /\ \A t \in Slot : store'[t] \in {store[t], NoSession}
  PROVE  PutInv'
<1> USE SentinelAssumption DEF TypeOK, EraseAll, Slot
<1>1. \A p \in Proc : pc'[p] = "store" =>
        /\ mu' = p
        /\ cur'[p] \in Session /\ UNCHANGED store
        /\ track'[cur'[p]] \in {track[cur[p]], Unknown}
  BY DEF PutInv
<1>2. store'[Unknown] # NoSession => track'[store'[Unknown]] = Unknown
  BY DEF PutInv
<1>3. \A p \in Proc : pc'[p] = "store" =>
        \/ store'[track'[cur'[p]]] \in {NoSession, cur'[p]}
        \/ track'[store'[track'[cur'[p]]]] = Unknown
  BY <1>1, <1>2 DEF PutInv
<1> QED BY <1>1, <1>2, <1>3 DEF PutInv

\* A step that leaves the store, its lock and the tracks alone and sends
\* nobody into Put's critical section keeps PutInv.
LEMMA AsidePut ==
  ASSUME TypeOK, PutInv, UNCHANGED <<track, store, mu>>,
         \A q \in Proc : pc'[q] = "store" => pc[q] = "store" /\ cur'[q] = cur[q]
  PROVE  PutInv'
  BY DEF PutInv

\* Returning sends nobody into Put's critical section.
LEMMA ReturnAside ==
  ASSUME TypeOK, NEW p \in Proc, NEW s, Return(p, s)
  PROVE  \A q \in Proc : pc'[q] = "store" => pc[q] = "store" /\ cur'[q] = cur[q] /\ q # p
  BY DEF Return, Sharing, TypeOK

\* MemoryStore.Put between its two looks at the session's track.
THEOREM PutInvariant == Spec => []PutInv
<1>1. Init => PutInv
  BY DEF Init, PutInv, Slot
<1>2. TypeOK /\ HomeInv /\ PutInv /\ [Next]_vars => PutInv'
  <2> SUFFICES ASSUME TypeOK, HomeInv, PutInv, [Next]_vars PROVE PutInv'
    OBVIOUS
  <2> USE SentinelAssumption DEF Goto, heap, NewSession, Update
  <2>1. ASSUME NEW p \in Proc, NEW t \in Track, EnsureGet(p, t) \/ CallGuard(p, t)
        PROVE PutInv'
    BY <2>1, AsidePut DEF EnsureGet, CallGuard, TypeOK
  <2>2. ASSUME NEW p \in Proc, EnsureCheck(p) \/ Join(p) PROVE PutInv'
    BY <2>2, AsidePut DEF EnsureCheck, Join, TypeOK
  <2>3. ASSUME NEW p \in Proc, LeadGet(p) PROVE PutInv'
    BY <2>3, AsidePut, ReturnAside DEF LeadGet, TypeOK
  <2>4. ASSUME NEW p \in Proc, LeadCheck(p) \/ RefreshTrack(p) PROVE PutInv'
    BY <2>4, AsidePut, ReturnAside DEF LeadCheck, RefreshTrack, TypeOK
  <2>5. ASSUME NEW p \in Proc, RefreshBody(p) \/ GatewayExchange(p) PROVE PutInv'
    BY <2>5, AsidePut DEF RefreshBody, GatewayExchange, TypeOK
  <2>6. ASSUME NEW p \in Proc, RefreshRejected(p) \/ RefreshGivenUp(p) PROVE PutInv'
    BY <2>6, AsidePut, ReturnAside DEF RefreshRejected, RefreshGivenUp
  <2>7. ASSUME NEW p \in Proc, AnswerUpdate(p) PROVE PutInv'
    BY <2>7, AsidePut DEF AnswerUpdate, TypeOK
  <2>8. ASSUME NEW p \in Proc, NEW t \in Track, Login(p, t) PROVE PutInv'
    <3>1. PICK s \in Session : /\ home[s] = Unknown
                               /\ track' = [track EXCEPT ![s] = t]
                               /\ cur' = [cur EXCEPT ![p] = s]
      BY <2>8 DEF Login
    <3>2. \A u \in Slot : store[u] # s
      BY <3>1 DEF HomeInv, TypeOK
    <3>3. \A q \in Proc : pc'[q] = "store" =>
            pc[q] = "store" /\ cur'[q] = cur[q] /\ track'[cur[q]] = track[cur[q]]
      BY <2>8, <3>1 DEF Login, TypeOK, HomeInv
    <3>4. store' = store /\ mu' = mu
      BY <2>8 DEF Login
    <3> QED BY <3>1, <3>2, <3>3, <3>4 DEF PutInv, TypeOK, Slot
  <2>9. ASSUME NEW p \in Proc, PutCheck(p) PROVE PutInv'
    BY <2>9, AsidePut, ReturnAside DEF PutCheck, TypeOK
  <2>10. ASSUME NEW p \in Proc, PutLookup(p) PROVE PutInv'
    <3>1. /\ cur[p] \in Session /\ cur' = cur /\ store' = store /\ mu' = p
          /\ \A q \in Proc : pc'[q] = "store" => q = p
      BY <2>10 DEF PutLookup, MuFree, TypeOK, PutInv
    <3>2. store[Unknown] # NoSession => track'[store[Unknown]] = Unknown
      BY <2>10 DEF PutLookup, EraseAll, PutInv, TypeOK, Slot
    <3>3. CASE cur[p] \in Displaced(p)
      BY <3>3 DEF Displaced
    <3>4. CASE cur[p] \notin Displaced(p)
      <4>1. track'[cur[p]] = track[cur[p]]
        BY <2>10, <3>1, <3>4 DEF PutLookup, EraseAll
      <4>2. \/ store[track[cur[p]]] \in {NoSession, cur[p]}
            \/ track'[store[track[cur[p]]]] = Unknown
        BY <2>10, <3>1 DEF PutLookup, EraseAll, Displaced, TypeOK
      <4> QED BY <3>1, <3>2, <4>1, <4>2 DEF PutInv
    <3> QED BY <3>3, <3>4
  <2>11. ASSUME NEW p \in Proc, PutStore(p) PROVE PutInv'
    <3>1. \A q \in Proc : pc'[q] # "store"
      BY <2>11, ReturnAside DEF PutStore, PutInv
    <3>2. store'[Unknown] # NoSession => track'[store'[Unknown]] = Unknown
      BY <2>11 DEF PutStore, TypeOK, PutInv, Slot
    <3> QED BY <3>1, <3>2 DEF PutInv
  <2>12. ASSUME NEW t \in Track, Delete(t) PROVE PutInv'
    BY <2>12, ErasePut DEF Delete, MuFree, TypeOK
  <2>13. CASE Close
    BY <2>13, ErasePut DEF Close, MuFree, TypeOK
  <2>14. ASSUME NEW p \in Proc, Erase(p) PROVE PutInv'
    BY <2>14, ErasePut DEF Erase
  <2>15. ASSUME NEW s \in Session, Age(s) PROVE PutInv'
    BY <2>15, AsidePut DEF Age
  <2>16. ASSUME NEW k \in Token, GatewayLate(k) PROVE PutInv'
    BY <2>16, AsidePut DEF GatewayLate
  <2>17. ASSUME NEW p \in Proc, CallBearer(p) \/ CallDone(p) PROVE PutInv'
    BY <2>17, AsidePut DEF CallBearer, CallDone, TypeOK
  <2>18. CASE UNCHANGED vars
    BY <2>18, AsidePut DEF vars
  <2> QED
    BY <2>1, <2>2, <2>3, <2>4, <2>5, <2>6, <2>7, <2>8, <2>9, <2>10, <2>11, <2>12, <2>13,
       <2>14, <2>15, <2>16, <2>17, <2>18
       DEF Next, Environment, Proceed, Begin, Refreshing, Network, Putting, Calling
<1> QED BY <1>1, <1>2, TypeCorrect, HomeInvariant, PTL DEF Spec

\* A session that loses its slot fails every track test from then on, even
\* when Put read one track for the erasure and another for the write.
THEOREM Displacement == Spec => DisplacedErased
<1> DEFINE Safe == \A t \in Slot : store[t] # NoSession /\ store'[t] # store[t]
                                   => track'[store[t]] = Unknown
<1>1. TypeOK /\ PutInv /\ [Next]_vars => [Safe]_vars
  <2> SUFFICES ASSUME TypeOK, PutInv, Next PROVE Safe
    OBVIOUS
  <2> USE DEF heap, Slot
  <2>1. ASSUME NEW p \in Proc, PutStore(p) PROVE Safe
    BY <2>1 DEF PutStore, PutInv, TypeOK
  <2>2. ASSUME NEW t \in Track, Delete(t) PROVE Safe
    BY <2>2 DEF Delete, EraseAll, TypeOK
  <2>3. CASE Close
    BY <2>3 DEF Close, EraseAll, Stored, TypeOK
  <2>4. CASE UNCHANGED store
    BY <2>4
  <2> QED
    BY <2>1, <2>2, <2>3, <2>4
       DEF Next, Environment, Proceed, Begin, Refreshing, Network, Putting, Calling,
           EnsureGet, EnsureCheck, Join, LeadGet, LeadCheck, RefreshTrack, RefreshBody,
           GatewayExchange, RefreshRejected, RefreshGivenUp, GatewayLate, AnswerUpdate,
           Login, PutCheck, PutLookup, Erase, Age, CallGuard, CallBearer, CallDone
<1> QED BY <1>1, TypeCorrect, PutInvariant, PTL DEF Spec, DisplacedErased

-----------------------------------------------------------------------------
\* Returning only removes goroutines from the places IssueInv speaks of.
LEMMA ReturnIssue ==
  ASSUME TypeOK, IssueInv, NEW p \in Proc, NEW s, Return(p, s),
         UNCHANGED <<home, tok, issuedOn>>,
         spent' = spent,
         lost' = lost \/ (Exchanging(p) /\ lost' = lost \cup ({sent[p]} \ {NoToken}))
  PROVE  IssueInv'
<1> USE SentinelAssumption DEF TypeOK, IssueInv, Exchanging
<1>1. \A q \in Proc : pc'[q] \in {"sent", "answer", "bearer"} =>
        /\ pc'[q] = pc[q] /\ q # p /\ trk'[q] = trk[q]
        /\ sent'[q] = sent[q] /\ ans'[q] = ans[q]
  BY DEF Return, Sharing
<1>2. \A k \in spent' \cup lost' : issuedOn'[k] # Unknown
  BY DEF Slot
<1> QED BY <1>1, <1>2

\* Erasing sessions and dropping them from the store concerns no issued token.
LEMMA EraseIssue ==
  ASSUME TypeOK, IssueInv, NEW S, EraseAll(S),
         UNCHANGED <<pc, trk, sent, ans, gateway>>
  PROVE  IssueInv'
  BY DEF TypeOK, EraseAll, IssueInv, Exchanging, gateway

\* Every token in a session, in a request, in an answer or in a header was
\* issued by the gateway on the track it is used for.
THEOREM IssueInvariant == Spec => []IssueInv
<1>1. Init => IssueInv
  BY DEF Init, IssueInv, Exchanging
<1>2. TypeOK /\ HomeInv /\ IssueInv /\ [Next]_vars => IssueInv'
  <2> SUFFICES ASSUME TypeOK, HomeInv, IssueInv, [Next]_vars PROVE IssueInv'
    OBVIOUS
  <2> USE SentinelAssumption DEF Goto, heap, gateway, NewSession, Update
  <2>1. ASSUME NEW p \in Proc, NEW t \in Track, EnsureGet(p, t) \/ CallGuard(p, t)
        PROVE IssueInv'
    BY <2>1 DEF EnsureGet, CallGuard, TypeOK, IssueInv, Exchanging
  <2>2. ASSUME NEW p \in Proc, EnsureCheck(p) \/ Join(p) PROVE IssueInv'
    BY <2>2 DEF EnsureCheck, Join, TypeOK, IssueInv, Exchanging
  <2>3. ASSUME NEW p \in Proc, LeadGet(p) PROVE IssueInv'
    <3>1. CASE store[trk[p]] = NoSession
      BY <2>3, <3>1, ReturnIssue DEF LeadGet, Get
    <3>2. CASE store[trk[p]] # NoSession
      BY <2>3, <3>2 DEF LeadGet, Get, TypeOK, IssueInv, Exchanging
    <3> QED BY <3>1, <3>2
  <2>4. ASSUME NEW p \in Proc, LeadCheck(p) PROVE IssueInv'
    <3>1. CASE stale[cur[p]]
      BY <2>4, <3>1 DEF LeadCheck, NeedsRefresh, TypeOK, IssueInv, Exchanging
    <3>2. CASE ~stale[cur[p]]
      BY <2>4, <3>2, ReturnIssue DEF LeadCheck, NeedsRefresh
    <3> QED BY <3>1, <3>2
  <2>5. ASSUME NEW p \in Proc, RefreshTrack(p) PROVE IssueInv'
    <3>1. CASE track[cur[p]] = trk[p]
      BY <2>5, <3>1 DEF RefreshTrack, TypeOK, IssueInv, Exchanging
    <3>2. CASE track[cur[p]] # trk[p]
      BY <2>5, <3>2, ReturnIssue DEF RefreshTrack
    <3> QED BY <3>1, <3>2
  <2>6. ASSUME NEW p \in Proc, RefreshBody(p) PROVE IssueInv'
    <3>1. cur[p] \in Session /\ home[cur[p]] = trk[p]
      BY <2>6 DEF RefreshBody, TypeOK, HomeInv, Holding, RefreshPC
    <3> QED BY <2>6, <3>1 DEF RefreshBody, TypeOK, IssueInv, Exchanging
  <2>7. ASSUME NEW p \in Proc, GatewayExchange(p) PROVE IssueInv'
    <3>1. PICK k \in Token : /\ issuedOn[k] = Unknown
                             /\ issuedOn' = [issuedOn EXCEPT ![k] = issuedOn[sent[p]]]
                             /\ ans' = [ans EXCEPT ![p] = k]
      BY <2>7 DEF GatewayExchange
    <3>2. issuedOn[sent[p]] = trk[p] /\ trk[p] \in Track /\ sent[p] # k
      BY <2>7, <3>1 DEF GatewayExchange, IssueInv, Exchanging, TypeOK
    <3> QED BY <2>7, <3>1, <3>2 DEF GatewayExchange, TypeOK, IssueInv, Exchanging
  <2>8. ASSUME NEW p \in Proc, RefreshRejected(p) \/ RefreshGivenUp(p) PROVE IssueInv'
    BY <2>8, ReturnIssue DEF RefreshRejected, RefreshGivenUp, Exchanging
  <2>9. ASSUME NEW p \in Proc, AnswerUpdate(p) PROVE IssueInv'
    <3>1. cur[p] \in Session /\ home[cur[p]] = trk[p] /\ trk[p] # Unknown
      BY <2>9 DEF AnswerUpdate, TypeOK, HomeInv, Holding, RefreshPC
    <3> QED BY <2>9, <3>1 DEF AnswerUpdate, TypeOK, IssueInv, Exchanging
  <2>10. ASSUME NEW p \in Proc, NEW t \in Track, Login(p, t) PROVE IssueInv'
    BY <2>10 DEF Login, TypeOK, IssueInv, Exchanging
  <2>11. ASSUME NEW p \in Proc, PutCheck(p) PROVE IssueInv'
    <3>1. CASE track[cur[p]] = Unknown
      BY <2>11, <3>1, ReturnIssue DEF PutCheck
    <3>2. CASE track[cur[p]] # Unknown
      BY <2>11, <3>2 DEF PutCheck, TypeOK, IssueInv, Exchanging
    <3> QED BY <3>1, <3>2
  <2>12. ASSUME NEW p \in Proc, PutLookup(p) PROVE IssueInv'
    BY <2>12 DEF PutLookup, EraseAll, TypeOK, IssueInv, Exchanging
  <2>13. ASSUME NEW p \in Proc, PutStore(p) PROVE IssueInv'
    BY <2>13, ReturnIssue DEF PutStore
  <2>14. ASSUME NEW t \in Track, Delete(t) PROVE IssueInv'
    BY <2>14, EraseIssue DEF Delete
  <2>15. CASE Close
    BY <2>15, EraseIssue DEF Close
  <2>16. ASSUME NEW p \in Proc, Erase(p) PROVE IssueInv'
    BY <2>16, EraseIssue DEF Erase
  <2>17. ASSUME NEW s \in Session, Age(s) PROVE IssueInv'
    BY <2>17 DEF Age, IssueInv, Exchanging
  <2>18. ASSUME NEW k \in Token, GatewayLate(k) PROVE IssueInv'
    BY <2>18 DEF GatewayLate, IssueInv, Exchanging
  <2>19. ASSUME NEW p \in Proc, CallBearer(p) PROVE IssueInv'
    <3>1. cur[p] \in Session /\ home[cur[p]] = trk[p]
      BY <2>19 DEF CallBearer, TypeOK, HomeInv, CallPC
    <3> QED BY <2>19, <3>1 DEF CallBearer, TypeOK, IssueInv, Exchanging
  <2>20. ASSUME NEW p \in Proc, CallDone(p) PROVE IssueInv'
    BY <2>20 DEF CallDone, TypeOK, IssueInv, Exchanging
  <2>21. CASE UNCHANGED vars
    BY <2>21 DEF vars, IssueInv, Exchanging
  <2> QED
    BY <2>1, <2>2, <2>3, <2>4, <2>5, <2>6, <2>7, <2>8, <2>9, <2>10, <2>11, <2>12, <2>13,
       <2>14, <2>15, <2>16, <2>17, <2>18, <2>19, <2>20, <2>21
       DEF Next, Environment, Proceed, Begin, Refreshing, Network, Putting, Calling
<1> QED BY <1>1, <1>2, TypeCorrect, HomeInvariant, PTL DEF Spec

\* store.go's design rule: under a track there are only tokens of that track.
THEOREM Isolation == Spec => []TrackIsolation
<1>1. TypeOK /\ HomeInv /\ IssueInv => TrackIsolation
  BY DEF TypeOK, HomeInv, IssueInv, TrackIsolation, Slot
<1> QED BY <1>1, TypeCorrect, HomeInvariant, IssueInvariant, PTL

\* The cross-track guard of client.Call does its work although the session may
\* be erased, replaced or refreshed between the guard and the header.
THEOREM BearerIsolation == Spec => []BearerOnTrack
<1>1. IssueInv => BearerOnTrack
  BY DEF IssueInv, BearerOnTrack
<1> QED BY <1>1, IssueInvariant, PTL

-----------------------------------------------------------------------------
\* Two leaders never hold the same session, nor a token of the same track.
LEMMA OneHolder ==
  ASSUME TypeOK, FlightInv, HomeInv, NEW p \in Proc, NEW q \in Proc,
         Holding(p), Holding(q), cur[p] = cur[q] \/ trk[p] = trk[q]
  PROVE  p = q
  BY DEF TypeOK, FlightInv, HomeInv, Holding

\* A step that moves no token and starts no exchange.
LEMMA AsideToken ==
  ASSUME TypeOK, TokenInv, UNCHANGED <<tok, spent, lost>>,
         \A q \in Proc : Exchanging(q)' =>
           /\ pc'[q] = pc[q] /\ cur'[q] = cur[q]
           /\ sent'[q] = sent[q] /\ ans'[q] = ans[q]
  PROVE  TokenInv'
  BY DEF TokenInv, Exchanging

\* The end of a call ends at most its own exchange.
LEMMA ReturnExchange ==
  ASSUME TypeOK, NEW p \in Proc, NEW s, Return(p, s)
  PROVE  \A q \in Proc : Exchanging(q)' =>
           /\ q # p /\ pc'[q] = pc[q] /\ cur'[q] = cur[q]
           /\ sent'[q] = sent[q] /\ ans'[q] = ans[q]
  BY DEF Return, Sharing, TypeOK, Exchanging

\* Erasing sessions leaves no token in more places than before.
LEMMA EraseToken ==
  ASSUME TypeOK, IssueInv, TokenInv, NEW S, EraseAll(S),
         UNCHANGED <<cur, sent, ans, spent, lost>>,
         \A q \in Proc : Exchanging(q)' => pc'[q] = pc[q]
  PROVE  TokenInv'
<1> USE SentinelAssumption DEF TypeOK, Exchanging
<1>1. \A s \in Session : tok'[s] \in {tok[s], NoToken}
  BY DEF EraseAll
<1>2. \A q \in Proc : Exchanging(q)' => Exchanging(q) /\ cur[q] \in Session
  OBVIOUS
<1>3. \A q \in Proc : pc'[q] = "answer" => pc[q] = "answer" /\ ans[q] # NoToken
  BY DEF IssueInv
<1> QED BY <1>1, <1>2, <1>3 DEF TokenInv

\* A token is in one session, or in one request, or in one answer.
THEOREM TokenInvariant == Spec => []TokenInv
<1>1. Init => TokenInv
  BY DEF Init, TokenInv, Exchanging
<1>2. /\ TypeOK /\ FlightInv /\ HomeInv /\ IssueInv
      /\ TokenInv /\ [Next]_vars
      => TokenInv'
  <2> SUFFICES ASSUME TypeOK, FlightInv, HomeInv, IssueInv, TokenInv, [Next]_vars
               PROVE  TokenInv'
    OBVIOUS
  <2> USE SentinelAssumption DEF Goto, heap, gateway, NewSession, Update
  <2>1. ASSUME NEW p \in Proc, NEW t \in Track, EnsureGet(p, t) \/ CallGuard(p, t)
        PROVE TokenInv'
    BY <2>1, AsideToken DEF EnsureGet, CallGuard, TypeOK, Exchanging
  <2>2. ASSUME NEW p \in Proc, EnsureCheck(p) \/ Join(p) PROVE TokenInv'
    BY <2>2, AsideToken DEF EnsureCheck, Join, TypeOK, Exchanging
  <2>3. ASSUME NEW p \in Proc, LeadGet(p) PROVE TokenInv'
    BY <2>3, AsideToken, ReturnExchange DEF LeadGet, TypeOK, Exchanging
  <2>4. ASSUME NEW p \in Proc, LeadCheck(p) \/ RefreshTrack(p) PROVE TokenInv'
    BY <2>4, AsideToken, ReturnExchange DEF LeadCheck, RefreshTrack, TypeOK, Exchanging
  <2>5. ASSUME NEW p \in Proc, RefreshBody(p) PROVE TokenInv'
    <3>1. cur[p] \in Session
      BY <2>5 DEF RefreshBody, TypeOK
    <3> QED BY <2>5, <3>1 DEF RefreshBody, TypeOK, TokenInv, Exchanging
  <2>6. ASSUME NEW p \in Proc, GatewayExchange(p) PROVE TokenInv'
    <3>1. PICK k \in Token : issuedOn[k] = Unknown /\ ans' = [ans EXCEPT ![p] = k]
      BY <2>6 DEF GatewayExchange
    <3>2. /\ k \notin spent \cup lost
          /\ \A s \in Session : tok[s] # k
          /\ \A q \in Proc : Exchanging(q) => sent[q] # k
          /\ \A q \in Proc : pc[q] = "answer" => ans[q] # k
      BY <3>1 DEF IssueInv, TypeOK, Slot, Exchanging
    <3>3. \A q \in Proc : pc[q] = "answer" => ans[q] # sent[p]
      BY <2>6 DEF GatewayExchange, TokenInv, Exchanging
    <3> QED BY <2>6, <3>1, <3>2, <3>3 DEF GatewayExchange, TypeOK, TokenInv, Exchanging
  <2>7. ASSUME NEW p \in Proc, RefreshRejected(p) PROVE TokenInv'
    BY <2>7, AsideToken, ReturnExchange DEF RefreshRejected
  <2>8. ASSUME NEW p \in Proc, RefreshGivenUp(p) PROVE TokenInv'
    <3>1. \A q \in Proc : pc[q] = "answer" => ans[q] # sent[p]
      BY <2>8 DEF RefreshGivenUp, TokenInv, Exchanging
    <3> QED BY <2>8, <3>1, ReturnExchange DEF RefreshGivenUp, TokenInv, Exchanging
  <2>9. ASSUME NEW p \in Proc, AnswerUpdate(p) PROVE TokenInv'
    <3>1. cur[p] \in Session /\ tok' = [tok EXCEPT ![cur[p]] = ans[p]]
      BY <2>9 DEF AnswerUpdate, TypeOK
    <3>2. /\ \A s \in Session : tok[s] # ans[p]
          /\ \A q \in Proc : Exchanging(q) => sent[q] # ans[p]
          /\ \A q \in Proc : pc[q] = "answer" /\ q # p => ans[q] # ans[p]
      BY <2>9 DEF AnswerUpdate, TokenInv, Exchanging
    <3>3. \A q \in Proc : Exchanging(q) /\ q # p => cur[q] # cur[p]
      BY <2>9, OneHolder DEF AnswerUpdate, Exchanging, Holding, RefreshPC
    <3>4. \A q \in Proc : Exchanging(q)' <=> Exchanging(q) /\ q # p
      BY <2>9 DEF AnswerUpdate, TypeOK, Exchanging
    <3> QED BY <2>9, <3>1, <3>2, <3>3, <3>4 DEF AnswerUpdate, TypeOK, TokenInv, Exchanging
  <2>10. ASSUME NEW p \in Proc, NEW t \in Track, Login(p, t) PROVE TokenInv'
    <3>1. PICK s \in Session, k \in Token :
            /\ home[s] = Unknown /\ issuedOn[k] = Unknown
            /\ tok' = [tok EXCEPT ![s] = k] /\ cur' = [cur EXCEPT ![p] = s]
      BY <2>10 DEF Login
    <3>2. /\ \A u \in Session : tok[u] # k
          /\ \A q \in Proc : Exchanging(q) => sent[q] # k
          /\ \A q \in Proc : pc[q] = "answer" => ans[q] # k
      BY <3>1 DEF IssueInv, TypeOK, Slot, Exchanging
    <3>3. \A q \in Proc : Exchanging(q) => cur[q] # s
      BY <3>1 DEF HomeInv, TypeOK, Exchanging
    <3> QED BY <2>10, <3>1, <3>2, <3>3 DEF Login, TypeOK, TokenInv, Exchanging
  <2>11. ASSUME NEW p \in Proc, PutCheck(p) PROVE TokenInv'
    BY <2>11, AsideToken, ReturnExchange DEF PutCheck, TypeOK, Exchanging
  <2>12. ASSUME NEW p \in Proc, PutLookup(p) PROVE TokenInv'
    BY <2>12, EraseToken DEF PutLookup, TypeOK, Exchanging
  <2>13. ASSUME NEW p \in Proc, PutStore(p) PROVE TokenInv'
    BY <2>13, AsideToken, ReturnExchange DEF PutStore
  <2>14. ASSUME NEW t \in Track, Delete(t) PROVE TokenInv'
    BY <2>14, EraseToken DEF Delete
  <2>15. CASE Close
    BY <2>15, EraseToken DEF Close
  <2>16. ASSUME NEW p \in Proc, Erase(p) PROVE TokenInv'
    BY <2>16, EraseToken DEF Erase
  <2>17. ASSUME NEW s \in Session, Age(s) PROVE TokenInv'
    BY <2>17, AsideToken DEF Age
  <2>18. ASSUME NEW k \in Token, GatewayLate(k) PROVE TokenInv'
    BY <2>18 DEF GatewayLate, TokenInv, Exchanging
  <2>19. ASSUME NEW p \in Proc, CallBearer(p) \/ CallDone(p) PROVE TokenInv'
    BY <2>19, AsideToken DEF CallBearer, CallDone, TypeOK, Exchanging
  <2>20. CASE UNCHANGED vars
    BY <2>20, AsideToken DEF vars
  <2> QED
    BY <2>1, <2>2, <2>3, <2>4, <2>5, <2>6, <2>7, <2>8, <2>9, <2>10, <2>11, <2>12, <2>13,
       <2>14, <2>15, <2>16, <2>17, <2>18, <2>19, <2>20
       DEF Next, Environment, Proceed, Begin, Refreshing, Network, Putting, Calling
<1> QED BY <1>1, <1>2, TypeCorrect, FlightInvariant, HomeInvariant, IssueInvariant, PTL DEF Spec

-----------------------------------------------------------------------------
\* The re-check inside the flight: what a leader refreshes is in the refresh
\* window until the new pair is in place, whoever erases or logs in meanwhile.
THEOREM Recheck == Spec => []OneRefreshPerWindow
<1> DEFINE Due(p) == pc[p] \in {"refresh", "body", "sent", "answer"}
<1>1. Init => OneRefreshPerWindow
  BY DEF Init, OneRefreshPerWindow
<1>2. TypeOK /\ FlightInv /\ HomeInv /\ OneRefreshPerWindow /\ [Next]_vars
      => OneRefreshPerWindow'
  <2> SUFFICES ASSUME TypeOK, FlightInv, HomeInv, OneRefreshPerWindow, [Next]_vars
               PROVE  OneRefreshPerWindow'
    OBVIOUS
  <2> USE DEF Goto, heap, NewSession, Update, NeedsRefresh
  \* Steps that make no session fresh and bring nobody nearer to a request.
  <2>0. ASSUME \A s \in Session : stale[s] => stale'[s],
               \A q \in Proc : Due(q)' => Due(q) /\ cur'[q] = cur[q]
        PROVE  OneRefreshPerWindow'
    BY <2>0 DEF OneRefreshPerWindow, TypeOK
  <2>1. ASSUME NEW p \in Proc, NEW s, Return(p, s), UNCHANGED stale
        PROVE  OneRefreshPerWindow'
    BY <2>0, <2>1 DEF Return, TypeOK
  <2>2. ASSUME NEW S, EraseAll(S), UNCHANGED cur, \A q \in Proc : Due(q)' => Due(q)
        PROVE  OneRefreshPerWindow'
    BY <2>0, <2>2 DEF EraseAll, TypeOK
  <2>3. ASSUME NEW p \in Proc, LeadCheck(p) PROVE OneRefreshPerWindow'
    <3>1. CASE stale[cur[p]]
      BY <2>3, <3>1 DEF LeadCheck, TypeOK, OneRefreshPerWindow
    <3>2. CASE ~stale[cur[p]]
      BY <2>1, <2>3, <3>2 DEF LeadCheck
    <3> QED BY <3>1, <3>2
  <2>4. ASSUME NEW p \in Proc, AnswerUpdate(p) PROVE OneRefreshPerWindow'
    <3>1. \A q \in Proc : Due(q) /\ q # p => cur[q] # cur[p]
      BY <2>4, OneHolder DEF AnswerUpdate, Holding, RefreshPC
    <3> QED BY <2>4, <3>1 DEF AnswerUpdate, TypeOK, OneRefreshPerWindow
  <2>5. ASSUME NEW p \in Proc, NEW t \in Track, Login(p, t) PROVE OneRefreshPerWindow'
    <3>1. PICK s \in Session : /\ home[s] = Unknown
                               /\ \E b \in BOOLEAN : stale' = [stale EXCEPT ![s] = b]
                               /\ cur' = [cur EXCEPT ![p] = s]
      BY <2>5 DEF Login
    <3>2. \A q \in Proc : Due(q) => cur[q] # s
      BY <3>1 DEF HomeInv, TypeOK
    <3> QED BY <2>5, <3>1, <3>2 DEF Login, TypeOK, OneRefreshPerWindow
  <2>6. ASSUME NEW p \in Proc, LeadGet(p) \/ RefreshTrack(p) \/ PutCheck(p)
        PROVE  OneRefreshPerWindow'
    BY <2>0, <2>1, <2>6 DEF LeadGet, RefreshTrack, PutCheck, TypeOK
  <2>7. ASSUME NEW p \in Proc, RefreshRejected(p) \/ RefreshGivenUp(p) \/ PutStore(p)
        PROVE  OneRefreshPerWindow'
    BY <2>1, <2>7 DEF RefreshRejected, RefreshGivenUp, PutStore
  <2>8. ASSUME NEW p \in Proc, RefreshBody(p) \/ GatewayExchange(p)
        PROVE  OneRefreshPerWindow'
    BY <2>0, <2>8 DEF RefreshBody, GatewayExchange, TypeOK
  <2>9. ASSUME NEW p \in Proc, EnsureCheck(p) \/ Join(p) \/ CallBearer(p) \/ CallDone(p)
        PROVE  OneRefreshPerWindow'
    BY <2>0, <2>9 DEF EnsureCheck, Join, CallBearer, CallDone, TypeOK
  <2>10. ASSUME NEW p \in Proc, NEW t \in Track, EnsureGet(p, t) \/ CallGuard(p, t)
         PROVE  OneRefreshPerWindow'
    BY <2>0, <2>10 DEF EnsureGet, CallGuard, TypeOK
  <2>11. ASSUME NEW p \in Proc, PutLookup(p) \/ Erase(p) PROVE OneRefreshPerWindow'
    BY <2>2, <2>11 DEF PutLookup, Erase, TypeOK
  <2>12. CASE Environment
    BY <2>0, <2>2, <2>12 DEF Environment, Close, Delete, Age, GatewayLate, TypeOK
  <2>13. CASE UNCHANGED vars
    BY <2>0, <2>13 DEF vars
  <2> QED
    BY <2>3, <2>4, <2>5, <2>6, <2>7, <2>8, <2>9, <2>10, <2>11, <2>12, <2>13
       DEF Next, Proceed, Begin, Refreshing, Network, Putting, Calling
<1> QED BY <1>1, <1>2, TypeCorrect, FlightInvariant, HomeInvariant, PTL DEF Spec

-----------------------------------------------------------------------------
\* No session is left behind with a spent token while its replacement is on
\* the way: Session.Update, Erase and Put may come in any order.
THEOREM RotationComplete == Spec => []RotationKept
<1>1. Init => RotationKept
  BY DEF Init, RotationKept
<1>2. TypeOK /\ IssueInv /\ TokenInv /\ RotationKept /\ [Next]_vars => RotationKept'
  <2> SUFFICES ASSUME TypeOK, IssueInv, TokenInv, RotationKept, [Next]_vars
               PROVE  RotationKept'
    OBVIOUS
  <2> USE SentinelAssumption DEF Goto, heap, gateway, NewSession, Update
  \* Steps that may erase sessions but neither spend a token nor end an exchange.
  <2>0. ASSUME \A s \in Session : tok'[s] \in {tok[s], NoToken},
               spent' = spent, lost' = lost,
               \A q \in Proc : pc[q] = "answer" => pc'[q] = "answer" /\ cur'[q] = cur[q]
        PROVE  RotationKept'
    BY <2>0 DEF RotationKept, TypeOK
  <2>1. ASSUME NEW p \in Proc, NEW s, Return(p, s), pc[p] # "answer",
               UNCHANGED <<tok, spent, lost>>
        PROVE  RotationKept'
    BY <2>0, <2>1 DEF Return, Sharing, TypeOK
  <2>2. ASSUME NEW S, EraseAll(S), UNCHANGED <<cur, spent, lost>>,
               \A q \in Proc : pc[q] = "answer" => pc'[q] = "answer"
        PROVE  RotationKept'
    BY <2>0, <2>2 DEF EraseAll
  <2>3. ASSUME NEW p \in Proc, GatewayExchange(p) PROVE RotationKept'
    <3>1. \A s \in Session : tok[s] = sent[p] => s = cur[p]
      BY <2>3 DEF GatewayExchange, TokenInv, Exchanging
    <3> QED BY <2>3, <3>1 DEF GatewayExchange, RotationKept, TypeOK
  <2>4. ASSUME NEW p \in Proc, RefreshGivenUp(p) PROVE RotationKept'
    <3>1. tok[cur[p]] \in spent => tok[cur[p]] \in lost'
      BY <2>4 DEF RefreshGivenUp, TokenInv, Exchanging, TypeOK
    <3>2. \A q \in Proc : pc[q] = "answer" /\ q # p => pc'[q] = "answer" /\ cur'[q] = cur[q]
      BY <2>4 DEF RefreshGivenUp, Return, Sharing, TypeOK
    <3>3. tok' = tok /\ spent' = spent /\ lost \subseteq lost'
      BY <2>4 DEF RefreshGivenUp
    <3> QED BY <3>1, <3>2, <3>3 DEF RotationKept
  <2>5. ASSUME NEW p \in Proc, AnswerUpdate(p) PROVE RotationKept'
    <3>1. ans[p] \notin spent
      BY <2>5 DEF AnswerUpdate, TokenInv
    <3> QED BY <2>5, <3>1 DEF AnswerUpdate, RotationKept, TypeOK
  <2>6. ASSUME NEW p \in Proc, NEW t \in Track, Login(p, t) PROVE RotationKept'
    <3>1. PICK s \in Session, k \in Token :
            issuedOn[k] = Unknown /\ tok' = [tok EXCEPT ![s] = k]
      BY <2>6 DEF Login
    <3>2. k \notin spent
      BY <3>1 DEF IssueInv
    <3> QED BY <2>6, <3>1, <3>2 DEF Login, RotationKept, TypeOK
  <2>7. ASSUME NEW p \in Proc,
               \/ LeadGet(p) \/ LeadCheck(p) \/ RefreshTrack(p) \/ RefreshRejected(p)
               \/ PutCheck(p) \/ PutStore(p)
        PROVE  RotationKept'
    BY <2>0, <2>1, <2>7
       DEF LeadGet, LeadCheck, RefreshTrack, RefreshRejected, PutCheck, PutStore, TypeOK
  <2>8. ASSUME NEW p \in Proc,
               \/ EnsureCheck(p) \/ Join(p) \/ RefreshBody(p) \/ CallBearer(p) \/ CallDone(p)
        PROVE  RotationKept'
    BY <2>0, <2>8 DEF EnsureCheck, Join, RefreshBody, CallBearer, CallDone, TypeOK
  <2>9. ASSUME NEW p \in Proc, NEW t \in Track, EnsureGet(p, t) \/ CallGuard(p, t)
        PROVE  RotationKept'
    BY <2>0, <2>9 DEF EnsureGet, CallGuard, TypeOK
  <2>10. ASSUME NEW p \in Proc, PutLookup(p) \/ Erase(p) PROVE RotationKept'
    BY <2>2, <2>10 DEF PutLookup, Erase, TypeOK
  <2>11. ASSUME NEW k \in Token, GatewayLate(k) PROVE RotationKept'
    BY <2>11 DEF GatewayLate, RotationKept
  <2>12. CASE Close \/ (\E t \in Track : Delete(t)) \/ (\E s \in Session : Age(s))
    BY <2>0, <2>2, <2>12 DEF Close, Delete, Age
  <2>13. CASE UNCHANGED vars
    BY <2>0, <2>13 DEF vars
  <2> QED
    BY <2>3, <2>4, <2>5, <2>6, <2>7, <2>8, <2>9, <2>10, <2>11, <2>12, <2>13
       DEF Next, Environment, Proceed, Begin, Refreshing, Network, Putting, Calling
<1> QED BY <1>1, <1>2, TypeCorrect, IssueInvariant, TokenInvariant, PTL DEF Spec

\* Single use, for any number of goroutines: no request in flight carries a
\* token that a completed exchange has spent.
THEOREM NoReuse == Spec => []SingleUse
<1>1. Init => SingleUse
  BY DEF Init, SingleUse
<1>2. /\ TypeOK /\ FlightInv /\ HomeInv /\ IssueInv
      /\ RotationKept /\ SingleUse /\ [Next]_vars
      => SingleUse'
  <2> SUFFICES ASSUME TypeOK, FlightInv, HomeInv, IssueInv, RotationKept, SingleUse,
                      [Next]_vars
               PROVE  SingleUse'
    OBVIOUS
  <2> USE SentinelAssumption DEF Goto, heap, gateway, NewSession, Update
  \* Steps that send no request and spend no token outside lost.
  <2>0. ASSUME spent' \subseteq spent \cup lost, lost \subseteq lost',
               \A q \in Proc : pc'[q] = "sent" => pc[q] = "sent" /\ sent'[q] = sent[q]
        PROVE  SingleUse'
    BY <2>0 DEF SingleUse
  <2>1. ASSUME NEW p \in Proc, NEW s, Return(p, s), spent' = spent, lost \subseteq lost'
        PROVE  SingleUse'
    BY <2>0, <2>1 DEF Return, Sharing, TypeOK
  <2>2. ASSUME NEW p \in Proc, RefreshBody(p) PROVE SingleUse'
    <3>1. cur[p] \in Session
      BY <2>2 DEF RefreshBody, TypeOK
    <3>2. \A q \in Proc : pc[q] = "answer" => cur[q] # cur[p]
      BY <2>2, OneHolder DEF RefreshBody, Holding, RefreshPC
    <3> QED BY <2>2, <3>1, <3>2 DEF RefreshBody, RotationKept, SingleUse, TypeOK
  <2>3. ASSUME NEW p \in Proc, GatewayExchange(p) PROVE SingleUse'
    <3>1. \A q \in Proc : pc[q] = "sent" /\ sent[q] = sent[p] => q = p
      BY <2>3, OneHolder DEF GatewayExchange, IssueInv, Exchanging, Holding, RefreshPC
    <3> QED BY <2>3, <3>1 DEF GatewayExchange, SingleUse, TypeOK
  <2>4. ASSUME NEW p \in Proc,
               \/ LeadGet(p) \/ LeadCheck(p) \/ RefreshTrack(p) \/ RefreshRejected(p)
               \/ RefreshGivenUp(p) \/ PutCheck(p) \/ PutStore(p)
        PROVE  SingleUse'
    BY <2>0, <2>1, <2>4
       DEF LeadGet, LeadCheck, RefreshTrack, RefreshRejected, RefreshGivenUp, PutCheck,
           PutStore, TypeOK
  <2>5. ASSUME NEW p \in Proc,
               \/ EnsureCheck(p) \/ Join(p) \/ AnswerUpdate(p) \/ PutLookup(p)
               \/ Erase(p) \/ CallBearer(p) \/ CallDone(p)
        PROVE  SingleUse'
    BY <2>0, <2>5 DEF EnsureCheck, Join, AnswerUpdate, PutLookup, Erase, CallBearer,
                      CallDone, TypeOK
  <2>6. ASSUME NEW p \in Proc, NEW t \in Track,
               EnsureGet(p, t) \/ Login(p, t) \/ CallGuard(p, t)
        PROVE  SingleUse'
    BY <2>0, <2>6 DEF EnsureGet, Login, CallGuard, TypeOK
  <2>7. CASE Environment
    BY <2>0, <2>7 DEF Environment, Close, Delete, Age, GatewayLate
  <2>8. CASE UNCHANGED vars
    BY <2>0, <2>8 DEF vars
  <2> QED
    BY <2>2, <2>3, <2>4, <2>5, <2>6, <2>7, <2>8
       DEF Next, Proceed, Begin, Refreshing, Network, Putting, Calling
<1> QED BY <1>1, <1>2, TypeCorrect, FlightInvariant, HomeInvariant, IssueInvariant,
           RotationComplete, PTL DEF Spec
==============================================================================
