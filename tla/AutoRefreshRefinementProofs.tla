---------------------- MODULE AutoRefreshRefinementProofs ----------------------
(***************************************************************************)
(* AutoRefresh implements TokenRotation, for any number of goroutines,     *)
(* sessions, tokens and tracks.                                            *)
(*                                                                         *)
(* The exchanges of TokenRotation are those of the goroutines in           *)
(* Refreshers.  A step of AutoRefresh starts, answers, installs or ends    *)
(* the exchange of one goroutine, erases sessions, is a login, or is       *)
(* invisible; the lemmas of the first part say what each kind does to the  *)
(* set of exchanges, and the theorem goes through the actions.             *)
(***************************************************************************)
EXTENDS AutoRefreshImplements, AutoRefreshProofs

Exchanges == {Engaged(p) : p \in Refreshers}
Issued == {k \in Token : issuedOn[k] # Unknown}

\* An answer answers a request that carried a token.
AnswerInv == \A p \in Proc : pc[p] = "answer" => sent[p] # NoToken

\* q's exchange, if it is engaged in one before or after, is not touched.
Untouched(q) ==
  /\ (q \in Refreshers)' <=> q \in Refreshers
  /\ q \in Refreshers => Engaged(q)' = Engaged(q)

-----------------------------------------------------------------------------
\* No goroutine's exchange changes.
LEMMA ExchangesKept ==
  ASSUME \A q \in Proc : Untouched(q)
  PROVE  Exchanges' = Exchanges
  BY DEF Exchanges, Untouched, Refreshers

\* A goroutine starts an exchange.
LEMMA ExchangeBegun ==
  ASSUME NEW p \in Proc, \A q \in Proc \ {p} : Untouched(q),
         p \notin Refreshers, (p \in Refreshers)'
  PROVE  Exchanges' = Exchanges \cup {Engaged(p)'}
  BY DEF Exchanges, Untouched, Refreshers

\* Goroutines engaged in exchanges are engaged in those of different sessions.
LEMMA OnePerSession ==
  ASSUME TypeOK, FlightInv, HomeInv, NEW p \in Refreshers, NEW q \in Proc,
         Holding(q), cur[q] = cur[p]
  PROVE  q = p
  BY OneHolder DEF Refreshers, Holding, RefreshPC

\* A goroutine's exchange ends.
LEMMA ExchangeEnded ==
  ASSUME TypeOK, FlightInv, HomeInv,
         NEW p \in Refreshers, \A q \in Proc \ {p} : Untouched(q),
         (p \notin Refreshers)'
  PROVE  Exchanges' = Exchanges \ {Engaged(p)}
<1>1. \A q \in Refreshers : Engaged(q) = Engaged(p) => q = p
  <2> SUFFICES ASSUME NEW q \in Refreshers, Engaged(q) = Engaged(p) PROVE q = p
    OBVIOUS
  <2>1. cur[q] = cur[p]
    BY DEF Engaged
  <2> QED BY <2>1, OnePerSession DEF Refreshers, Holding, RefreshPC
<1> QED BY <1>1 DEF Exchanges, Untouched, Refreshers

\* A goroutine's exchange goes on with an answer.
LEMMA ExchangeAnswered ==
  ASSUME TypeOK, FlightInv, HomeInv,
         NEW p \in Refreshers, \A q \in Proc \ {p} : Untouched(q),
         (p \in Refreshers)'
  PROVE  Exchanges' = (Exchanges \ {Engaged(p)}) \cup {Engaged(p)'}
<1>1. \A q \in Refreshers : Engaged(q) = Engaged(p) => q = p
  <2> SUFFICES ASSUME NEW q \in Refreshers, Engaged(q) = Engaged(p) PROVE q = p
    OBVIOUS
  <2>1. cur[q] = cur[p]
    BY DEF Engaged
  <2> QED BY <2>1, OnePerSession DEF Refreshers, Holding, RefreshPC
<1> QED BY <1>1 DEF Exchanges, Untouched, Refreshers

\* Whoever returns touches no exchange but its own.
LEMMA ReturnUntouched ==
  ASSUME TypeOK, NEW p \in Proc, NEW s, Return(p, s)
  PROVE  /\ \A q \in Proc \ {p} : Untouched(q)
         /\ (p \notin Refreshers)'
<1> USE DEF Return, Sharing, TypeOK, Refreshers
<1>1. (p \notin Refreshers)'
  OBVIOUS
<1>2. ASSUME NEW q \in Proc \ {p} PROVE Untouched(q)
  BY DEF Untouched, Engaged
<1> QED BY <1>1, <1>2

\* A step of one goroutine that is engaged in no exchange before and after it.
LEMMA LocalUntouched ==
  ASSUME TypeOK, NEW p \in Proc, p \notin Refreshers,
         \A q \in Proc \ {p} : /\ pc'[q] = pc[q] /\ cur'[q] = cur[q]
                               /\ sent'[q] = sent[q] /\ ans'[q] = ans[q],
         pc'[p] \notin {"sent", "answer"} \/ sent'[p] = NoToken
  PROVE  \A q \in Proc : Untouched(q)
  BY DEF Untouched, Refreshers, Engaged

-----------------------------------------------------------------------------
\* An answer reaches only a goroutine whose request carried a token.
THEOREM AnswerInvariant == Spec => []AnswerInv
<1>1. Init => AnswerInv
  BY DEF Init, AnswerInv
<1>2. TypeOK /\ AnswerInv /\ [Next]_vars => AnswerInv'
  <2> SUFFICES ASSUME TypeOK, AnswerInv, [Next]_vars PROVE AnswerInv'
    OBVIOUS
  <2>0. ASSUME \A q \in Proc : pc'[q] = "answer" => pc[q] = "answer" /\ sent'[q] = sent[q]
        PROVE  AnswerInv'
    BY <2>0 DEF AnswerInv
  <2>1. ASSUME NEW p \in Proc, NEW s, Return(p, s) PROVE AnswerInv'
    <3>1. \A q \in Proc : pc'[q] = "answer" => pc[q] = "answer" /\ q # p
      BY <2>1 DEF Return, Sharing, TypeOK
    <3> QED BY <2>0, <2>1, <3>1 DEF Return, TypeOK
  <2>2. ASSUME NEW p \in Proc, GatewayExchange(p) PROVE AnswerInv'
    BY <2>2 DEF GatewayExchange, Goto, TypeOK, AnswerInv
  <2>3. ASSUME NEW p \in Proc, RefreshBody(p) \/ AnswerUpdate(p) PROVE AnswerInv'
    BY <2>3, <2>0 DEF RefreshBody, AnswerUpdate, Goto, TypeOK
  <2>4. ASSUME NEW p \in Proc, \/ EnsureCheck(p) \/ Join(p) \/ LeadGet(p) \/ LeadCheck(p)
                               \/ RefreshTrack(p) \/ PutCheck(p)
        PROVE AnswerInv'
    BY <2>4, <2>0, <2>1
       DEF EnsureCheck, Join, LeadGet, LeadCheck, RefreshTrack, PutCheck, Goto, TypeOK
  <2>5. ASSUME NEW p \in Proc, RefreshRejected(p) \/ RefreshGivenUp(p) \/ PutStore(p)
        PROVE AnswerInv'
    BY <2>5, <2>1 DEF RefreshRejected, RefreshGivenUp, PutStore
  <2>6. ASSUME NEW p \in Proc, PutLookup(p) \/ Calling(p) \/ Erase(p) PROVE AnswerInv'
    BY <2>6, <2>0 DEF PutLookup, Calling, CallBearer, CallDone, Erase, Goto, TypeOK
  <2>7. ASSUME NEW p \in Proc, NEW t \in Track,
               EnsureGet(p, t) \/ Login(p, t) \/ CallGuard(p, t)
        PROVE AnswerInv'
    BY <2>7, <2>0 DEF EnsureGet, Login, CallGuard, Goto, TypeOK
  <2>8. CASE Environment \/ UNCHANGED vars
    BY <2>8, <2>0 DEF Environment, Close, Delete, Age, GatewayLate, vars
  <2> QED
    BY <2>2, <2>3, <2>4, <2>5, <2>6, <2>7, <2>8
       DEF Next, Proceed, Begin, Refreshing, Network, Putting
<1> QED BY <1>1, <1>2, TypeCorrect, PTL DEF Spec

-----------------------------------------------------------------------------
\* What the invariants of AutoRefreshProofs and the one above say of a state.
Known == /\ TypeOK /\ FlightInv /\ HomeInv /\ IssueInv /\ TokenInv
         /\ RotationKept /\ AnswerInv

\* A step that TokenRotation does not see.
LEMMA Invisible ==
  ASSUME \A q \in Proc : Untouched(q), UNCHANGED <<tok, issuedOn, spent, lost>>
  PROVE  UNCHANGED Rotation!vars
  BY ExchangesKept DEF Exchanges, Rotation!vars

\* Erasing sessions is TokenRotation's Forget.
LEMMA Erasing ==
  ASSUME TypeOK, NEW S, EraseAll(S),
         \A q \in Proc : Untouched(q), UNCHANGED gateway
  PROVE  Rotation!Next
<1>1. Rotation!Forget(S \cap Session)
  BY ExchangesKept DEF Exchanges, EraseAll, TypeOK, gateway, Rotation!Forget
<1> QED BY <1>1 DEF Rotation!Next

\* The end of a call that had no token at the gateway.
LEMMA ReturnInvisible ==
  ASSUME TypeOK, NEW p \in Proc, p \notin Refreshers, NEW s, Return(p, s),
         UNCHANGED <<tok, issuedOn, spent, lost>>
  PROVE  UNCHANGED Rotation!vars
<1>1. Untouched(p)
  BY ReturnUntouched DEF Untouched
<1> QED BY <1>1, ReturnUntouched, Invisible

\* docs/tokens.md, "single-use" and "one round trip", for every execution:
\* whatever goroutines, store, partner and gateway do, the tokens move as
\* TokenRotation says.  A session has one exchange at a time, starts it with a
\* token nobody has spent behind its back, and receives what it brings.
THEOREM Implementation == Spec => ImplementsTokenRotation
<1>1. Init => Rotation!Init
  <2> SUFFICES ASSUME Init PROVE Rotation!Init
    OBVIOUS
  <2>1. Refreshers = {}
    BY DEF Init, Refreshers
  <2> QED BY <2>1 DEF Init, Rotation!Init
<1>2. Known /\ [Next]_vars => [Rotation!Next]_Rotation!vars
  <2> SUFFICES ASSUME Known, [Next]_vars PROVE Rotation!Next \/ UNCHANGED Rotation!vars
    OBVIOUS
  <2> USE SentinelAssumption DEF Known, Goto
  <2>1. ASSUME NEW p \in Proc, RefreshBody(p) PROVE Rotation!Next \/ UNCHANGED Rotation!vars
    <3> USE <2>1 DEF RefreshBody
    <3>1. /\ p \notin Refreshers /\ \A q \in Proc \ {p} : Untouched(q)
          /\ cur[p] \in Session /\ Holding(p)
      BY DEF Refreshers, Untouched, Engaged, TypeOK, Holding, RefreshPC
    <3>2. CASE tok[cur[p]] = NoToken
      BY <3>1, <3>2, LocalUntouched, Invisible DEF heap, gateway, TypeOK
    <3>3. CASE tok[cur[p]] # NoToken
      <4>1. /\ (p \in Refreshers)'
            /\ Engaged(p)' = [of |-> cur[p], token |-> tok[cur[p]], pair |-> NoToken]
        BY <3>3 DEF Refreshers, Engaged, TypeOK
      <4>2. \A x \in Exchanges : x.of # cur[p]
        BY <3>1, OnePerSession DEF Exchanges, Engaged
      <4>3. tok[cur[p]] \in spent => tok[cur[p]] \in lost
        <5> SUFFICES ASSUME NEW q \in Proc, pc[q] = "answer", cur[q] = cur[p] PROVE FALSE
          BY <3>1 DEF RotationKept
        <5> QED BY <3>1, OneHolder DEF Holding, RefreshPC
      <4>4. Rotation!Ask(cur[p])
        BY <3>1, <3>3, <4>1, <4>2, <4>3, ExchangeBegun
           DEF Exchanges, heap, gateway, Rotation!Ask
      <4> QED BY <3>1, <4>4 DEF Rotation!Next
    <3> QED BY <3>2, <3>3
  <2>2. ASSUME NEW p \in Proc, GatewayExchange(p) PROVE Rotation!Next
    <3> USE <2>2 DEF GatewayExchange
    <3>1. /\ p \in Refreshers /\ (p \in Refreshers)'
          /\ \A q \in Proc \ {p} : Untouched(q)
      BY DEF Refreshers, Untouched, Engaged, TypeOK
    <3>2. PICK k \in Token : /\ issuedOn[k] = Unknown
                             /\ issuedOn' = [issuedOn EXCEPT ![k] = issuedOn[sent[p]]]
                             /\ ans' = [ans EXCEPT ![p] = k]
      OBVIOUS
    <3>3. Engaged(p)' = [Engaged(p) EXCEPT !.pair = k]
      BY <3>2 DEF Engaged, TypeOK
    <3>4. Issued' = Issued \cup {k} /\ k \notin Issued
      <4>1. issuedOn[sent[p]] # Unknown
        BY <3>2 DEF IssueInv, Exchanging, TypeOK
      <4> QED BY <3>2, <4>1 DEF Issued, TypeOK
    <3>5. Rotation!Exchange(Engaged(p), k)
      BY <3>1, <3>3, <3>4, ExchangeAnswered
         DEF Exchanges, Issued, Engaged, heap, Rotation!Exchange
    <3> QED BY <3>1, <3>2, <3>5 DEF Rotation!Next
  <2>3. ASSUME NEW p \in Proc, AnswerUpdate(p) PROVE Rotation!Next
    <3> USE <2>3 DEF AnswerUpdate, Update
    <3>1. /\ p \in Refreshers /\ (p \notin Refreshers)'
          /\ \A q \in Proc \ {p} : Untouched(q)
      BY DEF AnswerInv, Refreshers, Untouched, Engaged, TypeOK
    <3>2. ans[p] # NoToken
      BY DEF IssueInv
    <3>3. Rotation!Install(Engaged(p))
      BY <3>1, <3>2, ExchangeEnded DEF Exchanges, Engaged, gateway, Rotation!Install
    <3> QED BY <3>1, <3>3 DEF Rotation!Next
  <2>4. ASSUME NEW p \in Proc, RefreshRejected(p)
        PROVE Rotation!Next \/ UNCHANGED Rotation!vars
    <3> USE <2>4 DEF RefreshRejected
    <3>1. CASE p \in Refreshers
      <4>1. Rotation!Reject(Engaged(p))
        BY <3>1, ReturnUntouched, ExchangeEnded
           DEF Exchanges, Engaged, heap, gateway, Rotation!Reject
      <4> QED BY <3>1, <4>1 DEF Rotation!Next
    <3>2. CASE p \notin Refreshers
      BY <3>2, ReturnInvisible DEF heap, gateway
    <3> QED BY <3>1, <3>2
  <2>5. ASSUME NEW p \in Proc, RefreshGivenUp(p)
        PROVE Rotation!Next \/ UNCHANGED Rotation!vars
    <3> USE <2>5 DEF RefreshGivenUp
    <3>1. CASE p \in Refreshers
      <4>1. lost' = lost \cup {sent[p]}
        BY <3>1 DEF Refreshers
      <4>2. Rotation!GiveUp(Engaged(p))
        BY <3>1, <4>1, ReturnUntouched, ExchangeEnded
           DEF Exchanges, Engaged, heap, Rotation!GiveUp
      <4> QED BY <3>1, <4>2 DEF Rotation!Next
    <3>2. CASE p \notin Refreshers
      <4>1. lost' = lost
        BY <3>2 DEF Refreshers
      <4> QED BY <3>2, <4>1, ReturnInvisible DEF heap
    <3> QED BY <3>1, <3>2
  <2>6. ASSUME NEW p \in Proc, NEW t \in Track, Login(p, t) PROVE Rotation!Next
    <3> USE <2>6 DEF Login, NewSession
    <3>1. PICK s \in Session, k \in Token : /\ issuedOn[k] = Unknown
                                            /\ home[s] = Unknown
                                            /\ tok' = [tok EXCEPT ![s] = k]
                                            /\ issuedOn' = [issuedOn EXCEPT ![k] = t]
      OBVIOUS
    <3>2. \A q \in Proc : Untouched(q)
      BY LocalUntouched DEF Refreshers, TypeOK
    <3>3. Issued' = Issued \cup {k} /\ k \notin Issued
      BY <3>1 DEF Issued, TypeOK
    <3>4. tok[s] = NoToken
      BY <3>1 DEF IssueInv
    <3>5. Rotation!Issue(s, k)
      BY <3>1, <3>2, <3>3, <3>4, ExchangesKept DEF Exchanges, Issued, Rotation!Issue
    <3> QED BY <3>1, <3>5 DEF Rotation!Next
  <2>7. ASSUME NEW k \in Token, GatewayLate(k) PROVE Rotation!Next
    <3>1. \A q \in Proc : Untouched(q)
      BY <2>7 DEF GatewayLate, Untouched, Refreshers, Engaged
    <3>2. Rotation!Late(k)
      BY <2>7, <3>1, ExchangesKept DEF GatewayLate, Exchanges, heap, Rotation!Late
    <3> QED BY <2>7, <3>2 DEF GatewayLate, Rotation!Next
  <2>8. ASSUME NEW p \in Proc, PutLookup(p) PROVE Rotation!Next
    BY <2>8, Erasing, LocalUntouched DEF PutLookup, Refreshers, TypeOK
  <2>9. ASSUME NEW S, EraseAll(S), UNCHANGED <<pc, cur, sent, ans, gateway>>
        PROVE  Rotation!Next
    BY <2>9, Erasing DEF Untouched, Refreshers, Engaged
  <2>10. CASE Close \/ (\E t \in Track : Delete(t)) \/ (\E p \in Proc : Erase(p))
    BY <2>10, <2>9 DEF Close, Delete, Erase
  <2>11. ASSUME NEW p \in Proc, p \notin Refreshers,
                \/ Return(p, NoSession) \/ Return(p, cur[p])
                \/ /\ UNCHANGED <<cur, sent, ans>>
                   /\ \E l \in Control \ {"sent", "answer"} : Goto(p, l),
                UNCHANGED <<tok, gateway>>
         PROVE  UNCHANGED Rotation!vars
    <3>1. CASE Return(p, NoSession) \/ Return(p, cur[p])
      BY <2>11, <3>1, ReturnInvisible DEF gateway
    <3>2. CASE ~(Return(p, NoSession) \/ Return(p, cur[p]))
      BY <2>11, <3>2, LocalUntouched, Invisible DEF gateway, TypeOK
    <3> QED BY <3>1, <3>2
  <2>12. ASSUME NEW p \in Proc, EnsureCheck(p) \/ Join(p) \/ LeadCheck(p)
                                \/ RefreshTrack(p) \/ PutCheck(p) \/ PutStore(p)
         PROVE  UNCHANGED Rotation!vars
    BY <2>12, <2>11 DEF EnsureCheck, Join, LeadCheck, RefreshTrack, PutCheck, PutStore,
                        Refreshers, Control, RefreshPC, PutPC, heap
  <2>13. ASSUME NEW p \in Proc, LeadGet(p) PROVE UNCHANGED Rotation!vars
    <3>1. CASE Get(trk[p]) = NoSession
      BY <2>13, <3>1, <2>11 DEF LeadGet, Refreshers, heap
    <3>2. CASE Get(trk[p]) # NoSession
      BY <2>13, <3>2, LocalUntouched, Invisible
         DEF LeadGet, Refreshers, TypeOK, heap, gateway
    <3> QED BY <3>1, <3>2
  <2>14. ASSUME NEW p \in Proc, CallBearer(p) \/ CallDone(p) PROVE UNCHANGED Rotation!vars
    BY <2>14, LocalUntouched, Invisible
       DEF CallBearer, CallDone, Refreshers, TypeOK, heap, gateway
  <2>15. ASSUME NEW p \in Proc, NEW t \in Track, EnsureGet(p, t) \/ CallGuard(p, t)
         PROVE  UNCHANGED Rotation!vars
    BY <2>15, LocalUntouched, Invisible
       DEF EnsureGet, CallGuard, Refreshers, TypeOK, heap, gateway
  <2>16. ASSUME (\E s \in Session : Age(s)) \/ UNCHANGED vars PROVE UNCHANGED Rotation!vars
    <3>1. /\ \A q \in Proc : Untouched(q)
          /\ UNCHANGED <<tok, issuedOn, spent, lost>>
      BY <2>16 DEF Age, Untouched, Refreshers, Engaged, vars, heap, gateway
    <3> QED BY <3>1, Invisible
  <2> QED
    BY <2>1, <2>2, <2>3, <2>4, <2>5, <2>6, <2>7, <2>8, <2>10, <2>12, <2>13, <2>14,
       <2>15, <2>16
       DEF Next, Environment, Proceed, Begin, Refreshing, Network, Putting, Calling
<1>3. Spec => []Known
  BY TypeCorrect, FlightInvariant, HomeInvariant, IssueInvariant, TokenInvariant,
     RotationComplete, AnswerInvariant, PTL DEF Known
<1> QED BY <1>1, <1>2, <1>3, PTL DEF Spec, ImplementsTokenRotation, Rotation!Spec
==============================================================================
