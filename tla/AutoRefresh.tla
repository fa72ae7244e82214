----------------------------- MODULE AutoRefresh -----------------------------
(***************************************************************************)
(* Package auth: Session, MemoryStore and AutoRefresher, driven by         *)
(* goroutines that call Ensure, log in, make API calls with the session    *)
(* they hold, erase it, and delete or close the store, against a gateway   *)
(* whose refresh tokens are single-use.                                    *)
(*                                                                         *)
(* A goroutine is a process whose pc names the place where it stands; one  *)
(* action is one critical section of Session.mu or MemoryStore.mu, or one  *)
(* network event.  A token stands for the pair {idToken, refreshToken} the *)
(* gateway issues together.  Time is abstracted to one bit per session:    *)
(* NeedsRefresh is stale[s], and Age may set it at any moment.             *)
(*                                                                         *)
(* An operator named Faulty... is the definition that follows it with one  *)
(* plausible programming error; none is part of Next.  Putting it in the   *)
(* place of that definition makes a property below fail.                   *)
(***************************************************************************)
EXTENDS Naturals, FiniteSets

CONSTANTS Proc,        \* goroutines sharing one AutoRefresher and its store
          Session,     \* heap cells NewSession can return (bounds the logins)
          Token,       \* token pairs the gateway can issue (bounds rotations)
          Track,       \* TrackBusiness, TrackConnect
          NoProc, NoSession, NoToken,
          Unknown      \* TrackUnknown

ASSUME SentinelAssumption == /\ NoProc \notin Proc
                             /\ NoSession \notin Session
                             /\ NoToken \notin Token
                             /\ Unknown \notin Track /\ Track # {}

VARIABLES
  home,      \* home[s]: the track NewSession gave s (Unknown: not allocated yet)
  track,     \* Session.track
  tok,       \* Session.idToken and Session.refreshToken (NoToken: empty)
  stale,     \* what Session.NeedsRefresh reports
  store,     \* MemoryStore.sessions
  mu,        \* the goroutine that holds MemoryStore.mu across steps
  flight,    \* AutoRefresher.sf: the leader of the call in flight for a track
  pc,        \* where each goroutine stands
  trk,       \* the track argument of its call
  cur,       \* the session it has in hand
  sent,      \* the refresh token in the request it sends
  ans,       \* the token pair it has received (or the bearer it sends)
  issuedOn,  \* gateway: the track a token was issued on (Unknown: not issued)
  spent,     \* gateway: the refresh tokens already exchanged
  lost       \* tokens of exchanges the client gave up on before the answer

heap == <<home, track, tok, stale>>
gateway == <<issuedOn, spent, lost>>
vars == <<heap, store, mu, flight, pc, trk, cur, sent, ans, gateway>>

RefreshPC == {"leadGet", "leadCheck", "refresh", "body", "sent", "answer"}
PutPC == {"put", "lookup", "store"}
CallPC == {"call", "bearer"}
Control == {"idle", "check", "join", "wait"} \cup RefreshPC \cup PutPC \cup CallPC

Slot == Track \cup {Unknown}

(***************************************************************************)
(* One type invariant: the shape of Session, MemoryStore and AutoRefresher *)
(* state and of the goroutines' local variables; a goroutine inside a call *)
(* has a session in hand, so that Ensure, Refresh, Put and Call never      *)
(* dereference nil.                                                        *)
(***************************************************************************)
TypeOK ==
  /\ home \in [Session -> Slot] /\ track \in [Session -> Slot]
  /\ tok \in [Session -> Token \cup {NoToken}]
  /\ stale \in [Session -> BOOLEAN]
  /\ store \in [Slot -> Session \cup {NoSession}]
  /\ mu \in Proc \cup {NoProc}
  /\ flight \in [Track -> Proc \cup {NoProc}]
  /\ pc \in [Proc -> Control] /\ trk \in [Proc -> Track]
  /\ cur \in [Proc -> Session \cup {NoSession}]
  /\ sent \in [Proc -> Token \cup {NoToken}]
  /\ ans \in [Proc -> Token \cup {NoToken}]
  /\ issuedOn \in [Token -> Slot]
  /\ spent \in SUBSET Token /\ lost \in SUBSET Token
  /\ \A p \in Proc : pc[p] # "idle" => cur[p] # NoSession

Init ==
  /\ home = [s \in Session |-> Unknown] /\ track = [s \in Session |-> Unknown]
  /\ tok = [s \in Session |-> NoToken]  /\ stale = [s \in Session |-> TRUE]
  /\ store = [t \in Slot |-> NoSession] /\ mu = NoProc
  /\ flight = [t \in Track |-> NoProc]
  /\ pc = [p \in Proc |-> "idle"] /\ trk = [p \in Proc |-> CHOOSE t \in Track : TRUE]
  /\ cur = [p \in Proc |-> NoSession]
  /\ sent = [p \in Proc |-> NoToken] /\ ans = [p \in Proc |-> NoToken]
  /\ issuedOn = [k \in Token |-> Unknown] /\ spent = {} /\ lost = {}

-----------------------------------------------------------------------------
(* Session and MemoryStore helpers.                                        *)

\* The expiry is within the threshold of now.
NeedsRefresh(s) == stale[s]

\* Fault: every session is constructed on the same track.
FaultyNewSession(s, t, k) ==
  /\ home[s] = Unknown
  /\ home' = [home EXCEPT ![s] = t]
  /\ track' = [track EXCEPT ![s] = CHOOSE u \in Track : TRUE]
  /\ tok' = [tok EXCEPT ![s] = k]
  /\ \E b \in BOOLEAN : stale' = [stale EXCEPT ![s] = b]

\* A cell of the heap becomes a session with token pair k on track t.
NewSession(s, t, k) ==
  /\ home[s] = Unknown
  /\ home' = [home EXCEPT ![s] = t]
  /\ track' = [track EXCEPT ![s] = t]
  /\ tok' = [tok EXCEPT ![s] = k]
  /\ \E b \in BOOLEAN : stale' = [stale EXCEPT ![s] = b]

\* Fault: Update takes the id-token and the expiry but keeps the refresh token.
FaultyUpdate(s, k) ==
  /\ \E b \in BOOLEAN : stale' = [stale EXCEPT ![s] = b]
  /\ UNCHANGED <<home, track, tok>>

\* The pair and the expiry are replaced, the track is not looked at.  The new
\* expiry may itself lie within the threshold (a short expiresIn).
Update(s, k) ==
  /\ tok' = [tok EXCEPT ![s] = k]
  /\ \E b \in BOOLEAN : stale' = [stale EXCEPT ![s] = b]
  /\ UNCHANGED <<home, track>>

MuFree == mu = NoProc

\* MemoryStore.Get; ErrNoSession when the track has none.
Get(t) == store[t]

\* Session.Erase on every session of S: zero the tokens, forget the track and
\* the expiry (a zero expiry is always within the threshold).
EraseAll(S) ==
  /\ track' = [s \in Session |-> IF s \in S THEN Unknown ELSE track[s]]
  /\ tok' = [s \in Session |-> IF s \in S THEN NoToken ELSE tok[s]]
  /\ stale' = [s \in Session |-> IF s \in S THEN TRUE ELSE stale[s]]
  /\ UNCHANGED home

Goto(p, l) == pc' = [pc EXCEPT ![p] = l]

\* Fault: the leader's result does not reach the goroutines that wait for it.
FaultySharing(p) == {p}

\* The goroutines parked in singleflight.Do behind leader p share its result.
Sharing(p) == {p} \cup {q \in Proc : pc[q] = "wait" /\ flight[trk[q]] = p}

\* p's call ends with session s (NoSession: an error); if p leads a flight, the
\* flight is forgotten and its followers return the same result.
Return(p, s) ==
  /\ pc' = [q \in Proc |-> IF q \in Sharing(p) THEN "idle" ELSE pc[q]]
  /\ cur' = [q \in Proc |-> IF q \in Sharing(p) THEN s ELSE cur[q]]
  /\ sent' = [sent EXCEPT ![p] = NoToken]
  /\ ans' = [ans EXCEPT ![p] = NoToken]
  /\ flight' = [t \in Track |-> IF flight[t] = p THEN NoProc ELSE flight[t]]
  /\ UNCHANGED trk

-----------------------------------------------------------------------------
(* AutoRefresher.Ensure, up to the singleflight slot.                      *)

\* Store.Get under the read lock; ErrNoSession returns at once.
EnsureGet(p, t) ==
  /\ pc[p] = "idle" /\ MuFree
  /\ trk' = [trk EXCEPT ![p] = t]
  /\ cur' = [cur EXCEPT ![p] = Get(t)]
  /\ Goto(p, IF Get(t) = NoSession THEN "idle" ELSE "check")
  /\ UNCHANGED <<heap, store, mu, flight, sent, ans, gateway>>

\* A fresh session is returned, a stale one goes through singleflight.
EnsureCheck(p) ==
  /\ pc[p] = "check"
  /\ Goto(p, IF NeedsRefresh(cur[p]) THEN "join" ELSE "idle")
  /\ UNCHANGED <<heap, store, mu, flight, trk, cur, sent, ans, gateway>>

\* Fault: no singleflight, every stale caller refreshes for itself.
FaultyJoin(p) ==
  /\ pc[p] = "join"
  /\ flight' = [flight EXCEPT ![trk[p]] = p] /\ Goto(p, "leadGet")
  /\ UNCHANGED <<heap, store, mu, trk, cur, sent, ans, gateway>>

\* singleflight.Group.Do: the first caller of a track leads, later ones wait.
Join(p) ==
  /\ pc[p] = "join"
  /\ IF flight[trk[p]] = NoProc
     THEN flight' = [flight EXCEPT ![trk[p]] = p] /\ Goto(p, "leadGet")
     ELSE Goto(p, "wait") /\ UNCHANGED flight
  /\ UNCHANGED <<heap, store, mu, trk, cur, sent, ans, gateway>>

(* The function the leader runs inside the flight.                         *)

\* Fault: the error of the second Store.Get is ignored.
FaultyLeadGet(p) ==
  /\ pc[p] = "leadGet" /\ MuFree
  /\ cur' = [cur EXCEPT ![p] = Get(trk[p])]
  /\ Goto(p, "leadCheck")
  /\ UNCHANGED <<heap, store, mu, flight, trk, sent, ans, gateway>>

\* Second Store.Get, inside the flight.
LeadGet(p) ==
  /\ pc[p] = "leadGet" /\ MuFree
  /\ IF Get(trk[p]) = NoSession
     THEN Return(p, NoSession)
     ELSE /\ cur' = [cur EXCEPT ![p] = Get(trk[p])]
          /\ Goto(p, "leadCheck")
          /\ UNCHANGED <<flight, trk, sent, ans>>
  /\ UNCHANGED <<heap, store, mu, gateway>>

\* Fault: the leader refreshes without looking at the session again.
FaultyLeadCheck(p) ==
  /\ pc[p] = "leadCheck"
  /\ Goto(p, "refresh")
  /\ UNCHANGED <<heap, store, mu, flight, trk, cur, sent, ans, gateway>>

\* The re-check: a peer's refresh may have made the session fresh again.
LeadCheck(p) ==
  /\ pc[p] = "leadCheck"
  /\ IF NeedsRefresh(cur[p])
     THEN Goto(p, "refresh") /\ UNCHANGED <<flight, trk, cur, sent, ans>>
     ELSE Return(p, cur[p])
  /\ UNCHANGED <<heap, store, mu, gateway>>

(* OTPFlow.Refresh and SEP10Flow.Refresh.                                  *)

\* The track test of the flow: an erased session fails with ErrWrongTrack.
RefreshTrack(p) ==
  /\ pc[p] = "refresh"
  /\ IF track[cur[p]] = trk[p]
     THEN Goto(p, "body") /\ UNCHANGED <<flight, trk, cur, sent, ans>>
     ELSE Return(p, NoSession)
  /\ UNCHANGED <<heap, store, mu, gateway>>

\* RefreshToken is read into the body and the request leaves the process.
RefreshBody(p) ==
  /\ pc[p] = "body"
  /\ sent' = [sent EXCEPT ![p] = tok[cur[p]]]
  /\ Goto(p, "sent")
  /\ UNCHANGED <<heap, store, mu, flight, trk, cur, ans, gateway>>

\* The gateway exchanges an unspent refresh token for a new pair.
GatewayExchange(p) ==
  /\ pc[p] = "sent" /\ sent[p] # NoToken /\ sent[p] \notin spent
  /\ \E k \in Token :
       /\ issuedOn[k] = Unknown
       /\ issuedOn' = [issuedOn EXCEPT ![k] = issuedOn[sent[p]]]
       /\ ans' = [ans EXCEPT ![p] = k]
  /\ spent' = spent \cup {sent[p]}
  /\ Goto(p, "answer")
  /\ UNCHANGED <<heap, store, mu, flight, trk, cur, sent, lost>>

\* The gateway refuses: the refresh fails, nothing was exchanged.
RefreshRejected(p) ==
  /\ pc[p] = "sent"
  /\ Return(p, NoSession)
  /\ UNCHANGED <<heap, store, mu, gateway>>

\* The leader's context ends, the transport fails or the answer cannot be
\* read: the flow returns an error although the exchange may have happened,
\* or may still happen (GatewayLate).
RefreshGivenUp(p) ==
  /\ pc[p] \in {"sent", "answer"}
  /\ lost' = lost \cup ({sent[p]} \ {NoToken})
  /\ Return(p, NoSession)
  /\ UNCHANGED <<heap, store, mu, issuedOn, spent>>

GatewayLate(k) ==
  /\ k \in lost \ spent
  /\ spent' = spent \cup {k}
  /\ UNCHANGED <<heap, store, mu, flight, pc, trk, cur, sent, ans, issuedOn, lost>>

\* The pair received goes into the session in hand, whatever became of it.
AnswerUpdate(p) ==
  /\ pc[p] = "answer"
  /\ Update(cur[p], ans[p])
  /\ ans' = [ans EXCEPT ![p] = NoToken]
  /\ sent' = [sent EXCEPT ![p] = NoToken]
  /\ Goto(p, "put")
  /\ UNCHANGED <<store, mu, flight, trk, cur, gateway>>

-----------------------------------------------------------------------------
(* The login recipes (LoginOTP, ConnectLogin): a new session, then Put.    *)

\* A first exchange with the gateway succeeds and fills a new session.
Login(p, t) ==
  /\ pc[p] = "idle"
  /\ \E s \in Session, k \in Token :
       /\ issuedOn[k] = Unknown
       /\ NewSession(s, t, k)
       /\ issuedOn' = [issuedOn EXCEPT ![k] = t]
       /\ cur' = [cur EXCEPT ![p] = s]
  /\ trk' = [trk EXCEPT ![p] = t]
  /\ Goto(p, "put")
  /\ UNCHANGED <<store, mu, flight, sent, ans, spent, lost>>

(* MemoryStore.Put, called by the leader and by the login recipes.         *)

\* The unknown-track test reads the session before the store lock is taken.
PutCheck(p) ==
  /\ pc[p] = "put"
  /\ IF track[cur[p]] = Unknown
     THEN Return(p, NoSession)
     ELSE Goto(p, "lookup") /\ UNCHANGED <<flight, trk, cur, sent, ans>>
  /\ UNCHANGED <<heap, store, mu, gateway>>

\* Fault: Put overwrites the slot without erasing what was there.
FaultyDisplaced(p) == {}

\* The session Put will displace at the slot it reads now.
Displaced(p) == {store[track[cur[p]]]} \ {NoSession, cur[p]}

\* Lock; erase the session that occupies the slot, unless it is this one.
PutLookup(p) ==
  /\ pc[p] = "lookup" /\ MuFree
  /\ mu' = p
  /\ EraseAll(Displaced(p))
  /\ Goto(p, "store")
  /\ UNCHANGED <<store, flight, trk, cur, sent, ans, gateway>>

\* The track is read once more for the write; unlock.
PutStore(p) ==
  /\ pc[p] = "store"
  /\ store' = [store EXCEPT ![track[cur[p]]] = cur[p]]
  /\ mu' = NoProc
  /\ Return(p, cur[p])
  /\ UNCHANGED <<heap, gateway>>

-----------------------------------------------------------------------------
(* The other operations of the store, of the partner and of time.          *)

Stored == {store[t] : t \in Slot} \ {NoSession}

\* MemoryStore.Delete: erase the session of the track and drop the entry.
Delete(t) ==
  /\ MuFree /\ store[t] # NoSession
  /\ EraseAll({store[t]})
  /\ store' = [store EXCEPT ![t] = NoSession]
  /\ UNCHANGED <<mu, flight, pc, trk, cur, sent, ans, gateway>>

\* MemoryStore.Close: erase every stored session, TrackUnknown's slot included.
Close ==
  /\ MuFree /\ Stored # {}
  /\ EraseAll(Stored)
  /\ store' = [t \in Slot |-> NoSession]
  /\ UNCHANGED <<mu, flight, pc, trk, cur, sent, ans, gateway>>

\* The partner erases the session it was handed, without the store's lock.
Erase(p) ==
  /\ pc[p] = "idle" /\ cur[p] # NoSession
  /\ EraseAll({cur[p]})
  /\ UNCHANGED <<store, mu, flight, pc, trk, cur, sent, ans, gateway>>

\* The clock carries a session into the refresh window.
Age(s) ==
  /\ home[s] # Unknown /\ ~stale[s]
  /\ stale' = [stale EXCEPT ![s] = TRUE]
  /\ UNCHANGED <<home, track, tok, store, mu, flight, pc, trk, cur, sent, ans, gateway>>

(* client.Call with the session in hand, for an endpoint of track t.       *)

\* Fault: any session passes.
FaultyCallGuard(p, t) ==
  /\ pc[p] = "idle" /\ cur[p] # NoSession
  /\ trk' = [trk EXCEPT ![p] = t]
  /\ Goto(p, "call")
  /\ UNCHANGED <<heap, store, mu, flight, cur, sent, ans, gateway>>

\* The cross-track guard reads Session.Track; a mismatch is ErrWrongTrack.
CallGuard(p, t) ==
  /\ pc[p] = "idle" /\ cur[p] # NoSession /\ track[cur[p]] = t
  /\ trk' = [trk EXCEPT ![p] = t]
  /\ Goto(p, "call")
  /\ UNCHANGED <<heap, store, mu, flight, cur, sent, ans, gateway>>

\* The Authorization header reads Session.IDToken; the request is sent.
CallBearer(p) ==
  /\ pc[p] = "call"
  /\ ans' = [ans EXCEPT ![p] = tok[cur[p]]]
  /\ Goto(p, "bearer")
  /\ UNCHANGED <<heap, store, mu, flight, trk, cur, sent, gateway>>

CallDone(p) ==
  /\ pc[p] = "bearer"
  /\ ans' = [ans EXCEPT ![p] = NoToken]
  /\ Goto(p, "idle")
  /\ UNCHANGED <<heap, store, mu, flight, trk, cur, sent, gateway>>

-----------------------------------------------------------------------------
\* The steps of a call in progress: the scheduler and the HTTP client's
\* timeout see to it that each is eventually taken.
Network(p) == GatewayExchange(p) \/ RefreshRejected(p) \/ RefreshGivenUp(p)
Refreshing(p) == \/ EnsureCheck(p) \/ Join(p) \/ LeadGet(p) \/ LeadCheck(p)
                 \/ RefreshTrack(p) \/ RefreshBody(p) \/ Network(p) \/ AnswerUpdate(p)
Putting(p) == PutCheck(p) \/ PutLookup(p) \/ PutStore(p)
Calling(p) == CallBearer(p) \/ CallDone(p)
Proceed(p) == Refreshing(p) \/ Putting(p) \/ Calling(p)

\* What a goroutine may start, and what may happen to it.
Begin(p) == Erase(p) \/ \E t \in Track : EnsureGet(p, t) \/ Login(p, t) \/ CallGuard(p, t)
Environment == \/ Close
               \/ \E t \in Track : Delete(t)
               \/ \E s \in Session : Age(s)
               \/ \E k \in Token : GatewayLate(k)

Next == Environment \/ \E p \in Proc : Proceed(p) \/ Begin(p)

Spec == Init /\ [][Next]_vars

\* sync.RWMutex hands a blocked writer the lock (a waiting Lock stops new
\* readers) and a blocked reader its turn, hence strong fairness at the lock.
Fairness == \A p \in Proc : /\ WF_vars(Proceed(p))
                            /\ SF_vars(LeadGet(p)) /\ SF_vars(PutLookup(p))
FairSpec == Spec /\ Fairness
-----------------------------------------------------------------------------
(* What the package promises.                                              *)

\* docs/tokens.md: a refresh token is single-use.  Ensure never has a request
\* in flight that carries a token already exchanged, unless the client had
\* given up on the exchange that spent it: singleflight and the re-check keep
\* goroutines from racing with the same token.
SingleUse ==
  \A p \in Proc : pc[p] = "sent" /\ sent[p] \in spent => sent[p] \in lost

\* The pair that replaces a spent refresh token is never dropped by a live
\* session: a session holds a spent token only while its leader carries the
\* answer to Session.Update, or after an exchange the client gave up on.
RotationKept ==
  \A s \in Session :
    tok[s] \in spent => \/ tok[s] \in lost
                        \/ \E p \in Proc : pc[p] = "answer" /\ cur[p] = s

\* store.go, "a store MUST isolate sessions by Track": the token found under
\* a track was issued by that track's login or by a refresh that descends from
\* it, however Put, Delete, Erase and Update interleave.
TrackIsolation ==
  \A t \in Track :
    /\ store[t] # NoSession
    /\ tok[store[t]] # NoToken
    => issuedOn[tok[store[t]]] = t

\* docs/tokens.md, cross-track guard: the bearer that client.Call puts on a
\* request of track t is a token of track t, or empty when the session was
\* erased between the guard and the header.
BearerOnTrack ==
  \A p \in Proc : pc[p] = "bearer" /\ ans[p] # NoToken => issuedOn[ans[p]] = trk[p]

\* auth/autorefresh.go, the re-check inside the flight: the session a leader
\* refreshes is within the refresh window until the new pair is in place, so a
\* herd that saw the old expiry costs one round trip.
OneRefreshPerWindow ==
  \A p \in Proc : pc[p] \in {"refresh", "body", "sent", "answer"} => stale[cur[p]]

\* docs/tokens.md, "Replacing a session in MemoryStore erases the previous
\* value": a session that loses its slot can no longer pass a track test,
\* also when Put found the slot under one track and wrote under another.
DisplacedErased ==
  [][\A t \in Slot : store[t] # NoSession /\ store'[t] # store[t]
                     => track'[store[t]] = Unknown]_vars

\* Ensure returns: a caller that must refresh, leader or follower, gets an
\* answer; no flight is left without a leader and no lock without an owner.
EnsureReturns == \A p \in Proc : pc[p] \in {"join", "wait"} ~> pc[p] = "idle"

(* A statement of a test that the code does not keep.                      *)

\* auth/auth_test.go: "Putting an unknown-track session is a contract
\* violation"; Put tests for it before it locks, and reads the track again after.
NothingUnderUnknown == store[Unknown] = NoSession
==============================================================================
