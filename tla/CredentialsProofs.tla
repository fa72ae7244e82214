--------------------------- MODULE CredentialsProofs ---------------------------
(***************************************************************************)
(* Theorems about Credentials for any number of goroutines that share a    *)
(* Client, any answers and any versions a gateway may report: one verdict  *)
(* of the handshake, one store, and what a recipe leaves of the secrets    *)
(* and the session it handled.                                             *)
(*                                                                         *)
(* The two Onces come first (LazyInv, VerdictInv), then each goroutine by  *)
(* itself (Own), then what it has from the shared store (StoreInv).        *)
(***************************************************************************)
EXTENDS Credentials, TLAPS

PC == ClientPC \cup CredentialPC
Logins == {"connectLogin", "otpLogin"}
Mints == {"register", "rotate"}

\* A handshake that is over has a verdict.
VerdictKnown == verOnce = "done" => verdict # "unset"

\* lazy.once: one goroutine builds, and nobody has another store than its.
LazyInv ==
  /\ store # "none" <=> lazyOnce = "done"
  /\ \A p \in Proc : pc[p] = "build" => lazyOnce = "running"
  /\ \A p, q \in Proc : pc[p] = "build" /\ pc[q] = "build" => p = q
  /\ \A p \in Proc : handle[p] \in {"none", store}

\* versionOnce: one goroutine asks, and nobody hears of a verdict before.
VerdictInv ==
  /\ verdict # "unset" => verOnce = "done"
  /\ \A p \in Proc : pc[p] = "probe" => verOnce = "running"
  /\ \A p, q \in Proc : pc[p] = "probe" /\ pc[q] = "probe" => p = q
  /\ \A p \in Proc : heard[p] \notin {"none", "skipped"} => heard[p] = verdict /\ verOnce = "done"
  /\ verdict = "compatible" => ~(CompareSemver(seen, MinGatewayVersion) < 0)

\* What a goroutine's place in its operation says of what it holds.
Own(p) ==
  /\ result[p] # "none" => pc[p] = "idle"
  /\ pc[p] \in {"mint", "minted", "capture"} => op[p] \in Mints
  /\ pc[p] \in {"challenge", "sign", "submit"} => op[p] = "connectLogin" /\ key[p] = "live"
  /\ pc[p] \in {"otp", "ask", "verify"} => op[p] = "otpLogin"
  /\ pc[p] = "put" => op[p] \in Logins /\ sess[p] = "live"
  /\ key[p] = "live" => pc[p] \in {"challenge", "sign", "submit", "put"}
  /\ sess[p] = "live" => pc[p] = "put" \/ result[p] = "ok"
  /\ pc[p] \in {"minted", "capture"} => minted[p]
  /\ kit[p] # {} => pc[p] = "capture" \/ result[p] \in {"error", "panic"}
  /\ pc[p] = "capture" => kit[p] = came[p] /\ Required(op[p]) \subseteq came[p]
  /\ captured[p] # {} => result[p] = "ok"
  /\ op[p] \in Mints /\ result[p] = "ok" =>
       captured[p] = came[p] /\ Required(op[p]) \subseteq came[p]
  /\ op[p] \in Logins /\ result[p] = "ok" => sess[p] = "live"

OwnInv == \A p \in Proc : Own(p)

\* A recipe has a store, the store, and has filed its session there.
StoreInv ==
  \A p \in Proc :
    /\ pc[p] \in CredentialPC \cup {"ready"} => handle[p] # "none"
    /\ op[p] \in Logins /\ result[p] = "ok" => filed[p] = store /\ store # "none"

\* A step of p leaves the other goroutines where they are.
Elsewhere(p) ==
  \A q \in Proc \ {p} :
    /\ pc'[q] = pc[q] /\ op'[q] = op[q] /\ handle'[q] = handle[q] /\ heard'[q] = heard[q]
    /\ minted'[q] = minted[q] /\ came'[q] = came[q] /\ kit'[q] = kit[q]
    /\ captured'[q] = captured[q] /\ key'[q] = key[q] /\ sess'[q] = sess[q]
    /\ filed'[q] = filed[q] /\ result'[q] = result[q]

-----------------------------------------------------------------------------
\* Where a goroutine goes.
LEMMA GotoMoves ==
  ASSUME Shape, NEW p \in Proc, NEW l \in PC, Goto(p, l)
  PROVE  /\ pc' \in [Proc -> PC] /\ pc'[p] = l
         /\ \A q \in Proc \ {p} : pc'[q] = pc[q]
  BY DEF Shape, ClientShape, Goto, PC

\* A recipe that returns has let its keypair go.
LEMMA ReturnMoves ==
  ASSUME Shape, NEW p \in Proc, NEW r \in {"ok", "error", "captureFailed", "panic"},
         ReturnWith(p, r)
  PROVE  /\ pc' \in [Proc -> PC] /\ pc'[p] = "idle"
         /\ result' \in [Proc -> {"none", "ok", "error", "captureFailed", "panic"}]
         /\ result'[p] = r /\ key' \in [Proc -> Life] /\ key'[p] # "live"
         /\ \A q \in Proc \ {p} :
              pc'[q] = pc[q] /\ key'[q] = key[q] /\ result'[q] = result[q]
         /\ UNCHANGED <<shared, op, handle, heard>>
<1> "idle" \in PC
  BY DEF PC, ClientPC
<1> QED BY GotoMoves DEF ReturnWith, Shape, Life

\* One that goes on has changed nothing else yet.
LEMMA NextMoves ==
  ASSUME Shape, NEW p \in Proc, NEW l \in CredentialPC, Next1(p, l)
  PROVE  /\ pc' \in [Proc -> PC] /\ pc'[p] = l
         /\ \A q \in Proc \ {p} : pc'[q] = pc[q]
         /\ UNCHANGED <<shared, op, handle, heard, result>>
<1> l \in PC
  BY DEF PC
<1> QED BY GotoMoves DEF Next1

\* The variables of the client keep to their values when a goroutine moves.
LEMMA ClientKept ==
  ASSUME Shape, pc' \in [Proc -> PC], UNCHANGED <<shared, op, handle, heard>>
  PROVE  ClientShape(PC)'
  BY DEF Shape, ClientShape, shared, PC

\* A step of a recipe, seen from the client: its goroutine moves.
Moves(p) ==
  /\ Shape' /\ Elsewhere(p) /\ UNCHANGED <<shared, op, handle, heard>>
  /\ pc[p] \in CredentialPC \cup {"ready"} /\ pc'[p] \in CredentialPC \cup {"idle"}

\* A recipe that fails.
LEMMA ErrorMoves ==
  ASSUME Shape, NEW p \in Proc, RecipeError(p), pc[p] \in CredentialPC \cup {"ready"}
  PROVE  Moves(p)
<1>1. ReturnWith(p, "error") /\ UNCHANGED <<secrets, sess, filed>>
  BY DEF RecipeError
<1> QED BY <1>1, ReturnMoves, ClientKept DEF Moves, Elsewhere, Shape, secrets, PC

\* Every step of the recipes is such a move.
LEMMA RecipeMoves ==
  ASSUME Shape, NEW p \in Proc, Requesting(p) \/ Callback(p) \/ RecipeStep(p)
  PROVE  Moves(p)
<1>0. /\ pc[p] \in CredentialPC \cup {"ready"}
      /\ CredentialPC = {"mint", "minted", "capture", "challenge", "sign", "submit",
                         "otp", "ask", "verify", "put"}
  BY DEF Requesting, Callback, RecipeStep, RequestFails, Mint, MintAnswered, GetChallenge,
         SubmitSigned, RequestOTP, VerifyOTP, CaptureReturns, CallbackPanics, AskCode,
         MintSend, ParseKeypair, Sign, RequestSend, Put, PutFails, CredentialPC
<1>1. ASSUME NEW l \in CredentialPC, Next1(p, l), UNCHANGED <<secrets, login>> PROVE Moves(p)
  BY <1>0, <1>1, NextMoves, ClientKept DEF Moves, Elsewhere, Shape, secrets, login, PC
<1>2. ASSUME RecipeError(p) PROVE Moves(p)
  BY <1>0, <1>2, ErrorMoves
<1>3. CASE Mint(p)
  <2>1. Next1(p, "minted") /\ minted' \in [Proc -> BOOLEAN]
        /\ \A q \in Proc \ {p} : minted'[q] = minted[q]
    BY <1>3 DEF Mint, Shape
  <2> QED BY <1>0, <1>3, <2>1, NextMoves, ClientKept DEF Mint, Moves, Elsewhere, Shape,
             login, PC
<1>4. CASE MintAnswered(p)
  <2>1. PICK a \in Answer, carried \in SUBSET SecretsOf(op[p]), got \in SUBSET Secret :
          /\ came' = [came EXCEPT ![p] = got] /\ kit' = [kit EXCEPT ![p] = got]
          /\ \/ Next1(p, "capture") /\ UNCHANGED key
             \/ ReturnWith(p, "error")
    BY <1>4 DEF MintAnswered, SecretsOf, Secret
  <2>2. /\ came' \in [Proc -> SUBSET Secret] /\ kit' \in [Proc -> SUBSET Secret]
        /\ \A q \in Proc \ {p} : came'[q] = came[q] /\ kit'[q] = kit[q]
    BY <2>1 DEF Shape
  <2>3. UNCHANGED <<minted, captured, sess, filed>>
    BY <1>4 DEF MintAnswered
  <2>4. CASE Next1(p, "capture") /\ UNCHANGED key
    BY <1>0, <2>2, <2>3, <2>4, NextMoves, ClientKept DEF Moves, Elsewhere, Shape, PC
  <2>5. CASE ReturnWith(p, "error")
    BY <1>0, <2>2, <2>3, <2>5, ReturnMoves, ClientKept DEF Moves, Elsewhere, Shape, PC
  <2> QED BY <2>1, <2>4, <2>5
<1>5. ASSUME NEW outcome, Established(p, outcome) PROVE Moves(p)
  <2>1. CASE RecipeError(p)
    BY <1>2, <2>1
  <2>2. CASE ~RecipeError(p)
    <3>1. /\ Next1(p, "put") /\ UNCHANGED <<secrets, key, filed>>
          /\ sess' \in [Proc -> Life] /\ \A q \in Proc \ {p} : sess'[q] = sess[q]
      BY <1>5, <2>2 DEF Established, Shape, Life
    <3> QED BY <1>0, <3>1, NextMoves, ClientKept DEF Moves, Elsewhere, Shape, secrets, PC
  <2> QED BY <2>1, <2>2
<1>6. CASE CaptureReturns(p)
  <2>1. PICK kept \in BOOLEAN :
          /\ captured' = [captured EXCEPT ![p] = IF kept THEN Given(p) ELSE {}]
          /\ kit' = [kit EXCEPT ![p] = Zeroed(p, kept)]
          /\ ReturnWith(p, IF kept THEN "ok" ELSE "captureFailed")
    BY <1>6 DEF CaptureReturns
  <2>2. /\ captured' \in [Proc -> SUBSET Secret] /\ kit' \in [Proc -> SUBSET Secret]
        /\ \A q \in Proc \ {p} : captured'[q] = captured[q] /\ kit'[q] = kit[q]
    BY <2>1 DEF Shape, Given, Zeroed
  <2>3. \E r \in {"ok", "captureFailed"} : ReturnWith(p, r)
    BY <2>1
  <2> QED BY <1>0, <1>6, <2>2, <2>3, ReturnMoves, ClientKept DEF CaptureReturns, Moves,
             Elsewhere, Shape, PC
<1>7. CASE CallbackPanics(p)
  BY <1>0, <1>7, ReturnMoves, ClientKept DEF CallbackPanics, Moves, Elsewhere, Shape,
     secrets, PC
<1>8. CASE ParseKeypair(p)
  <2>1. CASE RecipeError(p)
    BY <1>2, <2>1
  <2>2. CASE ~RecipeError(p)
    <3>1. /\ Next1(p, "challenge") /\ UNCHANGED <<secrets, sess, filed>>
          /\ key' \in [Proc -> Life] /\ \A q \in Proc \ {p} : key'[q] = key[q]
      BY <1>8, <2>2 DEF ParseKeypair, Shape, Life
    <3> QED BY <1>0, <3>1, NextMoves, ClientKept DEF Moves, Elsewhere, Shape, secrets, PC
  <2> QED BY <2>1, <2>2
<1>9. CASE Put(p) \/ PutFails(p)
  <2>1. /\ filed' \in [Proc -> Handle] /\ \A q \in Proc \ {p} : filed'[q] = filed[q]
        /\ sess' \in [Proc -> Life] /\ \A q \in Proc \ {p} : sess'[q] = sess[q]
        /\ UNCHANGED secrets /\ \E r \in {"ok", "error"} : ReturnWith(p, r)
    BY <1>9 DEF Put, PutFails, Shape, ClientShape, Handle, Life
  <2> QED BY <1>0, <2>1, ReturnMoves, ClientKept DEF Moves, Elsewhere, Shape, secrets, PC
<1>10. CASE RequestFails(p)
  BY <1>2, <1>10 DEF RequestFails
<1>11. CASE MintSend(p) \/ Sign(p) \/ RequestSend(p) \/ AskCode(p)
  BY <1>0, <1>1, <1>2, <1>11 DEF MintSend, Sign, RequestSend, AskCode
<1>12. CASE GetChallenge(p) \/ RequestOTP(p)
  BY <1>0, <1>1, <1>2, <1>12 DEF GetChallenge, RequestOTP
<1>13. CASE SubmitSigned(p) \/ VerifyOTP(p)
  BY <1>5, <1>13 DEF SubmitSigned, VerifyOTP
<1> QED BY <1>3, <1>4, <1>6, <1>7, <1>8, <1>9, <1>10, <1>11, <1>12, <1>13
        DEF Requesting, Callback, RecipeStep

\* The steps of the client keep to one goroutine too.
LEMMA ClientMoves ==
  ASSUME Shape, VerdictKnown, NEW p \in Proc, ClientStep(p), UNCHANGED recipeVars
  PROVE  Shape' /\ VerdictKnown' /\ Elsewhere(p) /\ UNCHANGED <<cfg, op>>
<1>0. {"idle", "build", "ready", "probe", "sent"} \subseteq PC
  BY DEF PC, ClientPC
<1>1. ASSUME NEW l \in PC, Goto(p, l), UNCHANGED <<cfg, op>>, lazyOnce' \in Once,
             verOnce' \in Once, store' \in Handle, verdict' \in Verdict \cup {"unset"},
             seen' \in Seq(Nat \cup {NaN}), handle' \in [Proc -> Handle],
             heard' \in [Proc -> Verdict \cup {"none", "skipped"}],
             \A q \in Proc \ {p} : handle'[q] = handle[q] /\ heard'[q] = heard[q],
             \/ UNCHANGED <<verOnce, verdict>>
             \/ verOnce' = "running" \/ verdict' \in Verdict
      PROVE  Shape' /\ VerdictKnown' /\ Elsewhere(p)
  BY <1>1, GotoMoves DEF VerdictKnown, Verdict, Shape, ClientShape, Elsewhere, recipeVars, secrets, login, PC
<1>2. /\ lazyOnce \in Once /\ verOnce \in Once /\ store \in Handle
      /\ verdict \in Verdict \cup {"unset"} /\ seen \in Seq(Nat \cup {NaN})
      /\ handle \in [Proc -> Handle] /\ heard \in [Proc -> Verdict \cup {"none", "skipped"}]
      /\ p \in Handle /\ "own" \in Handle /\ {"running", "done"} \subseteq Once
  BY DEF Shape, ClientShape, Handle, Once
<1>3. CASE LazyFirst(p)
  BY <1>0, <1>1, <1>2, <1>3 DEF LazyFirst
<1>4. CASE LazyBuild(p)
  <2>1. PICK built \in Handle : store' = built /\ handle' = [handle EXCEPT ![p] = built]
    BY <1>2, <1>4 DEF LazyBuild
  <2>2. /\ handle' \in [Proc -> Handle] /\ store' \in Handle
        /\ \A q \in Proc \ {p} : handle'[q] = handle[q]
    BY <1>2, <2>1
  <2> QED BY <1>0, <1>1, <1>2, <1>4, <2>2 DEF LazyBuild
<1>5. CASE LazyDone(p)
  <2>1. /\ handle' \in [Proc -> Handle] /\ \A q \in Proc \ {p} : handle'[q] = handle[q]
    BY <1>2, <1>5 DEF LazyDone
  <2> QED BY <1>0, <1>1, <1>2, <1>5, <2>1 DEF LazyDone, shared
<1>6. CASE PingFirst(p)
  BY <1>0, <1>1, <1>2, <1>6 DEF PingFirst
<1>7. CASE PingLater(p)
  <2>1. verdict \in Verdict
    BY <1>2, <1>7 DEF PingLater, VerdictKnown
  <2>2. /\ heard' \in [Proc -> Verdict \cup {"none", "skipped"}]
        /\ \A q \in Proc \ {p} : heard'[q] = heard[q]
    BY <1>2, <1>7, <2>1 DEF PingLater
  <2> QED BY <1>0, <1>1, <1>2, <1>7, <2>2 DEF PingLater, shared
<1>8. ASSUME NEW r \in Verdict, NEW v \in Seq(Nat \cup {NaN}), VerdictIs(p, r, v)
      PROVE  Shape' /\ VerdictKnown' /\ Elsewhere(p) /\ UNCHANGED <<cfg, op>>
  <2>1. /\ heard' \in [Proc -> Verdict \cup {"none", "skipped"}]
        /\ \A q \in Proc \ {p} : heard'[q] = heard[q]
    BY <1>2, <1>8 DEF VerdictIs
  <2> QED BY <1>0, <1>1, <1>2, <1>8, <2>1 DEF VerdictIs
<1>9. CASE ProbeAnswered(p)
  <2>1. PICK v \in Version : VerdictIs(p, Judge(v), v)
    BY <1>9 DEF ProbeAnswered
  <2>2. Judge(v) \in Verdict /\ v \in Seq(Nat \cup {NaN})
    BY ClientAssumption DEF Judge, Verdict
  <2> QED BY <1>8, <2>1, <2>2
<1>10. CASE ProbeFails(p)
  <2>1. "failed" \in Verdict /\ <<>> \in Seq(Nat \cup {NaN})
    BY DEF Verdict
  <2> QED BY <1>8, <1>10, <2>1 DEF ProbeFails
<1>11. CASE StoreGiven(p) \/ CallReturns(p)
  BY <1>0, <1>1, <1>2, <1>11 DEF StoreGiven, CallReturns, Return, shared
<1>12. CASE TypedSend(p)
  BY <1>0, <1>1, <1>2, <1>12 DEF TypedSend, shared
<1> QED BY <1>3, <1>4, <1>5, <1>6, <1>7, <1>9, <1>10, <1>11, <1>12
        DEF ClientStep, Running, Probing

\* An operation begins with its own locals, in its own goroutine.
LEMMA StartMoves ==
  ASSUME Shape, NEW p \in Proc, NEW o \in Operation[p], Start(p, o)
  PROVE  /\ Shape' /\ Elsewhere(p) /\ UNCHANGED <<shared, handle>>
         /\ pc[p] = "idle" /\ pc'[p] \in {"idle", "once", "sent", "lazy"}
         /\ heard'[p] \in {heard[p], "skipped"} /\ minted'[p] = FALSE /\ kit'[p] = {}
         /\ captured'[p] = {} /\ key'[p] = "none" /\ sess'[p] = "none"
         /\ result'[p] = "none"
<1>1. /\ pc' \in [Proc -> PC] /\ pc'[p] \in {"idle", "once", "sent", "lazy"}
      /\ \A q \in Proc \ {p} : pc'[q] = pc[q]
  <2>1. PICK l \in {"idle", "once", "sent", "lazy"} : Goto(p, l)
    BY DEF Start, Begin
  <2>2. l \in PC
    BY DEF PC, ClientPC
  <2> QED BY <2>1, <2>2, GotoMoves
<1>2. /\ heard' \in [Proc -> Verdict \cup {"none", "skipped"}]
      /\ \A q \in Proc \ {p} : heard'[q] = heard[q]
      /\ heard'[p] \in {heard[p], "skipped"}
  BY DEF Start, Begin, Shape, ClientShape
<1>3. /\ op' \in [Proc -> (UNION {Operation[q] : q \in Proc}) \cup {"none"}]
      /\ \A q \in Proc \ {p} : op'[q] = op[q]
  <2>1. op' = [op EXCEPT ![p] = o]
    BY DEF Start, Begin
  <2>2. o \in (UNION {Operation[q] : q \in Proc}) \cup {"none"}
    OBVIOUS
  <2> QED BY <2>1, <2>2 DEF Shape, ClientShape
<1>4. /\ minted' \in [Proc -> BOOLEAN] /\ came' \in [Proc -> SUBSET Secret]
      /\ kit' \in [Proc -> SUBSET Secret] /\ captured' \in [Proc -> SUBSET Secret]
      /\ minted'[p] = FALSE /\ kit'[p] = {} /\ captured'[p] = {}
      /\ \A q \in Proc \ {p} : /\ minted'[q] = minted[q] /\ came'[q] = came[q]
                               /\ kit'[q] = kit[q] /\ captured'[q] = captured[q]
  BY DEF Start, Shape
<1>5. /\ key' \in [Proc -> Life] /\ sess' \in [Proc -> Life] /\ filed' \in [Proc -> Handle]
      /\ result' \in [Proc -> {"none", "ok", "error", "captureFailed", "panic"}]
      /\ key'[p] = "none" /\ sess'[p] = "none" /\ result'[p] = "none"
      /\ \A q \in Proc \ {p} : /\ key'[q] = key[q] /\ sess'[q] = sess[q]
                               /\ filed'[q] = filed[q] /\ result'[q] = result[q]
  BY DEF Start, Shape, Life, Handle
<1>6. pc[p] = "idle" /\ UNCHANGED <<shared, handle>>
  BY DEF Start, Begin
<1>7. Shape'
  BY <1>1, <1>2, <1>3, <1>4, <1>5, <1>6 DEF Shape, ClientShape, shared, PC
<1> QED BY <1>1, <1>2, <1>3, <1>4, <1>5, <1>6, <1>7 DEF Elsewhere

-----------------------------------------------------------------------------
\* Every variable keeps to its values.
THEOREM ShapeCorrect == Spec => [](Shape /\ VerdictKnown)
<1>1. CredentialInit => Shape /\ VerdictKnown
  <2> SUFFICES ASSUME CredentialInit PROVE Shape /\ VerdictKnown
    OBVIOUS
  <2>1. NoConfig \in Config
    BY DEF NoConfig, DefaultConfig, Config
  <2>2. seen \in Seq(Nat \cup {NaN})
    BY DEF CredentialInit, Init
  <2>3. ClientShape(ClientPC \cup CredentialPC)
    <3>1. cfg \in Config /\ lazyOnce \in Once /\ verOnce \in Once /\ store \in Handle
      BY <2>1 DEF CredentialInit, Init, Once, Handle
    <3>2. pc \in [Proc -> ClientPC \cup CredentialPC] /\ handle \in [Proc -> Handle]
      BY DEF CredentialInit, Init, ClientPC, Handle
    <3>3. heard \in [Proc -> Verdict \cup {"none", "skipped"}] /\ verdict = "unset"
      BY DEF CredentialInit, Init
    <3>4. op \in [Proc -> (UNION {Operation[p] : p \in Proc}) \cup {"none"}]
      <4> DEFINE begun == UNION {Operation[p] : p \in Proc}
      <4> HIDE DEF begun
      <4>1. op \in [Proc -> begun \cup {"none"}]
        BY DEF CredentialInit, Init
      <4> QED BY <4>1 DEF begun
    <3> QED BY <2>2, <3>1, <3>2, <3>3, <3>4 DEF ClientShape
  <2>4. Shape
    BY <2>3 DEF CredentialInit, Shape, Handle, Life
  <2> QED BY <2>4 DEF CredentialInit, Init, VerdictKnown
<1>2. Shape /\ VerdictKnown /\ [Next]_vars => (Shape /\ VerdictKnown)'
  <2> SUFFICES ASSUME Shape, VerdictKnown, [Next]_vars PROVE (Shape /\ VerdictKnown)'
    OBVIOUS
  <2>1. CASE Construct /\ UNCHANGED recipeVars
    <3>1. cfg' \in Config /\ UNCHANGED <<lazyOnce, store, verOnce, verdict, seen, local>>
      BY <2>1, OptionAssumption DEF Construct, New
    <3> QED BY <2>1, <3>1 DEF Shape, ClientShape, local, recipeVars, secrets, login,
               VerdictKnown
  <2>2. ASSUME NEW p \in Proc, ClientStep(p), UNCHANGED recipeVars PROVE (Shape /\ VerdictKnown)'
    BY <2>2, ClientMoves
  <2>3. ASSUME NEW p \in Proc, NEW o \in Operation[p], Start(p, o) PROVE (Shape /\ VerdictKnown)'
    BY <2>3, StartMoves DEF VerdictKnown, shared
  <2>4. ASSUME NEW p \in Proc, Requesting(p) \/ Callback(p) \/ RecipeStep(p) PROVE (Shape /\ VerdictKnown)'
    BY <2>4, RecipeMoves DEF Moves, VerdictKnown, shared
  <2>5. CASE UNCHANGED vars
    BY <2>5 DEF vars, clientVars, shared, local, secrets, login, Shape, ClientShape,
                VerdictKnown
  <2> QED BY <2>1, <2>2, <2>3, <2>4, <2>5 DEF Next
<1> QED BY <1>1, <1>2, PTL DEF Spec

-----------------------------------------------------------------------------
\* lazyInit runs once: there is one store, and it is what every accessor gives.
THEOREM OneStore == Spec => []LazyInv
<1> USE ClientAssumption
<1>1. CredentialInit => LazyInv
  BY DEF CredentialInit, Init, LazyInv
<1>2. Shape /\ VerdictKnown /\ LazyInv /\ [Next]_vars => LazyInv'
  <2> SUFFICES ASSUME Shape, VerdictKnown, LazyInv, [Next]_vars PROVE LazyInv'
    OBVIOUS
  <2>1. ASSUME UNCHANGED <<lazyOnce, store, handle>>,
               \A q \in Proc : pc'[q] = pc[q] \/ pc'[q] # "build"
        PROVE  LazyInv'
    BY <2>1 DEF LazyInv
  <2>2. ASSUME NEW p \in Proc, ClientStep(p), UNCHANGED recipeVars PROVE LazyInv'
    <3>1. Shape' /\ Elsewhere(p)
      BY <2>2, ClientMoves
    <3>2. \A l : Goto(p, l) => pc'[p] = l
      BY DEF Goto, Shape, ClientShape
    <3>3. CASE LazyFirst(p)
      <4>1. /\ lazyOnce = "new" /\ lazyOnce' = "running" /\ pc'[p] = "build"
            /\ UNCHANGED <<store, handle>>
        BY <3>2, <3>3 DEF LazyFirst
      <4> QED BY <3>1, <4>1 DEF LazyInv, Elsewhere
    <3>4. CASE LazyBuild(p)
      <4>1. /\ pc[p] = "build" /\ lazyOnce' = "done" /\ pc'[p] = "ready"
            /\ store' \in {"own", p} /\ handle'[p] = store'
        BY <3>2, <3>4 DEF LazyBuild, Shape, ClientShape
      <4>2. store = "none" /\ \A q \in Proc : handle[q] = "none"
        BY <4>1 DEF LazyInv
      <4>3. store' # "none"
        BY <4>1
      <4>4. \A q \in Proc \ {p} : pc'[q] # "build"
        BY <3>1, <4>1 DEF LazyInv, Elsewhere
      <4> QED BY <3>1, <4>1, <4>2, <4>3, <4>4 DEF LazyInv, Elsewhere
    <3>5. CASE LazyDone(p)
      <4>1. pc'[p] = "ready" /\ handle'[p] = store /\ UNCHANGED <<lazyOnce, store>>
        BY <3>2, <3>5 DEF LazyDone, Shape, ClientShape, shared
      <4> QED BY <3>1, <4>1 DEF LazyInv, Elsewhere
    <3>6. CASE ~(LazyFirst(p) \/ LazyBuild(p) \/ LazyDone(p))
      <4>1. /\ UNCHANGED <<lazyOnce, store, handle>>
            /\ \E l \in {"probe", "idle", "sent"} : Goto(p, l)
        BY <2>2, <3>6 DEF ClientStep, Running, Probing, PingFirst, PingLater, StoreGiven,
           TypedSend, ProbeAnswered, ProbeFails, VerdictIs, CallReturns, Return, shared
      <4> QED BY <2>1, <3>1, <3>2, <4>1 DEF Elsewhere
    <3> QED BY <3>3, <3>4, <3>5, <3>6
  <2>3. ASSUME NEW p \in Proc, NEW o \in Operation[p], Start(p, o) PROVE LazyInv'
    BY <2>1, <2>3, StartMoves DEF Elsewhere, shared
  <2>4. ASSUME NEW p \in Proc, Requesting(p) \/ Callback(p) \/ RecipeStep(p) PROVE LazyInv'
    BY <2>1, <2>4, RecipeMoves DEF Moves, Elsewhere, shared, CredentialPC
  <2>5. CASE Construct \/ UNCHANGED vars
    BY <2>1, <2>5 DEF Construct, New, local, vars, clientVars, shared
  <2> QED BY <2>2, <2>3, <2>4, <2>5 DEF Next
<1> QED BY <1>1, <1>2, ShapeCorrect, PTL DEF Spec

\* The handshake runs once, and what it found is what everybody hears.
THEOREM VerdictInvariant == Spec => []VerdictInv
<1>1. CredentialInit => VerdictInv
  BY DEF CredentialInit, Init, VerdictInv
<1>2. Shape /\ VerdictKnown /\ VerdictInv /\ [Next]_vars => VerdictInv'
  <2> SUFFICES ASSUME Shape, VerdictKnown, VerdictInv, [Next]_vars PROVE VerdictInv'
    OBVIOUS
  <2>1. ASSUME UNCHANGED <<verOnce, verdict, seen>>,
               \A q \in Proc : pc'[q] = pc[q] \/ pc'[q] # "probe",
               \A q \in Proc : \/ heard'[q] \in {heard[q], "skipped"}
                               \/ verOnce = "done" /\ heard'[q] = verdict
        PROVE  VerdictInv'
    BY <2>1 DEF VerdictInv
  <2>2. ASSUME NEW p \in Proc, ClientStep(p), UNCHANGED recipeVars PROVE VerdictInv'
    <3>1. Shape' /\ Elsewhere(p)
      BY <2>2, ClientMoves
    <3>2. \A l : Goto(p, l) => pc'[p] = l
      BY DEF Goto, Shape, ClientShape
    <3>3. CASE PingFirst(p)
      <4>1. /\ verOnce = "new" /\ verOnce' = "running" /\ pc'[p] = "probe"
            /\ UNCHANGED <<verdict, seen, heard>>
        BY <3>2, <3>3 DEF PingFirst
      <4> QED BY <3>1, <4>1 DEF VerdictInv, Elsewhere
    <3>4. CASE PingLater(p)
      <4>1. /\ verOnce = "done" /\ heard'[p] = verdict /\ pc'[p] = "idle"
            /\ UNCHANGED <<verOnce, verdict, seen>>
        BY <3>2, <3>4 DEF PingLater, Shape, ClientShape, shared
      <4> QED BY <2>1, <3>1, <4>1 DEF Elsewhere
    <3>5. ASSUME NEW r, NEW v, VerdictIs(p, r, v),
                 r = "compatible" => ~(CompareSemver(v, MinGatewayVersion) < 0)
          PROVE  VerdictInv'
      <4>1. /\ pc[p] = "probe" /\ pc'[p] = "idle" /\ verOnce' = "done" /\ verdict' = r
            /\ seen' = v /\ heard'[p] = r
        BY <3>2, <3>5 DEF VerdictIs, Shape, ClientShape
      <4>2. /\ \A q \in Proc : heard[q] \in {"none", "skipped"}
            /\ \A q \in Proc \ {p} : pc[q] # "probe"
        BY <4>1 DEF VerdictInv
      <4>3. verdict' = "compatible" => ~(CompareSemver(seen', MinGatewayVersion) < 0)
        BY <3>5, <4>1
      <4> QED BY <3>1, <4>1, <4>2, <4>3 DEF VerdictInv, Elsewhere
    <3>6. CASE ProbeAnswered(p)
      <4>1. PICK v \in Version : VerdictIs(p, Judge(v), v)
        BY <3>6 DEF ProbeAnswered
      <4>2. Judge(v) = "compatible" => ~(CompareSemver(v, MinGatewayVersion) < 0)
        BY DEF Judge
      <4> QED BY <3>5, <4>1, <4>2
    <3>7. CASE ProbeFails(p)
      BY <3>5, <3>7 DEF ProbeFails
    <3>8. CASE ~(PingFirst(p) \/ PingLater(p) \/ ProbeAnswered(p) \/ ProbeFails(p))
      <4>1. /\ UNCHANGED <<verOnce, verdict, seen, heard>>
            /\ \E l \in {"build", "ready", "idle", "sent"} : Goto(p, l)
        BY <2>2, <3>8 DEF ClientStep, Running, Probing, LazyFirst, LazyBuild, LazyDone,
           StoreGiven, TypedSend, CallReturns, Return, shared
      <4> QED BY <2>1, <3>1, <3>2, <4>1 DEF Elsewhere
    <3> QED BY <3>3, <3>4, <3>6, <3>7, <3>8
  <2>3. ASSUME NEW p \in Proc, NEW o \in Operation[p], Start(p, o) PROVE VerdictInv'
    BY <2>1, <2>3, StartMoves DEF Elsewhere, shared
  <2>4. ASSUME NEW p \in Proc, Requesting(p) \/ Callback(p) \/ RecipeStep(p)
        PROVE  VerdictInv'
    BY <2>1, <2>4, RecipeMoves DEF Moves, Elsewhere, shared, CredentialPC
  <2>5. CASE Construct \/ UNCHANGED vars
    BY <2>1, <2>5 DEF Construct, New, local, vars, clientVars, shared
  <2> QED BY <2>2, <2>3, <2>4, <2>5 DEF Next
<1> QED BY <1>1, <1>2, ShapeCorrect, PTL DEF Spec

\* zeam.go, "It runs at most once per client": every goroutine that has heard
\* from Ping has heard the one verdict, and nobody before it was known.
THEOREM VerdictIsOne == Spec => []OneVerdict
<1>1. VerdictInv => OneVerdict
  BY DEF VerdictInv, OneVerdict
<1> QED BY <1>1, VerdictInvariant, PTL

\* A version has three segments, each a number.
LEMMA Segments ==
  ASSUME NEW v \in Seq(Nat \cup {NaN})
  PROVE  Split(v) \in [1 .. 3 -> Nat]
  BY DEF Split, NaN

\* compareSemver orders versions by their first segment that differs.
LEMMA VersionOrder ==
  ASSUME NEW a \in Seq(Nat \cup {NaN}), NEW b \in Seq(Nat \cup {NaN})
  PROVE  LET x == Split(a)
             y == Split(b)
         IN CompareSemver(a, b) < 0
            <=> \/ x[1] < y[1]
                \/ x[1] = y[1] /\ x[2] < y[2]
                \/ x[1] = y[1] /\ x[2] = y[2] /\ x[3] < y[3]
<1> DEFINE x == Split(a)
           y == Split(b)
           differ == {i \in 1 .. 3 : x[i] # y[i]}
           first == CHOOSE i \in differ : \A j \in differ : i <= j
<1>1. /\ x[1] \in Nat /\ x[2] \in Nat /\ x[3] \in Nat
      /\ y[1] \in Nat /\ y[2] \in Nat /\ y[3] \in Nat
  BY Segments
<1>2. CompareSemver(a, b) = IF differ = {} THEN 0 ELSE x[first] - y[first]
  BY DEF CompareSemver
<1> HIDE DEF x, y
<1>3. ASSUME NEW i \in differ, \A j \in differ : i <= j PROVE first = i
  <2>1. \A k \in differ : (\A j \in differ : k <= j) => k = i
    BY <1>3
  <2> QED BY <1>3, <2>1
<1>4. CASE x[1] = y[1] /\ x[2] = y[2] /\ x[3] = y[3]
  <2>1. differ = {}
    <3>1. \A i \in 1 .. 3 : i = 1 \/ i = 2 \/ i = 3
      OBVIOUS
    <3> QED BY <1>4, <3>1
  <2> HIDE DEF first, differ
  <2> QED BY <1>1, <1>2, <1>4, <2>1 DEF x, y
<1>5. CASE x[1] # y[1]
  <2>1. 1 \in differ /\ \A j \in differ : 1 <= j
    BY <1>5
  <2>2. first = 1 /\ differ # {}
    BY <1>3, <2>1
  <2> HIDE DEF first, differ
  <2> QED BY <1>1, <1>2, <1>5, <2>2 DEF x, y
<1>6. CASE x[1] = y[1] /\ x[2] # y[2]
  <2>1. 2 \in differ /\ \A j \in differ : 2 <= j
    BY <1>6
  <2>2. first = 2 /\ differ # {}
    BY <1>3, <2>1
  <2> HIDE DEF first, differ
  <2> QED BY <1>1, <1>2, <1>6, <2>2 DEF x, y
<1>7. CASE x[1] = y[1] /\ x[2] = y[2] /\ x[3] # y[3]
  <2>1. 3 \in differ /\ \A j \in differ : 3 <= j
    BY <1>7
  <2>2. first = 3 /\ differ # {}
    BY <1>3, <2>1
  <2> HIDE DEF first, differ
  <2> QED BY <1>1, <1>2, <1>7, <2>2 DEF x, y
<1> QED BY <1>4, <1>5, <1>6, <1>7

\* MinGatewayVersion, "refuses gateways older than this", by the order of
\* versions, whatever number a gateway reports in whatever segment.
THEOREM NotOlder == Spec => []Compatible
<1>1. Shape /\ VerdictInv => Compatible
  <2> DEFINE v == Split(seen)
             w == Split(MinGatewayVersion)
  <2> SUFFICES ASSUME Shape, VerdictInv, NEW p \in Proc, heard[p] = "compatible",
                      NEW i \in 1 .. 3, v[i] < w[i],
                      \A j \in 1 .. (i - 1) : v[j] = w[j]
               PROVE  FALSE
    BY DEF Compatible
  <2>1. seen \in Seq(Nat \cup {NaN}) /\ MinGatewayVersion \in Seq(Nat \cup {NaN})
    BY DEF Shape, ClientShape, MinGatewayVersion
  <2>2. ~(CompareSemver(seen, MinGatewayVersion) < 0)
    BY DEF VerdictInv
  <2>3. ~ \/ v[1] < w[1]
          \/ v[1] = w[1] /\ v[2] < w[2]
          \/ v[1] = w[1] /\ v[2] = w[2] /\ v[3] < w[3]
    BY <2>1, <2>2, VersionOrder
  <2> HIDE DEF v, w
  <2>4. CASE i = 1
    BY <2>3, <2>4
  <2>5. CASE i = 2
    BY <2>3, <2>5
  <2>6. CASE i = 3
    <3>1. v[1] = w[1] /\ v[2] = w[2]
      BY <2>6
    <3> QED BY <2>3, <2>6, <3>1
  <2> QED BY <2>4, <2>5, <2>6
<1> QED BY <1>1, ShapeCorrect, VerdictInvariant, PTL

-----------------------------------------------------------------------------
\* A goroutine that does not move holds what it held.
LEMMA OwnKept ==
  ASSUME NEW q \in Proc, Own(q), pc'[q] = pc[q], op'[q] = op[q], minted'[q] = minted[q],
         came'[q] = came[q], kit'[q] = kit[q], captured'[q] = captured[q],
         key'[q] = key[q], sess'[q] = sess[q], result'[q] = result[q]
  PROVE  Own(q)'
  BY DEF Own

\* A recipe that fails before it has a session returns nothing of worth.
LEMMA OwnError ==
  ASSUME Shape, NEW p \in Proc, Own(p), RecipeError(p),
         pc[p] \notin {"idle", "put", "capture"}
  PROVE  Own(p)'
<1>1. /\ pc'[p] = "idle" /\ result'[p] = "error" /\ key'[p] # "live" /\ op' = op
      /\ UNCHANGED <<minted, came, kit, captured, sess>>
  BY ReturnMoves DEF RecipeError, secrets
<1>2. result[p] = "none" /\ sess[p] # "live" /\ captured[p] = {}
  BY DEF Own
<1> QED BY <1>1, <1>2 DEF Own

\* A recipe that goes on, its locals as they were, to a place where no more is
\* asked of them than where it was.
LEMMA OwnNext ==
  ASSUME Shape, NEW p \in Proc, Own(p), NEW l \in CredentialPC, Next1(p, l),
         UNCHANGED <<secrets, login>>, pc[p] \notin {"idle", "put", "minted", "capture"},
         \/ l = "mint" /\ op[p] \in Mints /\ pc[p] = "ready"
         \/ l \in {"sign", "submit"} /\ pc[p] \in {"challenge", "sign"}
         \/ l \in {"otp", "ask", "verify"} /\ op[p] = "otpLogin"
            /\ pc[p] \in {"ready", "otp", "ask"}
  PROVE  Own(p)'
<1>1. /\ pc'[p] = l /\ op' = op /\ result' = result
      /\ UNCHANGED <<minted, came, kit, captured, key, sess>>
  BY NextMoves DEF secrets, login
<1>2. /\ result[p] = "none" /\ sess[p] # "live" /\ captured[p] = {} /\ kit[p] = {}
  BY DEF Own
<1>3. pc[p] \in {"ready", "otp", "ask"} => key[p] # "live"
  BY DEF Own
<1> QED BY <1>1, <1>2, <1>3 DEF Own

\* What each place in a recipe says of the secrets, the keypair and the
\* session that the goroutine holds there.
THEOREM OwnInvariant == Spec => []OwnInv
<1>1. CredentialInit => OwnInv
  BY DEF CredentialInit, Init, OwnInv, Own, Mints, Logins
<1>2. Shape /\ VerdictKnown /\ OwnInv /\ [Next]_vars => OwnInv'
  <2> SUFFICES ASSUME Shape, VerdictKnown, OwnInv, [Next]_vars PROVE OwnInv'
    OBVIOUS
  <2>1. \A p \in Proc : Own(p)
    BY DEF OwnInv
  <2>2. ASSUME NEW p \in Proc, Elsewhere(p), Own(p)' PROVE OwnInv'
    <3>1. ASSUME NEW q \in Proc \ {p} PROVE Own(q)'
      BY <2>1, <2>2, OwnKept DEF Elsewhere
    <3> QED BY <2>2, <3>1 DEF OwnInv
  <2>3. ASSUME NEW p \in Proc, ClientStep(p), UNCHANGED recipeVars PROVE OwnInv'
    <3>1. Elsewhere(p) /\ UNCHANGED op
      BY <2>3, ClientMoves
    <3>2. /\ pc[p] \in {"lazy", "build", "once", "probe", "ready", "sent"}
          /\ pc'[p] \in {"build", "ready", "probe", "idle", "sent"}
      <4>1. \A l : Goto(p, l) => pc'[p] = l
        BY DEF Goto, Shape, ClientShape
      <4> QED BY <2>3, <4>1 DEF ClientStep, Running, Probing, LazyFirst, LazyBuild, LazyDone,
                 PingFirst, PingLater, StoreGiven, TypedSend, ProbeAnswered, ProbeFails,
                 VerdictIs, CallReturns, Return
    <3>3. Own(p)'
      <4>1. Own(p) /\ UNCHANGED <<op, minted, came, kit, captured, key, sess, result>>
        BY <2>1, <2>3, <3>1 DEF recipeVars, secrets, login
      <4>2. result[p] = "none" /\ key[p] # "live" /\ sess[p] # "live"
        BY <3>2, <4>1 DEF Own
      <4> QED BY <3>2, <4>1, <4>2 DEF Own
    <3> QED BY <2>2, <3>1, <3>3
  <2>4. ASSUME NEW p \in Proc, NEW o \in Operation[p], Start(p, o) PROVE OwnInv'
    <3>1. Own(p)'
      BY <2>4, StartMoves DEF Own
    <3> QED BY <2>2, <2>4, <3>1, StartMoves
  <2>5. ASSUME NEW p \in Proc, Requesting(p) \/ Callback(p) \/ RecipeStep(p) PROVE Own(p)'
    <3> Own(p)
      BY <2>1
    <3>0. CredentialPC = {"mint", "minted", "capture", "challenge", "sign", "submit",
                          "otp", "ask", "verify", "put"}
      BY DEF CredentialPC
    <3>1. CASE RequestFails(p)
      BY <3>1, OwnError DEF RequestFails
    <3>2. CASE MintSend(p)
      BY <3>0, <3>2, OwnNext DEF MintSend, Mints
    <3>3. CASE Mint(p)
      <4>1. /\ pc[p] = "mint" /\ pc'[p] = "minted" /\ minted'[p] /\ op' = op
            /\ UNCHANGED <<came, kit, captured, key, sess, result>>
        BY <3>0, <3>3, NextMoves DEF Mint, login, Shape
      <4> QED BY <4>1 DEF Own
    <3>4. CASE MintAnswered(p)
      <4>1. PICK a \in Answer, carried \in SUBSET SecretsOf(op[p]), got \in SUBSET Secret :
              /\ came' = [came EXCEPT ![p] = got] /\ kit' = [kit EXCEPT ![p] = got]
              /\ \/ /\ Required(op[p]) \subseteq got
                    /\ Next1(p, "capture") /\ UNCHANGED key
                 \/ ReturnWith(p, "error")
        BY <3>4 DEF MintAnswered, SecretsOf, Secret
      <4>2. /\ pc[p] = "minted" /\ came'[p] = got /\ kit'[p] = got
            /\ UNCHANGED <<minted, captured, sess>>
        BY <3>4, <4>1 DEF MintAnswered, Shape
      <4>3. result[p] = "none" /\ sess[p] # "live" /\ captured[p] = {} /\ key[p] # "live"
        BY <4>2 DEF Own
      <4>4. CASE /\ Required(op[p]) \subseteq got
                 /\ Next1(p, "capture") /\ UNCHANGED key
        <5>1. pc'[p] = "capture" /\ op' = op /\ result' = result
          BY <3>0, <4>4, NextMoves
        <5> QED BY <4>2, <4>3, <4>4, <5>1 DEF Own
      <4>5. CASE ReturnWith(p, "error")
        <5>1. pc'[p] = "idle" /\ op' = op /\ result'[p] = "error" /\ key'[p] # "live"
          BY <4>5, ReturnMoves
        <5> QED BY <4>2, <4>3, <5>1 DEF Own
      <4> QED BY <4>1, <4>4, <4>5
    <3>5. CASE CaptureReturns(p)
      <4>1. PICK kept \in BOOLEAN :
              /\ captured' = [captured EXCEPT ![p] = IF kept THEN Given(p) ELSE {}]
              /\ kit' = [kit EXCEPT ![p] = Zeroed(p, kept)]
              /\ ReturnWith(p, IF kept THEN "ok" ELSE "captureFailed")
        BY <3>5 DEF CaptureReturns
      <4>2. /\ pc[p] = "capture" /\ UNCHANGED <<minted, came, sess>>
            /\ kit'[p] = {} /\ captured'[p] = IF kept THEN kit[p] ELSE {}
        BY <3>5, <4>1 DEF CaptureReturns, Shape, Given, Zeroed
      <4>3. PICK r \in {"ok", "captureFailed"} : ReturnWith(p, r) /\ (r = "ok" <=> kept)
        BY <4>1
      <4>4. pc'[p] = "idle" /\ op' = op /\ result'[p] = r /\ key'[p] # "live"
        BY <4>3, ReturnMoves
      <4>5. /\ op[p] \in Mints /\ kit[p] = came[p] /\ Required(op[p]) \subseteq came[p]
            /\ sess[p] # "live"
        BY <4>2 DEF Own
      <4> QED BY <4>2, <4>3, <4>4, <4>5 DEF Own, Mints, Logins
    <3>6. CASE CallbackPanics(p)
      <4>1. /\ pc[p] \in {"capture", "ask"} /\ UNCHANGED <<minted, came, kit, captured, sess>>
            /\ pc'[p] = "idle" /\ op' = op /\ result'[p] = "panic" /\ key'[p] # "live"
        BY <3>6, ReturnMoves DEF CallbackPanics, secrets
      <4> QED BY <4>1 DEF Own
    <3>7. CASE ParseKeypair(p)
      <4>1. CASE RecipeError(p)
        BY <3>7, <4>1, OwnError DEF ParseKeypair
      <4>2. CASE ~RecipeError(p)
        <5>1. /\ pc[p] = "ready" /\ op[p] = "connectLogin" /\ key'[p] = "live"
              /\ Next1(p, "challenge") /\ UNCHANGED <<minted, came, kit, captured, sess>>
          BY <3>7, <4>2 DEF ParseKeypair, Shape, secrets
        <5>2. pc'[p] = "challenge" /\ op' = op /\ result' = result
          BY <3>0, <5>1, NextMoves
        <5> QED BY <5>1, <5>2 DEF Own
      <4> QED BY <4>1, <4>2
    <3>8. CASE GetChallenge(p) \/ RequestOTP(p) \/ Sign(p) \/ RequestSend(p) \/ AskCode(p)
      <4>1. CASE RecipeError(p)
        BY <3>8, <4>1, OwnError DEF GetChallenge, RequestOTP, Sign, RequestSend, AskCode
      <4>2. CASE ~RecipeError(p)
        <5>1. \/ op[p] = "otpLogin" /\ pc[p] \in {"ready", "otp", "ask"}
              \/ pc[p] \in {"challenge", "sign"}
          BY <3>8 DEF GetChallenge, RequestOTP, Sign, RequestSend, AskCode, Own
        <5>2. /\ UNCHANGED <<secrets, login>>
              /\ \/ pc[p] \in {"challenge", "sign"}
                    /\ (Next1(p, "sign") \/ Next1(p, "submit"))
                 \/ op[p] = "otpLogin" /\ pc[p] \in {"ready", "otp", "ask"}
                    /\ (Next1(p, "otp") \/ Next1(p, "ask") \/ Next1(p, "verify"))
          BY <3>8, <4>2, <5>1 DEF GetChallenge, RequestOTP, Sign, RequestSend, AskCode
        <5> QED BY <3>0, <5>2, OwnNext
      <4> QED BY <4>1, <4>2
    <3>9. CASE SubmitSigned(p) \/ VerifyOTP(p)
      <4>1. PICK outcome : Established(p, outcome)
        BY <3>9 DEF SubmitSigned, VerifyOTP
      <4>2. pc[p] \in {"submit", "verify"}
        BY <3>9 DEF SubmitSigned, VerifyOTP
      <4>3. CASE RecipeError(p)
        BY <4>2, <4>3, OwnError
      <4>4. CASE ~RecipeError(p)
        <5>1. /\ sess'[p] = "live" /\ Next1(p, "put")
              /\ UNCHANGED <<minted, came, kit, captured, key>>
          BY <4>1, <4>4 DEF Established, secrets, Shape
        <5>2. pc'[p] = "put" /\ op' = op /\ result' = result
          BY <3>0, <5>1, NextMoves
        <5> QED BY <4>2, <5>1, <5>2 DEF Own, Logins
      <4> QED BY <4>3, <4>4
    <3>10. CASE Put(p)
      <4>1. /\ pc[p] = "put" /\ UNCHANGED <<minted, came, kit, captured, sess>>
            /\ pc'[p] = "idle" /\ op' = op /\ result'[p] = "ok" /\ key'[p] # "live"
        BY <3>10, ReturnMoves DEF Put, secrets
      <4> QED BY <4>1 DEF Own, Mints, Logins
    <3>11. CASE PutFails(p)
      <4>1. /\ pc[p] = "put" /\ UNCHANGED <<minted, came, kit, captured>>
            /\ pc'[p] = "idle" /\ op' = op /\ result'[p] = "error" /\ key'[p] # "live"
            /\ sess'[p] = "erased"
        BY <3>11, ReturnMoves DEF PutFails, secrets, Shape
      <4> QED BY <4>1 DEF Own
    <3> QED BY <2>5, <3>1, <3>2, <3>3, <3>4, <3>5, <3>6, <3>7, <3>8, <3>9, <3>10, <3>11
            DEF Requesting, Callback, RecipeStep
  <2>6. ASSUME NEW p \in Proc, Requesting(p) \/ Callback(p) \/ RecipeStep(p) PROVE OwnInv'
    BY <2>2, <2>5, <2>6, RecipeMoves DEF Moves
  <2>7. CASE (Construct /\ UNCHANGED recipeVars) \/ UNCHANGED vars
    <3>1. UNCHANGED <<pc, op, minted, came, kit, captured, key, sess, result>>
      BY <2>7 DEF Construct, New, local, recipeVars, secrets, login, vars, clientVars
    <3> QED BY <2>1, <3>1, OwnKept DEF OwnInv
  <2> QED BY <2>3, <2>4, <2>6, <2>7 DEF Next
<1> QED BY <1>1, <1>2, ShapeCorrect, PTL DEF Spec

-----------------------------------------------------------------------------
\* A goroutine that does not move keeps its store, and its session in it.
StoreOwn(p) ==
  /\ pc[p] \in CredentialPC \cup {"ready"} => handle[p] # "none"
  /\ op[p] \in Logins /\ result[p] = "ok" => filed[p] = store /\ store # "none"

LEMMA StoreKept ==
  ASSUME NEW q \in Proc, StoreOwn(q), pc'[q] = pc[q], op'[q] = op[q], handle'[q] = handle[q],
         filed'[q] = filed[q], result'[q] = result[q], store' = store \/ store = "none"
  PROVE  StoreOwn(q)'
  BY DEF StoreOwn

\* A recipe has the store that every accessor gives, and the session of a login
\* that succeeded has been put into it.
THEOREM StoreInvariant == Spec => []StoreInv
<1> USE ClientAssumption
<1>1. CredentialInit => StoreInv
  BY DEF CredentialInit, Init, StoreInv, CredentialPC, Logins
<1>2. Shape /\ VerdictKnown /\ LazyInv /\ OwnInv /\ StoreInv /\ [Next]_vars => StoreInv'
  <2> SUFFICES ASSUME Shape, VerdictKnown, LazyInv, OwnInv, StoreInv, [Next]_vars
               PROVE  StoreInv'
    OBVIOUS
  <2>0. \A p \in Proc : StoreOwn(p)
    BY DEF StoreInv, StoreOwn
  <2>1. ASSUME NEW p \in Proc, Elsewhere(p), StoreOwn(p)', store' = store \/ store = "none"
        PROVE  StoreInv'
    <3>1. ASSUME NEW q \in Proc \ {p} PROVE StoreOwn(q)'
      BY <2>0, <2>1, StoreKept DEF Elsewhere
    <3>2. \A q \in Proc : StoreOwn(q)'
      BY <2>1, <3>1
    <3> QED BY <3>2 DEF StoreInv, StoreOwn
  <2>2. ASSUME NEW p \in Proc, ClientStep(p), UNCHANGED recipeVars PROVE StoreInv'
    <3>1. Elsewhere(p) /\ UNCHANGED <<op, filed, result>>
      BY <2>2, ClientMoves DEF recipeVars, login
    <3>2. \A l : Goto(p, l) => pc'[p] = l
      BY DEF Goto, Shape, ClientShape
    <3>3. pc[p] # "idle"
      BY <2>2 DEF ClientStep, Running, Probing, LazyFirst, LazyBuild, LazyDone, PingFirst,
         PingLater, StoreGiven, TypedSend, ProbeAnswered, ProbeFails, VerdictIs, CallReturns
    <3>4. result[p] = "none"
      BY <3>3 DEF OwnInv, Own
    <3>5. CASE LazyBuild(p)
      <4>1. /\ pc[p] = "build" /\ handle'[p] \in {"own", p}
        BY <3>5 DEF LazyBuild, Shape, ClientShape
      <4>2. store = "none"
        BY <4>1 DEF LazyInv
      <4> QED BY <2>1, <3>1, <3>4, <4>1, <4>2 DEF StoreOwn
    <3>6. CASE LazyDone(p)
      <4>1. lazyOnce = "done" /\ handle'[p] = store /\ store' = store
        BY <3>6 DEF LazyDone, Shape, ClientShape, shared
      <4>2. store # "none"
        BY <4>1 DEF LazyInv
      <4> QED BY <2>1, <3>1, <3>4, <4>1, <4>2 DEF StoreOwn
    <3>7. CASE ~(LazyBuild(p) \/ LazyDone(p))
      <4>1. /\ store' = store
            /\ \E l \in {"build", "probe", "idle", "sent"} : Goto(p, l)
        BY <2>2, <3>7 DEF ClientStep, Running, Probing, LazyFirst, PingFirst, PingLater,
           StoreGiven, TypedSend, ProbeAnswered, ProbeFails, VerdictIs, CallReturns, Return,
           shared
      <4>2. pc'[p] \notin CredentialPC \cup {"ready"}
        BY <3>2, <4>1 DEF CredentialPC
      <4> QED BY <2>1, <3>1, <3>4, <4>1, <4>2 DEF StoreOwn
    <3> QED BY <3>5, <3>6, <3>7
  <2>3. ASSUME NEW p \in Proc, NEW o \in Operation[p], Start(p, o) PROVE StoreInv'
    <3>1. /\ Elsewhere(p) /\ store' = store
          /\ pc'[p] \in {"idle", "lazy", "once", "sent"} /\ result'[p] = "none"
      BY <2>3, StartMoves DEF shared
    <3> QED BY <2>1, <3>1 DEF StoreOwn, CredentialPC
  <2>4. ASSUME NEW p \in Proc, Requesting(p) \/ Callback(p) \/ RecipeStep(p) PROVE StoreInv'
    <3>1. /\ Elsewhere(p) /\ UNCHANGED <<store, op, handle>>
          /\ pc[p] \in CredentialPC \cup {"ready"}
      BY <2>4, RecipeMoves DEF Moves, shared
    <3>2. handle[p] = store /\ store # "none"
      BY <3>1 DEF StoreInv, LazyInv
    <3>3. op[p] \in Logins /\ result'[p] = "ok" => filed'[p] = store
      <4>1. CASE Put(p)
        BY <3>2, <4>1 DEF Put, Shape
      <4>2. CASE CaptureReturns(p)
        <5>1. op[p] \in Mints
          BY <4>2 DEF CaptureReturns, OwnInv, Own
        <5> QED BY <5>1 DEF Mints, Logins
      <4>3. CASE ~(Put(p) \/ CaptureReturns(p))
        <5>1. pc[p] # "idle"
          BY <3>1 DEF CredentialPC
        <5>2. result[p] = "none"
          BY <5>1 DEF OwnInv, Own
        <5>3. \/ ReturnWith(p, "error") \/ ReturnWith(p, "panic") \/ result' = result
          BY <2>4, <4>3 DEF Requesting, Callback, RecipeStep, RequestFails, Mint,
             MintAnswered, GetChallenge, SubmitSigned, RequestOTP, VerifyOTP, CallbackPanics,
             AskCode, MintSend, ParseKeypair, Sign, RequestSend, PutFails, Established,
             RecipeError, Next1
        <5>4. result'[p] # "ok"
          BY <5>2, <5>3, ReturnMoves
        <5> QED BY <5>4
      <4> QED BY <4>1, <4>2, <4>3
    <3>4. StoreOwn(p)'
      BY <3>1, <3>2, <3>3 DEF StoreOwn
    <3> QED BY <2>1, <3>1, <3>4
  <2>5. CASE (Construct /\ UNCHANGED recipeVars) \/ UNCHANGED vars
    <3>1. UNCHANGED <<pc, op, handle, filed, result, store>>
      BY <2>5 DEF Construct, New, local, recipeVars, login, vars, clientVars, shared
    <3> QED BY <3>1 DEF StoreInv
  <2> QED BY <2>2, <2>3, <2>4, <2>5 DEF Next
<1> QED BY <1>1, <1>2, ShapeCorrect, OneStore, OwnInvariant, PTL DEF Spec

-----------------------------------------------------------------------------
\* No recipe signs without a seed, puts without a session, calls back with
\* credentials it has not bought, or goes on before there is a store.
THEOREM TypeCorrect == Spec => []TypeOK
<1>1. Shape /\ LazyInv /\ OwnInv /\ StoreInv => TypeOK
  <2> SUFFICES ASSUME Shape, LazyInv, OwnInv, StoreInv PROVE TypeOK
    OBVIOUS
  <2>1. StoreReady
    BY DEF StoreReady, StoreInv, LazyInv
  <2>2. ASSUME NEW p \in Proc
        PROVE  /\ pc[p] \in {"sign", "submit"} => key[p] = "live"
               /\ pc[p] = "put" => sess[p] = "live" /\ handle[p] # "none"
               /\ pc[p] = "capture" => minted[p]
    BY DEF OwnInv, Own, StoreInv, CredentialPC
  <2> QED BY <2>1, <2>2 DEF TypeOK
<1> QED BY <1>1, ShapeCorrect, OneStore, OwnInvariant, StoreInvariant, PTL

\* app_registration.go, "zeroes the underlying struct immediately after", and
\* ConnectLogin, "parses and zeroises it", for any answer and any callback.
THEOREM LetGo == Spec => []SecretsLetGo
<1>1. OwnInv => SecretsLetGo
  BY DEF OwnInv, Own, SecretsLetGo
<1> QED BY <1>1, OwnInvariant, PTL

\* docs/recipes.md, one-time-secret capture: no error means that the callback
\* was given, and kept, all that the answer to this very call carried.
THEOREM Captured == Spec => []ResultMeansCaptured
<1>1. OwnInv => ResultMeansCaptured
  BY DEF OwnInv, Own, ResultMeansCaptured, Mints, Required
<1> QED BY <1>1, OwnInvariant, PTL

\* LoginOTP and ConnectLogin, "persists it in the client's TokenStore": the
\* store every other goroutine of the client has been given or will be.
THEOREM Found == Spec => []LoginsAreFound
<1>1. LazyInv /\ OwnInv /\ StoreInv => LoginsAreFound
  BY DEF LazyInv, OwnInv, Own, StoreInv, LoginsAreFound, Logins
<1> QED BY <1>1, OneStore, OwnInvariant, StoreInvariant, PTL

\* PutFails and Erase: a login that failed leaves no session that works.
THEOREM NothingLeft == Spec => []FailedLoginLeavesNothing
<1>1. OwnInv => FailedLoginLeavesNothing
  BY DEF OwnInv, Own, FailedLoginLeavesNothing
<1> QED BY <1>1, OwnInvariant, PTL

-----------------------------------------------------------------------------
\* The shapes of a body.
LEMMA BodyForms ==
  ASSUME NEW b \in Body
  PROVE  \/ b.form = "envelope" /\ b.data \in {"absent", "null", "payload"}
         \/ b.form \in {"empty", "text", "payload"} /\ b.data = "absent"
  BY DEF Body, Bare, Envelope

\* transport.Unwrap with client.Call, and with RawClient: the payload comes out
\* of an answer if it is in it, and only then.
LEMMA Unwrapped ==
  ASSUME NEW a, a[2] \in Body, NEW outcome \in {CallOutcome(a[1], a[2]), RawOutcome(a[1], a[2])}
  PROVE  LET sent == Success(a[1]) /\ "payload" \in {a[2].form, a[2].data}
         IN /\ sent /\ (a[2].form = "payload" \/ a[2].status = 200) => outcome = "payload"
            /\ outcome = "payload" => sent
<1>1. \/ a[2].form = "envelope" /\ a[2].data \in {"absent", "null", "payload"}
      \/ a[2].form \in {"empty", "text", "payload"} /\ a[2].data = "absent"
  BY BodyForms
<1>2. CASE outcome = CallOutcome(a[1], a[2])
  BY <1>1, <1>2 DEF CallOutcome, Unwrap, Unmarshal
<1>3. CASE outcome = RawOutcome(a[1], a[2])
  BY <1>1, <1>3 DEF RawOutcome, Unwrap
<1> QED BY <1>2, <1>3

\* transport/envelope.go: of every answer of whatever status and body, a caller
\* gets the payload exactly when the gateway sent one.
THEOREM Delivered == Spec => []PayloadDelivered
<1>1. PayloadDelivered
  BY ClientAssumption, Unwrapped DEF PayloadDelivered
<1> QED BY <1>1, PTL

\* docs/errors.md, the table of statuses, as KindFromStatus reads it.
LEMMA Rows ==
  ASSUME NEW code \in Nat, NEW k \in Kinds \ {"unknown"}
  PROVE  KindFromStatus(code) = k <=> code \in Row(k)
  BY DEF KindFromStatus, Row, Kinds

\* docs/errors.md: an error of a raw call matches the Kind and the sentinel of
\* its status's row and no other, for every status and body.
THEOREM Documented == Spec => []ErrorsAsDocumented
<1>1. ErrorsAsDocumented
  <2> SUFFICES ASSUME NEW a \in Answer
               PROVE  LET err == ErrorOf(a[1], a[2]) IN
                      /\ \A k \in Kinds \ {"unknown"} : IsKind(err, k) <=> a[1] \in Row(k)
                      /\ \A k \in Sentinels : IsError(err, Sentinel(k)) <=> a[1] \in Row(k)
                      /\ IsKind(err, "transient") => a[1] \in RetryableStatus
    BY DEF ErrorsAsDocumented
  <2> DEFINE err == ErrorOf(a[1], a[2])
  <2>1. a[1] \in Nat /\ err.kind = KindFromStatus(a[1])
    BY ClientAssumption DEF ErrorOf
  <2>2. \A k \in Kinds \ {"unknown"} : IsKind(err, k) <=> a[1] \in Row(k)
    BY <2>1, Rows DEF IsKind
  <2>3. \A k \in Sentinels : IsError(err, Sentinel(k)) <=> a[1] \in Row(k)
    BY <2>1, Rows DEF IsError, Sentinel, Sentinels
  <2>4. IsKind(err, "transient") => a[1] \in RetryableStatus
    <3>1. "transient" \in Kinds \ {"unknown"} /\ Row("transient") \subseteq RetryableStatus
      BY DEF Kinds, Row, RetryableStatus
    <3> QED BY <2>2, <3>1
  <2> QED BY <2>2, <2>3, <2>4
<1> QED BY <1>1, PTL

================================================================================
