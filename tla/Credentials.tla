----------------------------- MODULE Credentials -----------------------------
(***************************************************************************)
(* Package recipes on a shared Client: RegisterApplication and             *)
(* RotateCredential, which hand credentials that the gateway issues once   *)
(* to a callback of the partner, and the logins ConnectLogin and LoginOTP, *)
(* which file a session in the Client's store.                             *)
(*                                                                         *)
(* A request may fail after the gateway has acted on it.  A callback may   *)
(* return an error or panic.  A store of the partner's own may fail.       *)
(***************************************************************************)
EXTENDS ZeamClient

VARIABLES
  minted,    \* the gateway has issued credentials for the goroutine's call
  came,      \* the secrets the answer to it carried
  kit,       \* the SDK's copies of them that are not zeroed
  captured,  \* those that its callback was given and kept
  key,       \* the keypair parsed from the seed: "none", "live" or "erased"
  sess,      \* the session the login made: "none", "live" or "erased"
  filed,     \* the store it was put into ("none")
  result     \* what the recipe returned ("none" while it runs)

secrets == <<minted, came, kit, captured>>
login == <<key, sess, filed>>
vars == <<clientVars, secrets, login, result>>

\* The API key stands for the webhook secret too.
Secret == {"connect", "stellar", "api"}
Recipe == {"register", "rotate", "connectLogin", "otpLogin"}
CredentialPC == {"mint", "minted", "capture", "challenge", "sign", "submit",
                 "otp", "ask", "verify", "put"}
Life == {"none", "live", "erased"}

Shape ==
  /\ ClientShape(ClientPC \cup CredentialPC)
  /\ minted \in [Proc -> BOOLEAN] /\ came \in [Proc -> SUBSET Secret]
  /\ kit \in [Proc -> SUBSET Secret] /\ captured \in [Proc -> SUBSET Secret]
  /\ key \in [Proc -> Life] /\ sess \in [Proc -> Life] /\ filed \in [Proc -> Handle]
  /\ result \in [Proc -> {"none", "ok", "error", "captureFailed", "panic"}]

(***************************************************************************)
(* One type invariant for the client and the recipes: in particular no     *)
(* recipe signs without a seed, puts without a session or runs a callback  *)
(* on credentials that no call of its own has bought.                      *)
(***************************************************************************)
TypeOK ==
  /\ Shape /\ StoreReady
  /\ \A p \in Proc : /\ pc[p] \in {"sign", "submit"} => key[p] = "live"
                     /\ pc[p] = "put" => sess[p] = "live" /\ handle[p] # "none"
                     /\ pc[p] = "capture" => minted[p]

CredentialInit ==
  /\ Init
  /\ minted = [p \in Proc |-> FALSE] /\ came = [p \in Proc |-> {}]
  /\ kit = [p \in Proc |-> {}] /\ captured = [p \in Proc |-> {}]
  /\ key = [p \in Proc |-> "none"] /\ sess = [p \in Proc |-> "none"]
  /\ filed = [p \in Proc |-> "none"] /\ result = [p \in Proc |-> "none"]

-----------------------------------------------------------------------------
\* A new operation has locals of its own.
Start(p, o) ==
  /\ Begin(p, o)
  /\ minted' = [minted EXCEPT ![p] = FALSE] /\ came' = [came EXCEPT ![p] = {}]
  /\ kit' = [kit EXCEPT ![p] = {}] /\ captured' = [captured EXCEPT ![p] = {}]
  /\ key' = [key EXCEPT ![p] = "none"] /\ sess' = [sess EXCEPT ![p] = "none"]
  /\ filed' = [filed EXCEPT ![p] = "none"] /\ result' = [result EXCEPT ![p] = "none"]

\* The recipe goes on at l.
Next1(p, l) == Goto(p, l) /\ UNCHANGED <<shared, op, handle, heard, result>>

\* The recipe returns (or unwinds), after its deferred Keypair.Erase.
ReturnWith(p, r) ==
  /\ Goto(p, "idle")
  /\ result' = [result EXCEPT ![p] = r]
  /\ key' = [key EXCEPT ![p] = IF @ = "live" THEN "erased" ELSE @]
  /\ UNCHANGED <<shared, op, handle, heard>>

RecipeError(p) == ReturnWith(p, "error") /\ UNCHANGED <<secrets, sess, filed>>

\* A request of a recipe fails, refused or without an answer.
RequestFails(p) ==
  /\ pc[p] \in {"mint", "minted", "challenge", "submit", "otp", "verify"}
  /\ RecipeError(p)

-----------------------------------------------------------------------------
(* RegisterApplication and RotateCredential.                               *)

MintSend(p) ==
  /\ pc[p] = "ready" /\ op[p] \in {"register", "rotate"}
  /\ Next1(p, "mint") /\ UNCHANGED <<secrets, login>>

\* The gateway creates the application, or the key, and its secrets.
Mint(p) ==
  /\ pc[p] = "mint" /\ Next1(p, "minted")
  /\ minted' = [minted EXCEPT ![p] = TRUE]
  /\ UNCHANGED <<came, kit, captured, login>>

SecretsOf(o) == IF o = "rotate" THEN {"api"} ELSE Secret

\* What an answer must carry to be handed to the callback.
Required(o) == IF o = "register" THEN {"connect", "stellar"} ELSE {}

\* The answer, decoded by client.Call: the callback is called, or the secrets
\* that did come are dropped as they are.
MintAnswered(p) ==
  /\ pc[p] = "minted"
  /\ \E a \in Answer, carried \in SUBSET SecretsOf(op[p]) :
       LET outcome == CallOutcome(a[1], a[2])
           got == IF outcome = "payload" THEN carried ELSE {}
       IN /\ came' = [came EXCEPT ![p] = got] /\ kit' = [kit EXCEPT ![p] = got]
          /\ IF outcome # "error" /\ Required(op[p]) \subseteq got
             THEN Next1(p, "capture") /\ UNCHANGED key
             ELSE ReturnWith(p, "error")
  /\ UNCHANGED <<minted, captured, sess, filed>>

\* Fault: an error of the callback is returned before the copies are zeroed.
FaultyZeroed(p, kept) == IF kept THEN {} ELSE kit[p]

\* The copies left when the callback has returned.
Zeroed(p, kept) == {}

\* Fault: the copies are zeroed before they are handed over.
FaultyGiven(p) == {}

\* What the callback is given.
Given(p) == kit[p]

\* The callback returns; the copies are zeroed whatever it returned.
CaptureReturns(p) ==
  /\ pc[p] = "capture"
  /\ \E kept \in BOOLEAN :
       /\ captured' = [captured EXCEPT ![p] = IF kept THEN Given(p) ELSE {}]
       /\ kit' = [kit EXCEPT ![p] = Zeroed(p, kept)]
       /\ ReturnWith(p, IF kept THEN "ok" ELSE "captureFailed")
  /\ UNCHANGED <<minted, came, sess, filed>>

\* A callback that panics: nothing is deferred that would zero the copies.
CallbackPanics(p) ==
  /\ pc[p] \in {"capture", "ask"}
  /\ ReturnWith(p, "panic") /\ UNCHANGED <<secrets, sess, filed>>

-----------------------------------------------------------------------------
(* ConnectLogin and SEP10Flow.Login.                                       *)

\* NewKeypair: the seed or the public key is malformed, or the keypair lives.
ParseKeypair(p) ==
  /\ pc[p] = "ready" /\ op[p] = "connectLogin"
  /\ \/ RecipeError(p)
     \/ /\ key' = [key EXCEPT ![p] = "live"] /\ Next1(p, "challenge")
        /\ UNCHANGED <<secrets, sess, filed>>

\* GetChallenge: a value without transaction is an error.
GetChallenge(p) ==
  /\ pc[p] = "challenge"
  /\ \E a \in Answer : IF SEP10Outcome(a[1], a[2]) = "payload"
                       THEN Next1(p, "sign") /\ UNCHANGED <<secrets, login>>
                       ELSE RecipeError(p)

\* The signer may fail; the one in the repository always does.
Sign(p) ==
  /\ pc[p] = "sign"
  /\ RecipeError(p) \/ (Next1(p, "submit") /\ UNCHANGED <<secrets, login>>)

\* A session, if the answer has a usable expiresIn.
Established(p, outcome) ==
  \/ /\ outcome = "payload" /\ sess' = [sess EXCEPT ![p] = "live"]
     /\ Next1(p, "put") /\ UNCHANGED <<secrets, key, filed>>
  \/ RecipeError(p)

SubmitSigned(p) ==
  /\ pc[p] = "submit"
  /\ \E a \in Answer : Established(p, SEP10Outcome(a[1], a[2]))

(* LoginOTP.                                                               *)

RequestSend(p) ==
  /\ pc[p] = "ready" /\ op[p] = "otpLogin"
  /\ RecipeError(p) \/ (Next1(p, "otp") /\ UNCHANGED <<secrets, login>>)

\* RequestOTP: a value without requestId is an error.
RequestOTP(p) ==
  /\ pc[p] = "otp"
  /\ \E a \in Answer : IF OTPOutcome(a[1], a[2]) = "payload"
                       THEN Next1(p, "ask") /\ UNCHANGED <<secrets, login>>
                       ELSE RecipeError(p)

\* The callback gives the code the user typed; an error, or no code, ends it.
AskCode(p) ==
  /\ pc[p] = "ask"
  /\ RecipeError(p) \/ (Next1(p, "verify") /\ UNCHANGED <<secrets, login>>)

VerifyOTP(p) ==
  /\ pc[p] = "verify"
  /\ \E a \in Answer : Established(p, OTPOutcome(a[1], a[2]))

(* Both logins end with TokenStore.Put.                                    *)

\* Fault: the session is left alive when the store did not take it.
FaultyPutFails(p) ==
  /\ pc[p] = "put" /\ store = "own" /\ ReturnWith(p, "error")
  /\ \E s \in {"none", handle[p]} : filed' = [filed EXCEPT ![p] = s]
  /\ UNCHANGED <<secrets, sess>>

\* A store of the partner's fails, before or after it has kept the session.
PutFails(p) ==
  /\ pc[p] = "put" /\ store = "own" /\ ReturnWith(p, "error")
  /\ sess' = [sess EXCEPT ![p] = "erased"]
  /\ \E s \in {"none", handle[p]} : filed' = [filed EXCEPT ![p] = s]
  /\ UNCHANGED secrets

Put(p) ==
  /\ pc[p] = "put" /\ ReturnWith(p, "ok")
  /\ filed' = [filed EXCEPT ![p] = handle[p]]
  /\ UNCHANGED <<secrets, sess>>

-----------------------------------------------------------------------------
Requesting(p) == \/ RequestFails(p) \/ Mint(p) \/ MintAnswered(p) \/ GetChallenge(p)
                 \/ SubmitSigned(p) \/ RequestOTP(p) \/ VerifyOTP(p)
Callback(p) == CaptureReturns(p) \/ CallbackPanics(p) \/ AskCode(p)
RecipeStep(p) == \/ MintSend(p) \/ ParseKeypair(p) \/ Sign(p) \/ RequestSend(p)
                 \/ Put(p) \/ PutFails(p)

recipeVars == <<secrets, login, result>>

Next == \/ (Construct \/ \E p \in Proc : ClientStep(p)) /\ UNCHANGED recipeVars
        \/ \E p \in Proc : \/ \E o \in Operation[p] : Start(p, o)
                           \/ Requesting(p) \/ Callback(p) \/ RecipeStep(p)

Spec == CredentialInit /\ [][Next]_vars

\* The scheduler runs a goroutine that can go on, and a request ends if the
\* http.Client, or a deadline of the SDK's own, bounds it.
Fairness ==
  \A p \in Proc : /\ WF_vars(Running(p) /\ UNCHANGED recipeVars)
                  /\ WF_vars(Bounded(cfg) /\ Probing(p) /\ UNCHANGED recipeVars)
                  /\ WF_vars(CallEnds(p) /\ CallReturns(p) /\ UNCHANGED recipeVars)

FairSpec == Spec /\ Fairness
-----------------------------------------------------------------------------
(* What the recipes promise.                                               *)

\* app_registration.go, "zeroes the underlying struct immediately after", and
\* ConnectLogin, "parses and zeroises it": when a recipe is over and its
\* callback did not panic, no copy of a secret that was handed over is left,
\* and no keypair on any path.
SecretsLetGo ==
  \A p \in Proc : pc[p] = "idle" =>
    /\ key[p] # "live"
    /\ result[p] \in {"ok", "captureFailed"} => kit[p] = {}

\* docs/recipes.md, one-time-secret capture: no error means that the partner's
\* callback was given, and kept, all that the answer to this very call carried,
\* with the two secrets without which a registration is of no use; an error
\* other than its own means that it was given nothing.
ResultMeansCaptured ==
  \A p \in Proc : op[p] \in {"register", "rotate"} =>
    /\ result[p] = "ok" => /\ captured[p] = came[p]
                           /\ op[p] = "register" => {"connect", "stellar"} \subseteq came[p]
    /\ result[p] = "error" => captured[p] = {}

\* LoginOTP and ConnectLogin, "persists it in the client's TokenStore": the
\* session of a login that succeeded is alive and lies in the store that every
\* other goroutine of the client has been given or will be.
LoginsAreFound ==
  \A p, q \in Proc : op[p] \in {"connectLogin", "otpLogin"} /\ result[p] = "ok" =>
    /\ sess[p] = "live" /\ filed[p] # "none"
    /\ handle[q] \in {"none", filed[p]} /\ store = filed[p]

\* A login that failed leaves no session that could still be used, although
\* the store may have kept the pointer to it.
FailedLoginLeavesNothing ==
  \A p \in Proc : result[p] \in {"error", "panic"} => sess[p] # "live"
==============================================================================
