# A verification project for zeam-sdk-go

TLA+ modules, TLC configurations and TLAPS proofs for the Go SDK of the Zeam
gateway. Every definition is translated from the Go source; `PROJECT.json`
("map") names the lines each one stands for.

## 1. Inventory

### 1.1 Components

| Component | State it keeps | Operations | Interacts with |
|---|---|---|---|
| `auth.Session` (session.go) | track, id-token, refresh token, expiry, under its own mutex | NewSession, Update, Erase, NeedsRefresh, getters | held by the store and, as a pointer, by every caller that was given it |
| `auth.MemoryStore` (store.go) | map from track to session, under an RWMutex | Put, Get, Delete, Close | calls Session.Track and Session.Erase while it holds its lock |
| `auth.AutoRefresher` (autorefresh.go) | a singleflight group | Ensure | Get and Put of the store, Refresh of a flow |
| `auth.OTPFlow`, `auth.SEP10Flow` | none | RequestOTP, VerifyOTP, GetChallenge, SubmitSigned, Login, Refresh | HTTP to the gateway; Refresh mutates the session it is given |
| `client.Call` (doer.go) and the typed clients | none | one HTTP call: track guard, bearer, envelope | reads the session twice, in two critical sections |
| `transport` (retry.go, roundtripper.go, envelope.go, redaction.go) | a shared random source; per request the attempt and the last response | RoundTrip of two nested layers, Unwrap, Redact | installed into the partner's `http.Client` by `zeam.New` |
| `webhook.Verifier`, `webhook.Handler` | configuration | Verify, the middleware | calls the replay cache between the signature test and the next handler |
| `webhook.LRU` | a list and a map under a mutex | Seen | reads the clock itself |
| `recipes.ConnectPayment` | the values of nine steps | Do, and each step for manual use | SEP-10 login (Put into the shared store), quotes, the partner's Stellar callback, execution |
| `recipes`: registration, credential rotation, quote-then-execute, logins | one-time secrets on the stack | one function each | typed clients, partner callbacks, the store |
| `zeam.Client` (zeam.go, facade.go, options.go) | configuration, a once-only handshake, lazily built clients | New, Ping, RawClient, accessors | everything above |
| `stellar` (keypair.go, asset.go, signer.go) | a seed until it is erased | NewKeypair, Erase, ParseAsset, String, Equal | ConnectLogin and ConnectPayment |
| errors.go | none | KindFromStatus, Error.Is | RawClient |
| internal/*, test/*, examples/* | none of the SDK's own | | not modelled |

### 1.2 What is hard

* Goroutines share `*Session` pointers. The store, the session and the flight
  each have their own lock, and every operation spans several critical
  sections, so a session can be replaced or erased between any two of them.
* The refresh token is single-use: a request that is sent twice, or whose
  answer is lost, ends the session.
* Singleflight shares the leader's result, its errors and its context.
* A replayed webhook is recognised with one clock reading, found fresh with
  another, and the cache may be full.
* A request is retried by a layer below the one that built it, with a body that
  may already have been read, and possibly by two layers.
* A payment spends money in step 8 and can fail in step 9; two flows share the
  store.

`PROJECT.json` lists the hazards with the line where each bites and the
properties that would notice it going wrong.

### 1.3 What makes each component correct

* auth: a spent refresh token is never sent again and never left in a live
  session; tracks never mix; a displaced session is dead; every Ensure returns.
* client.Call: the bearer belongs to the endpoint's track.
* webhook: what was signed is accepted once under an event id, within the skew;
  the LRU keeps the cache contract.
* transport: bounded sends, one idempotency key for all of them, whole bodies,
  no response left open, writes not resent after an answer.
* recipes: a quote is paid for once, at its own price, and settled with its own
  transaction; one-time secrets are handed over whole and zeroed; a login is
  filed where every goroutine of the client looks, a failed one leaves nothing.
* zeam.Client: one store; the handshake runs once, all callers see one outcome,
  and they return; answers are unwrapped and errors classified as documented.

## 2. Modules and plan

### 2.1 What there is

| Module | What it is | Code |
|---|---|---|
| `AutoRefresh` | Session, MemoryStore, AutoRefresher, Refresh, login and Put, client.Call's guard and bearer, against a gateway that rotates tokens | auth/*, client/doer.go, recipes/login_otp.go |
| `AutoRefreshProofs`, `AutoRefreshRefinementProofs` | its theorems; that it implements `TokenRotation` | |
| `TokenRotation` | an abstract specification: a session trades its token for a new one in one exchange at a time | auth/* |
| `AutoRefreshImplements`, `MCAutoRefresh` | the refinement mapping from `AutoRefresh` to `TokenRotation`; instances for TLC | |
| `LRUProofs`, `LRUCallsProofs`, `WebhookProofs` | theorems about the cache, its callers and the verifier | |
| `RetryTransportProofs`, `ConnectPaymentProofs`, `CredentialsProofs` | theorems about the transport, the payment, the client with its recipes | |
| `ReplayCache` | the contract of the interface, with the retention it owes an id; an abstract specification | webhook/verifier.go:44-53 |
| `LRU` | the list, the map and the two outcomes of Seen | webhook/verifier.go:179-234 |
| `LRUCalls`, `MCLRU` | callers with old clock readings; refinement of `ReplayCache` | |
| `WebhookVerifier`, `MCWebhook` | Verify and Handler on concurrent, repeated and delayed deliveries, with the LRU as `Cache == INSTANCE LRU` | webhook/* |
| `RetryTransport` | a request through one or more retry layers to a lossy network | transport/retry.go, roundtripper.go, zeam.go |
| `ConnectPayment`, `MCConnectPayment` | runs, new runs and resumed steps of flows over token stores | recipes/connect_payment.go |
| `Answers` | pure operators: the decoding of answers, errors, versions | transport/envelope.go, errors.go, client/doer.go, auth/otp.go, auth/sep10.go, zeam.go |
| `ZeamClient` | New, the accessors, Ping, raw and typed calls, by the goroutines of one Client | zeam.go, facade.go, options.go |
| `Credentials`, `MCCredentials` | extends `ZeamClient`: registration and rotation, the OTP and SEP-10 logins | recipes/*, client/application, auth/otp.go, auth/sep10.go, stellar |

An operator whose name begins with `Faulty` is the definition after it with one
plausible programming error. None is part of a next-state relation; each is
there to show that a property is able to fail: `PROJECT.json` ("mutants") says
which property fails when the faulty form takes the definition's place.

### 2.2 What is planned

The components that keep state are modelled, and every property that a passing
run checks is proved but for the two liveness properties. Left to do:

1. Facts between the proved ones that no run states yet: what a second payment of
   a quote can cost, which sessions of concurrent flows survive a second sign-in,
   how long an evicted event can be accepted again.
2. Abstract specifications of their own for the two `sync.Once` of the client and
   for the stack of retry layers, with the refinement from the models that exist.

None of these modules declares a RECURSIVE operator.

## 3. How the models correspond to the code

### 3.1 AutoRefresh

A goroutine is a process. `pc` is the place in the code where it stands, `trk`
the track argument of its call, `cur` the `*Session` it has in hand, `sent` the
refresh token in its request and `ans` the pair it received. The session heap is
four functions: `home` (the track it was made for, a history variable), `track`,
`tok`, `stale`. One action is one critical section of `Session.mu` or
`MemoryStore.mu`, or one event of the network.

| Code | Actions |
|---|---|
| `AutoRefresher.Ensure` | `EnsureGet`, `EnsureCheck`, `Join`; in the flight `LeadGet`, `LeadCheck` |
| `Refresh` of both flows | `RefreshTrack`, `RefreshBody`, then `GatewayExchange`, `RefreshRejected` or `RefreshGivenUp`, and `AnswerUpdate` |
| `MemoryStore.Put` | `PutCheck` (before the lock), `PutLookup` (lock, erase), `PutStore` (write, unlock) |
| `Delete`, `Close` | one action each: everything happens under the store's lock |
| `LoginOTP`, `ConnectLogin` | `Login`, then Put |
| `client.Call` | `CallGuard`, `CallBearer`, `CallDone` |
| `Session.Erase` by a partner; time | `Erase`; `Age` |
| singleflight | `flight`, `Join`, `Sharing`, `Return` |

Choices: a token stands for the pair issued together; time is one bit per
session, because the code only ever compares the expiry with now plus the
threshold; the gateway may exchange a refresh token after the client gave up
(`GatewayLate`), and any answer may be lost, unreadable or refused; one
AutoRefresher works on one store, as docs/tokens.md sets it up; a partner calls
Refresh only through Ensure; `Put`'s error after a login cannot happen with a
MemoryStore, since nobody else has the new session yet.

`AutoRefreshImplements` maps this to `TokenRotation`: the token a session holds
is `tok`; an exchange in progress is a goroutine with a request at the gateway
or its answer in hand (`Refreshers`, `Engaged`); a token is issued when the
gateway has recorded its track. `RefreshBody` becomes `Ask`, `GatewayExchange`
`Exchange`, `AnswerUpdate` `Install`, `RefreshRejected` `Reject`,
`RefreshGivenUp` `GiveUp`, `Login` `Issue`, every erasure (Put, Delete, Close,
Erase) `Forget`; the rest stutters. The abstract `Ask` asks for more than the
code tests: no other exchange of that session, and a token that nobody has spent
unless an exchange was given up. The code has to have earned both by then, with
the flight and the second look of the leader.

### 3.2 Replay cache and webhook

`LRU` keeps `list` and `keys` apart, as `ll` and `index` are in the code; a call
takes effect at the lock with a clock reading taken before it, so readings may
reach the cache out of order (`LRUCalls`). `ReplayCache` knows neither list nor
map: a marked id is retained for the ttl asked for, short of it by no more than
`Slack`, the age of the caller's reading; it is taken for new only when that
time is up, and at most the entries that do not fit are forgotten earlier. A
cache that keeps an entry shorter does not implement it, and neither does one
that leaves the old expiry in place (`FaultyInsertKeepsExpiry`).

In `WebhookVerifier` a delivery is what the HMAC covers (verifier.go:159-161): a
body, which carries an event, and a timestamp. `X-Zeam-Event-Id` is a header
beside it, `eventId`: each arrival of a delivery may carry any id or none
(`NoId`, also for a verifier without a cache).

| Code | Actions |
|---|---|
| the headers, the first clock reading, the freshness test | `Arrive` |
| the body is too large, unreadable or not what was signed | `Refuse` |
| no event id, or no cache (verifier.go:142-143): returned without Seen | `AcceptUnseen` |
| `Seen` reads the clock, then takes its lock | `Stamp`, then `Replayed` or `Accept` |
| Verify's result in the middleware | `Served`, `Respond` |

The body is read between `Arrive` and whatever follows, during which time passes
for at most `MaxDelay`. Durations saturate at `Wide` as `time.Time.Sub` does and
`absDuration` negates in two's complement. The header tests and the HMAC are
refusals without effect. `accepted` records the pairs of a delivery and the id it
was accepted under, and `twice` the ids under which one was accepted again.

### 3.3 RetryTransport

One request. `layer` is the stack that runs, `attempt` and `last` are the locals
of each stack's loop, `wire` what was sent and what came back, `left` what a
send would still read from the shared `Body`. `zeam.New` wraps the transport it
finds in the `http.Client`, so `Layers` may be greater than one. The gateway
executes a write once per key, the meaning SECURITY.md gives the key. HEAD and
OPTIONS, which the SDK never sends, and the observer are left out; so is the
value of the jitter.

### 3.4 ConnectPayment

A flow's exported fields are the variables; `step` is the line of `Do` it has
reached. `Fail` is any step's error: the fields stay, and `Do`, or by hand the
step that failed (`Resume`), may be called again; between steps the partner may
assign `Selected` (`Prefer`). Steps 8 and 9 may be carried out and lose their
answer. A 2xx answer may also be empty, null or without the field: `client.Call`
returns no error then (doer.go:101-103) and the endpoint a struct of empty
fields, with which `Do` goes on. So step 6 may yield a quote whose asset is
"empty", step 7 a StellarQuote without a price (`NoPrice`) and step 8 an empty
hash (`NoHash`), with which step 9 runs; none of them is nil. A transaction hash
is named by the quote it pays; `payments` and `executed` are what the gateway was
asked for. `SettlesItsOwnPayment` is therefore about the answer, not about the
hash alone: what step 9 sends is what step 8 was answered for this quote, and
never what an earlier run left. `ConvertsAtOwnPrice` says nothing of quotes whose
asset cannot be parsed but that no other quote's price is used (section 6). The SEP-10 login is taken to succeed, although the signer of the
repository is a placeholder (signer.go:38), and the wallet to accept the
address it is given (section 6).

### 3.5 Client and recipes

`cfg` is what the options make of the defaults; `lazyOnce` and `verOnce` are the
two `sync.Once`, with "running" while the first caller is inside; `store`,
`verdict` and `seen` are what they compute. A goroutine begins an operation
(`Start`) and stands at `pc`; `handle` is the store an accessor has given it,
`heard` what Ping returned to it, `result` what its recipe returned.

| Code | Actions |
|---|---|
| `New` and the options | `Configure`, `BaseAccepted`, `New` (a rejected list makes no client) |
| `lazyInit` and the accessors | `LazyFirst`, `LazyBuild`, `LazyDone` |
| `Ping`, `ping` | `PingFirst`, `PingLater`; `ProbeAnswered` (`Judge`, `CompareSemver`), `ProbeFails` |
| `RawClient.do`, `client.Call` | `Begin` or `TypedSend`, `CallReturns`, with `RawOutcome`, `CallOutcome`, `ErrorOf` |
| `RegisterApplication`, `RotateCredential` | `MintSend`, `Mint` (the gateway), `MintAnswered`, `CaptureReturns`, `CallbackPanics` |
| `ConnectLogin`, `SEP10Flow.Login` | `ParseKeypair`, `GetChallenge`, `Sign`, `SubmitSigned`, `Put`, `PutFails` |
| `LoginOTP` | `RequestSend`, `RequestOTP`, `AskCode`, `VerifyOTP`, `Put`, `PutFails` |
| any request that fails | `RequestFails`, before or after the gateway has acted |

Choices: a body is one of the kinds the four decoders tell apart; a secret is a
name, with "api" standing for the API key and the webhook secret, which the code
treats alike; `kit` is the SDK's copies that are not zeroed, `captured` what the
callback kept; the session a recipe is called with, and what happens to a session
after it was filed, are in `AutoRefresh`. The placeholder signer (signer.go:38)
always fails; `Sign` may also succeed, so that the rest of the login is reached
with a signer of the partner's own. A memory store does not fail for a new
session; `PutFails` is for a store of the partner's own.

## 4. What the runs show

| Run | Instance | Distinct states | Shows |
|---|---|---|---|
| `auth` | 2 goroutines, 3 sessions, 3 token pairs, 2 tracks | 438,308 (symmetry) | `SingleUse`, `RotationKept`, `OneRefreshPerWindow`, `TrackIsolation`, `BearerOnTrack`, `DisplacedErased`; implements `TokenRotation` |
| `ensure_returns` | 2 goroutines, 2 sessions, 2 pairs, 1 track, fairness | 41,322 | `EnsureReturns` |
| `put_race` | 2 goroutines, 2 sessions, 2 pairs, 1 track | violation | `NothingUnderUnknown` does not hold |
| `lru_contract` | 4 ids, 2 places, retention 2, readings 1 late, time 4 | 1,502 (symmetry) | `LRU` implements `ReplayCache`; strict LRU order |
| `webhook` | 2 requests at a time, 1 signed delivery, header with one of 2 ids or none, 1 place, skew 3, sender ±1, delay 1, time 8 | 1,764,927 (symmetry) | `AcceptedOnce`, `AcceptedWithinSkew` |
| `webhook_duplicate` | skew 2, sender 1 ahead, delay 1 | violation | lead + delay = skew: a duplicate is accepted |
| `retry` | 2 layers, budgets 2 and 1 as in the code, typed calls | 660,981 | the six promises of the stack |
| `retry_after` | 1 layer | violation | Retry-After is never applied |
| `retry_body` | 1 layer, RawClient | violation | a write is executed on a cut body |
| `client` | 2 goroutines, one for the recipes, both for Ping and logins; 4 option lists, 5 versions, 85 answers, fairness | 95,052 | one store, one verdict, answers, errors, secrets, logins; `PingReturns` |
| `payment` | 1 flow, 3 sign-ins, 2 quotes, lost and empty answers | 914,330 (symmetry) | settlement, conversion, session, one payment per quote |
| `payment_shared` | 2 flows over one store | violation | the second sign-in ends the first flow's session |

Why the bounds are enough. `auth`: the races need a leader and a goroutine that
read the session before the leader finished or that replaces or erases it; three
sessions let a slot change hands twice while a goroutine holds the first, three
pairs allow a login and two rotations. The same properties were also checked with
3 goroutines, 2 sessions, 3 pairs and 2 tracks (2,066,304 states, three minutes),
where a third goroutine works while a follower waits for its leader: set `Proc`
and `Session` in `Auth.cfg` to repeat it. `lru_contract`: more ids than places, and a lag, so
that an entry can expire, be refreshed and be evicted between a call's reading
and its lock. `webhook`: one place for two ids makes every second insertion
evict; time runs past twice the skew; the arrivals of one delivery, under two ids
and none, are all that `AcceptedOnce` compares, and the theorems cover any number
of deliveries. `retry`: the budgets are the code's own,
and two layers are the least that nest. `payment`: three sign-ins and two quotes, so that the
fields of an earlier run are left over when the next one asks for a quote, a price
and a hash of its own; with three quotes the properties hold as well (add `q3` to
`Quote` in `Payment.cfg`; two minutes). `client`: one goroutine is inside a Once, the
other waits or comes later; the recipes of two goroutines meet only in the store,
so a login on the second is enough; the versions lie on both sides of the least
one in the last place and in the middle one, one of them with a segment of two
digits; the answers are all combinations of
an envelope's fields under a success, and every status that docs/errors.md or the
retry loop names, with its neighbours, under an error. CHECK_DEADLOCK is off where the instance ends:
a request that is finished, a clock or a number of deliveries that is used up.

Fairness is assumed in `ensure_returns` and in `client`. In `client` it is weak
fairness of what a goroutine does by itself, of the handshake request if the
`http.Client` has a timeout (zeam.go:85, or the partner's own), and of a call if it
has one or the call is a raw one (zeam.go:262). Nothing is assumed of the
gateway's answers or of callbacks, and `PingReturns` is stated for clients whose
requests are bounded: without a timeout the callers behind the Once wait as long
as the first caller's context lets them. In `ensure_returns`: weak fairness of `Proceed(p)`: a
goroutine inside a call is scheduled, and a request to the gateway ends because
the client's timeout bounds it. Strong fairness of `LeadGet` and `PutLookup`:
sync.RWMutex does not starve a waiter. Nothing is assumed of `Begin`, `Erase`,
`Delete`, `Close` or `Age`; the gateway need never answer well. Symmetry is not
used in that run.

## 5. What is proved

Every invariant, action property and refinement that a passing run checks is
also a theorem, for all values of the constants that satisfy the assumptions in
the module that declares them. Only `EnsureReturns` and `PingReturns`, which are
liveness under fairness, are model-checked alone; and a violation run shows a
counterexample, which needs no proof. Few of the properties are inductive. What
follows names the invariants under them; TLC checked them on the
instance of the run before they were proved, all but `CountInv`, which quantifies
over an infinite set of functions; they are not part of a run.

### 5.1 Sessions, store and refresh

`AutoRefreshProofs`. The only assumption is `SentinelAssumption`: the placeholders
for nil are not elements of the sets, and there is a track.

* `FlightInv`: whoever is at work on a refresh is the leader recorded for its
  track, and whoever waits has a leader. Two goroutines therefore never refresh
  the same track at once.
* `HomeInv`: a session is on the track it was made for or erased; the slot of a
  track holds sessions made for it; the session in hand belongs to the call's
  track. With `FlightInv`: one leader per session.
* `PutInv`: between Put's two halves the lock is held and what lies in the slot
  is empty, the session itself, or erased, also when the session was erased
  meanwhile and the slot is TrackUnknown's. `Displacement` follows.
* `IssueInv`: every token in a session, a request or an answer was issued, on
  the track of the session or the call. `Isolation` and `BearerIsolation` follow.
* `TokenInv`: no token is in two places; a leader's request carries the token of
  the session it has in hand, unless that was erased. This is what makes
  `Recheck`, `RotationComplete` and `NoReuse` go through: if a second session could
  hold the token being exchanged, its spending would break `RotationKept` there.

`AutoRefreshRefinementProofs` proves `Spec => ImplementsTokenRotation`. Lemmas say
what a step does to the set of exchanges when one goroutine's exchange begins, is
answered or ends and no other is touched; one goroutine per session (from
`FlightInv` and `HomeInv`) makes the exchanges of different goroutines different.
The theorem then takes the actions one by one to the step of section 3.1 or to a
stutter. `AnswerInv` (an answer answers a request that carried a token) is the one
invariant it adds.

### 5.2 Replay cache and webhook

`LRUProofs` says what one call does to the list and the map, in two lemmas:
`HitEffect` and `InsertEffect`, which rest on what removing a place of a sequence
leaves (`Unlink`). `LRUCallsProofs` derives that list and map agree (`CacheOK`),
that the list is in the order of use whatever the age of the readings
(`RecencyInv`, hence `EvictsLeastRecent`), and that `ReplayCache` is implemented,
with the readings' greatest age as `Slack`: an entry ends the ttl after the reading
it was made with, so at most that age before the time the contract asks for.
`WebhookProofs` uses the same lemmas for the verifier's instance of the LRU.

* `RequestInv`: a request's timestamp was tested against a reading at most
  `MaxDelay` old, by the arithmetic of saturating durations.
* `SignedInv`: no signed timestamp is further ahead of the clock than the sender's
  lead, now or when it was tested.
* `RetainInv`: for every delivery accepted under an id, the id's entry, unless it
  was evicted, expires only after the last moment at which a request that carries
  the delivery can reach the cache. `AcceptedOnce` follows: a second request with
  that delivery and that id finds it. Acceptances without an id are outside both.

Hypotheses: `DurationsSuffice` (the skew is not within one of the longest duration
and no timestamp that far ahead), without which the absolute value is wrong (section 6), and for
`AcceptedOnce` `RoomForDelay`: lead plus delay is less than the skew. The instance of
the run `webhook` satisfies both; `webhook_duplicate` shows that "at most" would not do.

### 5.3 Transport

`RetryTransportProofs` holds for any number of nested stacks and any budgets.

* `Position` and `TypeOK`: which stack runs at each place; attempts within budget.
* `KeyInv`, `EffectInv`: one key from the first stack on, and the gateway has
  executed nothing but that key's one effect: `ExecutedOnce`. `ExecutedWhole` is
  proved for typed callers, whose bodies can be rewound; for RawClient the run
  `retry_body` refutes it.
* `OpenInv`: the only open body is that of the response in hand, so none is left.
* `WireInv`: every send but the one in flight or in hand is done with, in the sense
  that a resend is safe; `ResentOnlyWhenSafe` is its action form.
* `CancelInv`: once the context has ended, the backoffs slept and those still
  possible in the stacks ahead add up to at most one per stack.
* `CountInv`: there is a history `before`, the number of sends made when each
  running stack was called, so that the calls a stack has made and the one under
  way account for the sends since. `SendsBounded` follows at the outermost stack.
  It says the sends are at most a power, and the provers have no rule for
  exponents, so `CountInvariant` and `Bounded` carry `PowerLaws`, the equations that
  define `^` on the naturals, as their hypothesis.

### 5.4 Payment

`ConnectPaymentProofs` holds for any number of flows, stores, sessions and quotes.
A stopped flow will be resumed at the step that failed, so the invariants speak of
`At(f)`, the step a flow is about to run or would be resumed at. `RunInv`: the
fields that a step reads are what this run's answers set them to, empty ones
included, although earlier runs left theirs behind; at step 9 the hash is the one
step 8 was answered for the quote in hand (`AnsweredWith`). `QuoteInv`: a quote
belongs to one flow; `PaidInv`: which quotes may and which must have been paid.
Settlement, which contains that Connect pays out only what a wallet was asked to
pay, conversion and `PaysAQuoteOnce` follow. `SessionServesRun` is proved from `SessInv` under `OneFlowPerStore`; `payment_shared` refutes it without.

### 5.5 Client and recipes

`CredentialsProofs` holds for any number of goroutines, operations, answers and
versions. It assumes `ClientAssumption` (what the values are) and
`OptionAssumption`: an option list leaves a configuration. The latter is a fact
about a fold over a list, and induction over data is out of the provers' reach; Go's
types guarantee it, TLC evaluates it on the run's lists.

* `LazyInv`, `VerdictInv`: each `sync.Once` has one goroutine inside, and what it
  computes is what everybody has. `VersionOrder` shows that `CompareSemver` orders
  versions by the first segment that differs, which is also the order `Compatible`
  is stated in; it follows for any segments, of any size.
* `Own`, one conjunct per place in a recipe: what secrets, keypair and session the
  goroutine holds there. `SecretsLetGo`, `ResultMeansCaptured` and
  `FailedLoginLeavesNothing` are read off it; the lemmas `RecipeMoves`, `ClientMoves`
  and `StartMoves` say that a step leaves the other goroutines' locals alone.
* `StoreInv`: a recipe has the store, and the session of a login that succeeded is
  in it. It joins the two groups above: a store is built only while there is none,
  and then no login has succeeded. `LoginsAreFound` and `TypeOK` follow.
* `Delivered` and `Documented` are about the operators of `Answers`: they hold of
  every status and every body, by cases on its shape (`BodyForms`) and its row
  (`Rows`).

The proofs are about `Spec`; the runs `client` and `ensure_returns` check it with
fairness added, which removes behaviours.

## 6. Where the code and its documents disagree

With a run (`PROJECT.json`, "findings"): Put files a session erased under its
feet under TrackUnknown and reports success; a duplicate webhook is accepted when
the sender's clock is ahead and the body slow by together one skew; Retry-After is
never applied; a RawClient write is sent again without its body; concurrent
ConnectPayment flows of one client end each other's session.

Met while modelling, without a run of their own:

* session.go:89: an Update that lands after Erase puts live tokens into a session
  that session.go:105 calls "no longer usable"; Put refuses it and they are never
  zeroed.
* verifier.go:166: the absolute value of the least Duration is negative, so a
  timestamp 292 years ahead passes as fresh (`webhook` with
  `Offset <- MilliClock`).
* verifier.go:143: the event id is a header that the HMAC does not cover, and
  without it the cache is not asked. The same signed delivery is accepted again
  while it is fresh when its id is missing or differs, although verifier.go:71 says
  that with a cache "duplicate events are rejected with [ErrReplay]".
  `AcceptedOnce` is about repetitions under one id.
* retry.go:14 says "max 2 attempts" for GET; the loop makes three. Two clients
  built on one http.Client nest their layers, and a write that retry.go:17 says is
  retried "at most once" is sent four times (`SendsBounded` is the bound that
  holds).
* retry.go:124: all requests of a client draw from one rand.Rand without a lock,
  while recipes/doc.go:16 promises safety for concurrent use.
* connect.go:101: QuoteResponse.Raw is never filled, so the clearing account that
  connect_payment.go:337 requires from the live quote is always empty.
* connect_payment.go:269: an accepted asset that does not parse is paid without
  conversion, against docs/recipes.md:49-52. `ConvertsAtOwnPrice` leaves these
  quotes out rather than assert it.
* connect_payment.go:258, 285, 306: an empty 2xx answer is no error (doer.go:101-103),
  and no step looks at the fields it got. A quote without id, amount and asset is paid, a
  conversion is asked for with an empty SendMax (300), and step 9 is sent an empty
  transaction hash (318).
* otp.go:141: the OTP flow looks for `{ok, data}`; the gateway's envelope, says
  otp.go:23 and decodes envelope.go:21, is `{data, status, message}`.
* docs/index.md:29: "handshake catches mismatched gateways before the first
  business call"; only the partner can call Ping.
* zeam.go:138: the first handshake's failure is remembered, its caller's own
  cancellation included; getting-started.md:61 says Ping runs "on the first call",
  but no call makes it.
* options.go:14: "zero-valued options are ignored", but WithTimeout(0) removes the
  client's timeout and ends every RawClient call at once, and WithUserAgent("")
  sends the one of net/http.
* options.go:142: the per-call deadline is given to RawClient only;
  `deadlineCeiling` (zeam.go:312) is used by nobody, so a typed call on a partner's
  http.Client without a timeout has no end of its own.
* zeam.go:117: with a shared http.Client the innermost User-Agent, that of the first
  New, is the one sent.
* facade.go:54: `Client.Connect()` has no connector secret and ConnectPayment uses
  it, so its calls never send x-zeam-auth.
* envelope.go:38: an HTTP 200 whose envelope says 422 is a success, and one without
  a status is taken for its own payload.
* errors.go:97: RequestID is "always populated"; Unwrap never sets it.
* errors.go:110: the message is "omitted unless WithVerboseErrors is enabled";
  `Error.Error` never has it.
* errors.go:137: CallError has no Is, so `errors.Is(err, zeam.KindAuth)` is never
  true of a typed call; there is no sentinel for KindAuthz. 502 is retried but not
  called transient.
* app_registration.go:88: "regardless of capture outcome", but a callback that
  panics leaves the copies as they are.
* application.go:74: a registration without one of two secrets drops the other
  one-time secrets, not zeroed, before the callback has seen them.
* credential_rotation.go:50: an empty 2xx answer calls CaptureNew with an empty key
  and returns nil.
* docs/errors.md:3: every SDK call returns nil or a `*zeam.Error`; the typed
  clients return `*client.CallError`.
* handler.go:11: the comment lists 401, 400 and 429; the code never answers 429,
  and answers 409 and 413 as well.

## 7. What is not modelled

* Redaction, the observability hook and the texts of errors: patterns and wording.
* Hazards that the code meets and no property forbids are in `PROJECT.json` with a
  note: a rotated pair whose answer is lost, the empty bearer of an erased session,
  followers that fail with their leader's context, step 8 run again by hand after
  its answer was lost, a replay under another event id or none.
* `PayloadDelivered` is about the raw and the typed decoder; those of the login
  flows are in `Answers` and take part in the logins, without a property.
* Cryptography (HMAC, ed25519), the formats of seeds, addresses and assets: in the
  models they succeed or fail.
* TLS, headers and the other options that only configure them.
* The typed endpoint wrappers (`client/business`, `connect`, `payments`, `reports`,
  `health`): a path and a struct around `client.Call`, without state. Those of
  `client/application` that hand out secrets are in `Credentials`.
* The keyring store: a stub behind a build tag, every operation returns an error.
* QuoteThenExecute: three partner callbacks in a row, without state.
* Tests, examples and docs, which are read as statements about the code.
* The composition of everything: `Credentials` files sessions that `AutoRefresh`
  then works on, and every call goes through `RetryTransport`. They meet in a store
  with two operations and in a request that succeeds or fails, and are checked one
  at a time.
