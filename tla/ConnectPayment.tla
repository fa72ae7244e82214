---------------------------- MODULE ConnectPayment ----------------------------
(***************************************************************************)
(* Package recipes: flows of ConnectPayment, each run by a goroutine of    *)
(* the partner, over the token stores of the clients they were built with. *)
(* A flow keeps what its steps assigned when one fails; the partner then   *)
(* calls Do again, or drives it on by hand from the step that failed. A    *)
(* step is one HTTP call that succeeds, fails, or is carried out by the    *)
(* gateway and loses its answer.  A 2xx answer may be empty: client.Call   *)
(* then returns no error and the endpoint a struct whose fields are empty, *)
(* with which the run goes on.                                             *)
(*                                                                         *)
(* A Quote stands for one QuoteResponse, also for an empty one; a          *)
(* transaction hash is named by the quote it pays.  An accepted asset is   *)
(* "funding" (equal to FundingAsset), "other", "unparsable" (ParseAsset    *)
(* fails), or "empty" when the response is, which ParseAsset refuses too.  *)
(*                                                                         *)
(* An operator named Faulty... is the definition that follows it with one  *)
(* plausible programming error; none is part of Next.                      *)
(***************************************************************************)
EXTENDS Naturals, FiniteSets

CONSTANTS Flow, Store,
          StoreOf(_),  \* the token store of the client a flow was built with
          Session,     \* Connect sessions (bounds the sign-ins)
          Quote,       \* Connect quotes (bounds the runs)
          NoSession, NoQuote,
          NoPrice,     \* SendMax of an empty StellarQuote
          NoHash       \* an empty WalletTxHash

ASSUME PaymentAssumption == /\ \A f \in Flow : StoreOf(f) \in Store
                            /\ NoSession \notin Session
                            /\ {NoQuote, NoPrice, NoHash} \cap Quote = {}
                            /\ NoPrice # NoQuote

VARIABLES
  step,      \* the step the flow is about to run
  failedAt,  \* the step whose error the partner has
  dest,      \* buildDestination finds a destination of Beneficiary
  offered,   \* an active connector of Connectors has the method
  selected,  \* Selected.ID is set
  sess,      \* ConnectSess
  quote,     \* ConnectQuote
  squote,    \* StellarQuote: the quote its SendMax was quoted for, or NoPrice
  tx,        \* WalletTxHash
  life,      \* of a session: "new", "alive" or "erased"
  store,     \* the TrackConnect entry of each token store
  asset,     \* gateway: the accepted asset of a quote ("unissued" before it is given)
  payments,  \* gateway: the wallet transactions it was asked for
  executed   \* gateway: the Connect executions it accepted

progress == <<step, failedAt>>
fields == <<dest, offered, selected, sess, quote, squote, tx>>
gateway == <<asset, payments, executed>>
vars == <<progress, fields, life, store, gateway>>

Reads == {"associations", "wallets", "beneficiary"}
OnConnect == {"discover", "select", "quote", "stellarQuote", "pay", "execute"}
AcceptedAsset == {"funding", "other", "unparsable", "empty"}
Step == {"idle", "signIn", "done", "failed"} \cup Reads \cup OnConnect

\* The shape of a flow's fields, of the token stores and of the gateway.
Shape ==
  /\ step \in [Flow -> Step] /\ failedAt \in [Flow -> Step]
  /\ \A x \in {dest, offered, selected} : x \in [Flow -> BOOLEAN]
  /\ sess \in [Flow -> Session \cup {NoSession}]
  /\ quote \in [Flow -> Quote \cup {NoQuote}]
  /\ squote \in [Flow -> Quote \cup {NoQuote, NoPrice}]
  /\ tx \in [Flow -> Quote \cup {NoHash}]
  /\ life \in [Session -> {"new", "alive", "erased"}]
  /\ store \in [Store -> Session \cup {NoSession}]
  /\ asset \in [Quote -> AcceptedAsset \cup {"unissued"}]
  /\ payments \subseteq [quote : Quote, sendMax : Quote \cup {NoQuote, NoPrice},
                        answer : {"hash", "none", "lost"}]
  /\ executed \subseteq [quote : Quote, tx : Quote \cup {NoHash}]

(***************************************************************************)
(* The one type invariant; a flow about to read a field of ConnectQuote or *)
(* StellarQuote has one, perhaps an empty one: no step dereferences nil.   *)
(***************************************************************************)
TypeOK ==
  /\ Shape
  /\ \A f \in Flow :
       /\ step[f] \in {"stellarQuote", "pay", "execute"} => quote[f] # NoQuote
       /\ step[f] = "pay" /\ asset[quote[f]] = "other" => squote[f] # NoQuote

Init ==
  /\ step = [f \in Flow |-> "idle"] /\ failedAt = [f \in Flow |-> "idle"]
  /\ dest = [f \in Flow |-> FALSE] /\ offered = [f \in Flow |-> FALSE]
  /\ selected = [f \in Flow |-> FALSE]
  /\ sess = [f \in Flow |-> NoSession]
  /\ quote = [f \in Flow |-> NoQuote] /\ squote = [f \in Flow |-> NoQuote]
  /\ tx = [f \in Flow |-> NoHash]
  /\ life = [s \in Session |-> "new"] /\ store = [t \in Store |-> NoSession]
  /\ asset = [q \in Quote |-> "unissued"] /\ payments = {} /\ executed = {}

-----------------------------------------------------------------------------
Goto(f, s) == step' = [step EXCEPT ![f] = s] /\ UNCHANGED failedAt

\* The step returns an error, Do returns it.
Abort(f) == /\ step' = [step EXCEPT ![f] = "failed"]
            /\ failedAt' = [failedAt EXCEPT ![f] = step[f]]

\* What client.Call requires of ConnectSess: an erased session has no track.
Usable(f) == sess[f] # NoSession /\ life[sess[f]] = "alive"

\* RequiresStellarQuote: an asset that does not parse needs none.
RequiresStellarQuote(q) == asset[q] = "other"

\* Fault: the error of step 6 is dropped.
FaultyFail(f) ==
  /\ step[f] \in Step \ {"idle", "select", "done", "failed"}
  /\ IF step[f] = "quote" THEN Goto(f, "pay") ELSE Abort(f)
  /\ UNCHANGED <<fields, life, store, gateway>>

\* A step's call fails, before or without an effect at the gateway: Do returns
\* the error, the flow keeps its fields.
Fail(f) ==
  /\ step[f] \in Step \ {"idle", "select", "done", "failed"}
  /\ Abort(f)
  /\ UNCHANGED <<fields, life, store, gateway>>

\* The steps are exported: the partner calls the one that failed again.
Resume(f) ==
  /\ step[f] = "failed" /\ Goto(f, failedAt[f])
  /\ UNCHANGED <<fields, life, store, gateway>>

\* Do: nothing in it looks at what an earlier run has done.
Do(f) ==
  /\ step[f] \in {"idle", "done", "failed"}
  /\ Goto(f, "associations")
  /\ UNCHANGED <<fields, life, store, gateway>>

\* Steps 1 and 2.
ListAssociations(f) ==
  /\ step[f] = "associations" /\ Goto(f, "wallets")
  /\ UNCHANGED <<fields, life, store, gateway>>

ListWallets(f) ==
  /\ step[f] = "wallets" /\ Goto(f, "beneficiary")
  /\ UNCHANGED <<fields, life, store, gateway>>

\* Step 3.
GetBeneficiary(f) ==
  /\ step[f] = "beneficiary" /\ Goto(f, "signIn")
  /\ \E b \in BOOLEAN : dest' = [dest EXCEPT ![f] = b]
  /\ UNCHANGED <<offered, selected, sess, quote, squote, tx, life, store, gateway>>

\* SEP-10 login and MemoryStore.Put: session s replaces and erases the one stored.
LoginAndPut(f, s) ==
  LET old == store[StoreOf(f)] IN
  /\ life[s] = "new"
  /\ life' = [x \in Session |-> IF x = s THEN "alive" ELSE IF x = old THEN "erased" ELSE life[x]]
  /\ store' = [store EXCEPT ![StoreOf(f)] = s]

\* Fault: ConnectSess is only assigned when it is nil.
FaultySignInConnect(f) ==
  /\ step[f] = "signIn" /\ Goto(f, "discover")
  /\ \E s \in Session :
       /\ LoginAndPut(f, s)
       /\ sess' = [sess EXCEPT ![f] = IF @ = NoSession THEN s ELSE @]
  /\ UNCHANGED <<dest, offered, selected, quote, squote, tx, gateway>>

\* Step 4.
SignInConnect(f) ==
  /\ step[f] = "signIn" /\ Goto(f, "discover")
  /\ \E s \in Session : LoginAndPut(f, s) /\ sess' = [sess EXCEPT ![f] = s]
  /\ UNCHANGED <<dest, offered, selected, quote, squote, tx, gateway>>

\* Step 5.
DiscoverConnectors(f) ==
  /\ step[f] = "discover" /\ Usable(f) /\ Goto(f, "select")
  /\ \E b \in BOOLEAN : offered' = [offered EXCEPT ![f] = b]
  /\ UNCHANGED <<dest, selected, sess, quote, squote, tx, life, store, gateway>>

\* The partner assigns Selected.
Prefer(f) ==
  /\ step[f] = "select" /\ ~selected[f]
  /\ selected' = [selected EXCEPT ![f] = TRUE]
  /\ UNCHANGED <<progress, dest, offered, sess, quote, squote, tx, life, store, gateway>>

\* A connector chosen before, by an earlier run or by the partner, stays.
SelectConnector(f) ==
  /\ step[f] = "select"
  /\ IF selected[f] \/ offered[f] THEN Goto(f, "quote") ELSE Abort(f)
  /\ selected' = [selected EXCEPT ![f] = @ \/ offered[f]]
  /\ UNCHANGED <<dest, offered, sess, quote, squote, tx, life, store, gateway>>

\* Fault: a StellarQuote of an earlier run is good enough.
FaultyAfterQuote(f, q, a) == IF a = "other" /\ squote[f] = NoQuote THEN "stellarQuote" ELSE "pay"

\* Do asks RequiresStellarQuote whether step 7 runs.
AfterQuote(f, q, a) == IF a = "other" THEN "stellarQuote" ELSE "pay"

\* Fault: the quote of an earlier run is good enough.
FaultyGetConnectQuote(f) ==
  /\ step[f] = "quote" /\ dest[f] /\ Usable(f)
  /\ \E q \in Quote, a \in AcceptedAsset :
       /\ IF quote[f] # NoQuote THEN <<q, a>> = <<quote[f], asset[quote[f]]>> ELSE asset[q] = "unissued"
       /\ asset' = [asset EXCEPT ![q] = a]
       /\ quote' = [quote EXCEPT ![f] = q]
       /\ Goto(f, AfterQuote(f, q, a))
  /\ UNCHANGED <<dest, offered, selected, sess, squote, tx, life, store, payments, executed>>

\* Step 6.  Of an empty answer only that there is one counts.
GetConnectQuote(f) ==
  /\ step[f] = "quote" /\ dest[f] /\ Usable(f)
  /\ \E q \in Quote, a \in AcceptedAsset :
       /\ asset[q] = "unissued"
       /\ asset' = [asset EXCEPT ![q] = a]
       /\ quote' = [quote EXCEPT ![f] = q]
       /\ Goto(f, AfterQuote(f, q, a))
  /\ UNCHANGED <<dest, offered, selected, sess, squote, tx, life, store, payments, executed>>

\* Step 7: the answer carries a SendMax for the quote, or is empty.
GetStellarQuote(f) ==
  /\ step[f] = "stellarQuote" /\ Goto(f, "pay")
  /\ \E s \in {quote[f], NoPrice} : squote' = [squote EXCEPT ![f] = s]
  /\ UNCHANGED <<dest, offered, selected, sess, quote, tx, life, store, gateway>>

\* Step 8's request and its answer: what it pays for, the SendMax it was given
\* (NoQuote: it asks for no conversion), and whether a hash came back.
Transaction(f, answer) ==
  [quote |-> quote[f],
   sendMax |-> IF RequiresStellarQuote(quote[f]) THEN squote[f] ELSE NoQuote,
   answer |-> answer]

\* The hash in step 8's answer for quote q.
TxHash(q, answer) == IF answer = "hash" THEN q ELSE NoHash

\* Fault: an answer without a hash leaves WalletTxHash as it was.
FaultyExecuteStellarTransaction(f) ==
  /\ step[f] = "pay"
  /\ \E answer \in {"hash", "none", "lost"} :
       /\ payments' = payments \cup {Transaction(f, answer)}
       /\ tx' = IF answer = "hash" THEN [tx EXCEPT ![f] = quote[f]] ELSE tx
       /\ IF answer = "lost" THEN Abort(f) ELSE Goto(f, "execute")
  /\ UNCHANGED <<dest, offered, selected, sess, quote, squote, life, store, asset, executed>>

\* Step 8: the wallet pays; the answer carries the hash, is empty, which is not
\* looked at, or is lost.
ExecuteStellarTransaction(f) ==
  /\ step[f] = "pay"
  /\ \E answer \in {"hash", "none", "lost"} :
       /\ payments' = payments \cup {Transaction(f, answer)}
       /\ IF answer = "lost"
            THEN UNCHANGED tx /\ Abort(f)
            ELSE tx' = [tx EXCEPT ![f] = TxHash(quote[f], answer)] /\ Goto(f, "execute")
  /\ UNCHANGED <<dest, offered, selected, sess, quote, squote, life, store, asset, executed>>

\* Step 9: Connect executes the payout; the answer arrives, or is lost.
ExecuteConnectPayment(f) ==
  /\ step[f] = "execute" /\ Usable(f)
  /\ executed' = executed \cup {[quote |-> quote[f], tx |-> tx[f]]}
  /\ Goto(f, "done") \/ Abort(f)
  /\ UNCHANGED <<fields, life, store, asset, payments>>

Preparing(f) == \/ Do(f) \/ ListAssociations(f) \/ ListWallets(f) \/ GetBeneficiary(f)
                \/ SignInConnect(f) \/ DiscoverConnectors(f) \/ Prefer(f) \/ SelectConnector(f)
Paying(f) == \/ GetConnectQuote(f) \/ GetStellarQuote(f)
             \/ ExecuteStellarTransaction(f) \/ ExecuteConnectPayment(f)
Next == \E f \in Flow : Preparing(f) \/ Paying(f) \/ Fail(f) \/ Resume(f)

Spec == Init /\ [][Next]_vars
-----------------------------------------------------------------------------
(* What the recipe promises.                                               *)

\* The order of steps 8 and 9: over any sequence of runs that fail anywhere and
\* start again, Connect is told to execute a quote only after step 8 for this
\* very quote was answered, and with what that answer carried: never with the
\* hash of a transaction that paid another quote, and with an empty one only
\* when the answer had none.
SettlesItsOwnPayment ==
  \A e \in executed : \E p \in payments :
    p.quote = e.quote /\ p.answer # "lost" /\ e.tx = TxHash(e.quote, p.answer)

\* Steps 6 and 8: a quote is paid for once, wherever a run failed and whether
\* the partner went on by hand or called Do again, unless the partner ran step 8
\* again because it had returned an error.
PaysAQuoteOnce ==
  [][\A f \in Flow : ExecuteStellarTransaction(f) /\ (\E p \in payments : p.quote = quote[f])
                     => failedAt[f] = "pay"]_vars

\* Steps 7 and 8, whatever StellarQuote an earlier run left in the flow: the
\* sendMax of a wallet transaction is never one quoted for another Connect
\* quote; a quote in another asset is paid through a StellarQuote of its own,
\* priced or empty; one in the funding asset is paid without.  Of quotes whose
\* asset cannot be parsed nothing more is said: the code pays them unconverted,
\* which the rule of docs/recipes.md does not allow.
ConvertsAtOwnPrice ==
  \A p \in payments :
    /\ p.sendMax \in {p.quote, NoPrice, NoQuote}
    /\ asset[p.quote] = "other" => p.sendMax # NoQuote
    /\ asset[p.quote] = "funding" => p.sendMax = NoQuote

\* recipes/doc.go: the session a flow signed in with serves it to the end of
\* the run, also after runs that failed and signed in before.
SessionServesRun == \A f \in Flow : step[f] \in OnConnect => Usable(f)
==============================================================================
