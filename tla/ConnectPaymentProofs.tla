------------------------- MODULE ConnectPaymentProofs -------------------------
(***************************************************************************)
(* Theorems about ConnectPayment for any number of flows, token stores,    *)
(* sessions and quotes.                                                    *)
(*                                                                         *)
(* A flow that failed will be resumed at the step that failed, so what a   *)
(* step relies on must hold not only when the flow stands there but also   *)
(* while it is stopped: the invariants speak of At(f), the step a flow is  *)
(* about to run or would be resumed at.                                    *)
(***************************************************************************)
EXTENDS ConnectPayment, TLAPS

At(f) == IF step[f] = "failed" THEN failedAt[f] ELSE step[f]

\* Step 8 was asked for quote q and answered with what is now hash h.
AnsweredWith(q, h) ==
  \E p \in payments : p.quote = q /\ p.answer # "lost" /\ h = TxHash(q, p.answer)

\* What the fields of a flow hold at the steps that use them, although earlier
\* runs left theirs behind: a quote, the StellarQuote got for it, priced or
\* empty, and what step 8 answered for it.
RunInv ==
  \A f \in Flow :
    /\ failedAt[f] # "failed"
    /\ At(f) \in {"stellarQuote", "pay", "execute"} => quote[f] # NoQuote
    /\ At(f) = "pay" /\ asset[quote[f]] = "other" => squote[f] \in {quote[f], NoPrice}
    /\ At(f) = "execute" => AnsweredWith(quote[f], tx[f])

\* Quotes in a flow or paid by a wallet were given by the gateway, each once.
QuoteInv ==
  /\ \A f \in Flow : quote[f] # NoQuote => asset[quote[f]] # "unissued"
  /\ \A f, g \in Flow : quote[f] = quote[g] /\ quote[f] # NoQuote => f = g
  /\ \A p \in payments : asset[p.quote] # "unissued"

\* Which quotes may have been paid.
PaidInv ==
  \A f \in Flow :
    /\ At(f) = "stellarQuote" => \A p \in payments : p.quote # quote[f]
    /\ At(f) = "pay" /\ (\E p \in payments : p.quote = quote[f]) => failedAt[f] = "pay"

-----------------------------------------------------------------------------
\* Steps of a run before a quote is asked for, and stopping and going on.
LEMMA OtherSteps ==
  ASSUME NEW f \in Flow, Preparing(f) \/ Fail(f) \/ Resume(f)
  PROVE  UNCHANGED <<quote, squote, tx, asset, payments, executed>>
  BY DEF Preparing, Do, ListAssociations, ListWallets, GetBeneficiary, SignInConnect,
         DiscoverConnectors, Prefer, SelectConnector, Fail, Resume, fields, gateway

\* Where such a step leads: nearer to a payment only by being resumed there.
LEMMA OtherStepsAt ==
  ASSUME Shape, RunInv, NEW f \in Flow, Preparing(f) \/ Fail(f) \/ Resume(f)
  PROVE  /\ step' \in [Flow -> Step] /\ failedAt' \in [Flow -> Step]
         /\ \A g \in Flow : failedAt'[g] # "failed"
         /\ \A g \in Flow :
              At(g)' \in {"stellarQuote", "pay", "execute"} =>
                /\ At(g) = At(g)'
                /\ failedAt'[g] \in {failedAt[g], At(g)}
<1> USE DEF Shape, RunInv, At, Goto, Abort, Step, Reads, OnConnect
<1>1. CASE Fail(f) \/ Resume(f)
  BY <1>1 DEF Fail, Resume
<1>2. CASE Do(f) \/ ListAssociations(f) \/ ListWallets(f) \/ GetBeneficiary(f)
  BY <1>2 DEF Do, ListAssociations, ListWallets, GetBeneficiary
<1>3. CASE SignInConnect(f) \/ DiscoverConnectors(f) \/ Prefer(f) \/ SelectConnector(f)
  BY <1>3 DEF SignInConnect, DiscoverConnectors, Prefer, SelectConnector, progress
<1> QED BY <1>1, <1>2, <1>3 DEF Preparing

\* The shapes are kept as long as a flow has a quote where it uses one.
LEMMA ShapeKept ==
  ASSUME Shape, RunInv, [Next]_vars
  PROVE  Shape'
<1> USE PaymentAssumption DEF Shape, fields, gateway, progress
<1>1. ASSUME NEW f \in Flow, Fail(f) \/ Resume(f) \/ Do(f) \/ ListAssociations(f)
                             \/ ListWallets(f)
      PROVE  Shape'
  BY <1>1, OtherStepsAt DEF Fail, Resume, Do, ListAssociations, ListWallets, Preparing
<1>2. ASSUME NEW f \in Flow, GetBeneficiary(f) \/ DiscoverConnectors(f) \/ Prefer(f)
                             \/ SelectConnector(f)
      PROVE  Shape'
  <2>1. step' \in [Flow -> Step] /\ failedAt' \in [Flow -> Step]
    BY <1>2, OtherStepsAt DEF Preparing
  <2>2. UNCHANGED <<quote, squote, tx, sess, life, store, asset, payments, executed>>
    BY <1>2 DEF GetBeneficiary, DiscoverConnectors, Prefer, SelectConnector
  <2>3. \A x \in {dest', offered', selected'} : x \in [Flow -> BOOLEAN]
    <3>1. CASE SelectConnector(f)
      <4>1. (selected[f] \/ offered[f]) \in BOOLEAN
        OBVIOUS
      <4>2. PICK b \in BOOLEAN : selected' = [selected EXCEPT ![f] = b]
        BY <3>1, <4>1, Zenon DEF SelectConnector
      <4> QED BY <3>1, <4>2 DEF SelectConnector
    <3>2. CASE ~SelectConnector(f)
      <4>1. CASE GetBeneficiary(f)
        BY <4>1 DEF GetBeneficiary
      <4>2. CASE DiscoverConnectors(f)
        BY <4>2 DEF DiscoverConnectors
      <4>3. CASE Prefer(f)
        BY <4>3 DEF Prefer
      <4> QED BY <1>2, <3>2, <4>1, <4>2, <4>3
    <3> QED BY <3>1, <3>2
  <2> QED BY <2>1, <2>2, <2>3
<1>3. ASSUME NEW f \in Flow, SignInConnect(f) PROVE Shape'
  <2>1. step' \in [Flow -> Step] /\ failedAt' \in [Flow -> Step]
    BY <1>3, OtherStepsAt DEF Preparing
  <2>2. /\ sess' \in [Flow -> Session \cup {NoSession}]
        /\ life' \in [Session -> {"new", "alive", "erased"}]
        /\ store' \in [Store -> Session \cup {NoSession}]
    BY <1>3 DEF SignInConnect, LoginAndPut
  <2> QED BY <1>3, <2>1, <2>2 DEF SignInConnect
<1>4. ASSUME NEW f \in Flow, GetConnectQuote(f) PROVE Shape'
  BY <1>4 DEF GetConnectQuote, Goto, AfterQuote, Step, OnConnect
<1>5. ASSUME NEW f \in Flow, GetStellarQuote(f) PROVE Shape'
  BY <1>5 DEF GetStellarQuote, Goto, Step, OnConnect
<1>6. ASSUME NEW f \in Flow, ExecuteStellarTransaction(f) PROVE Shape'
  <2>1. PICK answer \in {"hash", "none", "lost"} :
          /\ payments' = payments \cup {Transaction(f, answer)}
          /\ IF answer = "lost"
               THEN UNCHANGED tx /\ Abort(f)
               ELSE tx' = [tx EXCEPT ![f] = TxHash(quote[f], answer)] /\ Goto(f, "execute")
    BY <1>6 DEF ExecuteStellarTransaction
  <2>2. quote[f] \in Quote
    BY <1>6 DEF ExecuteStellarTransaction, RunInv, At
  <2>3. Transaction(f, answer) \in [quote : Quote, sendMax : Quote \cup {NoQuote, NoPrice},
                                   answer : {"hash", "none", "lost"}]
    BY <2>2 DEF Transaction
  <2>4. tx' \in [Flow -> Quote \cup {NoHash}]
    BY <2>1, <2>2 DEF TxHash
  <2> QED BY <1>6, <2>1, <2>3, <2>4
          DEF ExecuteStellarTransaction, Goto, Abort, Step, OnConnect
<1>7. ASSUME NEW f \in Flow, ExecuteConnectPayment(f) PROVE Shape'
  <2>1. [quote |-> quote[f], tx |-> tx[f]] \in [quote : Quote, tx : Quote \cup {NoHash}]
    BY <1>7 DEF ExecuteConnectPayment, RunInv, At
  <2> QED BY <1>7, <2>1 DEF ExecuteConnectPayment, Goto, Abort, Step, OnConnect
<1>8. CASE UNCHANGED vars
  BY <1>8 DEF vars
<1> QED
  BY <1>1, <1>2, <1>3, <1>4, <1>5, <1>6, <1>7, <1>8 DEF Next, Preparing, Paying

-----------------------------------------------------------------------------
\* A step before the quote, a failed call or a resumption leaves RunInv be.
LEMMA OtherStepsRun ==
  ASSUME Shape, RunInv, NEW f \in Flow, Preparing(f) \/ Fail(f) \/ Resume(f)
  PROVE  RunInv'
  BY OtherSteps, OtherStepsAt DEF RunInv, AnsweredWith

\* Steps 6 to 9 of one flow keep what steps 7 to 9 of every flow rely on.
LEMMA PayingRun ==
  ASSUME Shape, RunInv, QuoteInv, NEW f \in Flow, Paying(f)
  PROVE  RunInv'
<1> USE PaymentAssumption DEF Shape, RunInv, At, Goto, Abort, Step, OnConnect
<1>1. CASE GetConnectQuote(f)
  <2>1. PICK q \in Quote, a \in AcceptedAsset :
          /\ asset[q] = "unissued"
          /\ asset' = [asset EXCEPT ![q] = a]
          /\ quote' = [quote EXCEPT ![f] = q]
          /\ Goto(f, AfterQuote(f, q, a))
    BY <1>1 DEF GetConnectQuote
  <2>2. \A g \in Flow \ {f} : quote[g] # NoQuote => asset'[quote[g]] = asset[quote[g]]
    BY <2>1 DEF QuoteInv
  <2>3. UNCHANGED <<squote, tx, payments>>
    BY <1>1 DEF GetConnectQuote
  <2> QED BY <2>1, <2>2, <2>3 DEF AfterQuote, AnsweredWith
<1>2. CASE GetStellarQuote(f)
  BY <1>2 DEF GetStellarQuote, gateway, AnsweredWith
<1>3. CASE ExecuteStellarTransaction(f)
  <2>1. PICK answer \in {"hash", "none", "lost"} :
          /\ payments' = payments \cup {Transaction(f, answer)}
          /\ IF answer = "lost"
               THEN UNCHANGED tx /\ Abort(f)
               ELSE tx' = [tx EXCEPT ![f] = TxHash(quote[f], answer)] /\ Goto(f, "execute")
    BY <1>3 DEF ExecuteStellarTransaction
  <2>2. step[f] = "pay" /\ UNCHANGED <<quote, squote, asset>>
    BY <1>3 DEF ExecuteStellarTransaction
  <2>3. ASSUME answer # "lost" PROVE AnsweredWith(quote[f], TxHash(quote[f], answer))'
    <3> DEFINE t == Transaction(f, answer)
    <3>1. t.quote = quote[f] /\ t.answer = answer
      BY DEF Transaction
    <3>2. t \in payments' /\ quote' = quote
      BY <2>1, <2>2
    <3> HIDE DEF t
    <3> QED BY <2>3, <3>1, <3>2 DEF AnsweredWith, TxHash
  <2>4. ASSUME NEW g \in Flow \ {f}, At(g) = "execute" PROVE AnsweredWith(quote[g], tx[g])'
    <3>1. AnsweredWith(quote[g], tx[g]) /\ tx'[g] = tx[g] /\ quote'[g] = quote[g]
      BY <2>1, <2>2, <2>4
    <3> QED BY <2>1, <3>1 DEF AnsweredWith, TxHash
  <2>5. \A g \in Flow \ {f} : At(g)' = At(g) /\ failedAt'[g] = failedAt[g]
    BY <2>1
  <2>6. \/ At(f)' = "pay"
        \/ At(f)' = "execute" /\ answer # "lost" /\ tx'[f] = TxHash(quote[f], answer)
    BY <2>1, <2>2
  <2> HIDE DEF At, Goto, Abort
  <2>7. failedAt'[f] # "failed"
    BY <2>1, <2>2 DEF At, Goto, Abort
  <2>8. At(f) = "pay"
    BY <2>2 DEF At
  <2> QED BY <2>2, <2>3, <2>4, <2>5, <2>6, <2>7, <2>8
<1>4. CASE ExecuteConnectPayment(f)
  BY <1>4 DEF ExecuteConnectPayment, fields, AnsweredWith
<1> QED BY <1>1, <1>2, <1>3, <1>4 DEF Paying

\* Quotes stay distinct and given.
LEMMA QuoteKept ==
  ASSUME Shape, RunInv, QuoteInv, [Next]_vars
  PROVE  QuoteInv'
<1> USE PaymentAssumption DEF Shape, QuoteInv
<1>1. ASSUME NEW f \in Flow, Preparing(f) \/ Fail(f) \/ Resume(f) PROVE QuoteInv'
  BY <1>1, OtherSteps
<1>2. ASSUME NEW f \in Flow, GetConnectQuote(f) PROVE QuoteInv'
  BY <1>2 DEF GetConnectQuote, AcceptedAsset
<1>3. ASSUME NEW f \in Flow, ExecuteStellarTransaction(f) PROVE QuoteInv'
  BY <1>3 DEF ExecuteStellarTransaction, Transaction, RunInv, At
<1>4. ASSUME NEW f \in Flow, GetStellarQuote(f) \/ ExecuteConnectPayment(f) PROVE QuoteInv'
  BY <1>4 DEF GetStellarQuote, ExecuteConnectPayment, fields, gateway
<1>5. CASE UNCHANGED vars
  BY <1>5 DEF vars, fields, gateway
<1> QED BY <1>1, <1>2, <1>3, <1>4, <1>5 DEF Next, Paying

\* What the flows of any number of partners' runs hold when they need it.
THEOREM RunInvariant == Spec => [](Shape /\ RunInv /\ QuoteInv)
<1>1. Init => Shape /\ RunInv /\ QuoteInv
  BY DEF Init, Shape, RunInv, QuoteInv, At, Step
<1>2. Shape /\ RunInv /\ QuoteInv /\ [Next]_vars => (Shape /\ RunInv /\ QuoteInv)'
  <2> SUFFICES ASSUME Shape, RunInv, QuoteInv, [Next]_vars PROVE RunInv'
    BY ShapeKept, QuoteKept
  <2>1. CASE UNCHANGED vars
    BY <2>1 DEF vars, progress, fields, gateway, RunInv, At, AnsweredWith
  <2> QED BY <2>1, OtherStepsRun, PayingRun DEF Next
<1> QED BY <1>1, <1>2, PTL DEF Spec

\* Type correctness of the flows: no step dereferences a ConnectQuote or a
\* StellarQuote that no step before it has assigned, also after failures,
\* resumptions and empty answers.
THEOREM TypeCorrect == Spec => []TypeOK
<1>1. Shape /\ RunInv => TypeOK
  BY PaymentAssumption DEF Shape, RunInv, At, TypeOK
<1> QED BY <1>1, RunInvariant, PTL

\* Step 9 is never run before step 8 of the same quote was answered, and carries
\* what was answered: never the hash of another run's transaction.
THEOREM Settlement == Spec => []SettlesItsOwnPayment
<1>1. Init => SettlesItsOwnPayment
  BY DEF Init, SettlesItsOwnPayment
<1>2. Shape /\ RunInv /\ SettlesItsOwnPayment /\ [Next]_vars => SettlesItsOwnPayment'
  <2> SUFFICES ASSUME Shape, RunInv, SettlesItsOwnPayment, [Next]_vars
               PROVE  SettlesItsOwnPayment'
    OBVIOUS
  <2>1. ASSUME NEW f \in Flow, ExecuteConnectPayment(f) PROVE SettlesItsOwnPayment'
    <3>1. /\ executed' = executed \cup {[quote |-> quote[f], tx |-> tx[f]]}
          /\ payments' = payments
      BY <2>1 DEF ExecuteConnectPayment
    <3>2. AnsweredWith(quote[f], tx[f])
      BY <2>1 DEF ExecuteConnectPayment, RunInv, At
    <3> QED BY <3>1, <3>2 DEF AnsweredWith, SettlesItsOwnPayment, TxHash
  <2>2. ASSUME executed' = executed, payments \subseteq payments'
        PROVE  SettlesItsOwnPayment'
    BY <2>2 DEF SettlesItsOwnPayment, TxHash
  <2> QED BY <2>1, <2>2, OtherSteps
          DEF Next, Paying, GetConnectQuote, GetStellarQuote, ExecuteStellarTransaction,
              vars, gateway
<1> QED BY <1>1, <1>2, RunInvariant, PTL DEF Spec

\* The SendMax a wallet transaction carries was not quoted for another quote; a
\* quote in another asset is paid through a StellarQuote got for it.
THEOREM Conversion == Spec => []ConvertsAtOwnPrice
<1>1. Init => ConvertsAtOwnPrice
  BY DEF Init, ConvertsAtOwnPrice
<1>2. /\ Shape /\ RunInv /\ QuoteInv /\ ConvertsAtOwnPrice /\ [Next]_vars
      => ConvertsAtOwnPrice'
  <2> SUFFICES ASSUME Shape, RunInv, QuoteInv, ConvertsAtOwnPrice, [Next]_vars
               PROVE  ConvertsAtOwnPrice'
    OBVIOUS
  <2>1. ASSUME NEW f \in Flow, ExecuteStellarTransaction(f) PROVE ConvertsAtOwnPrice'
    <3>1. PICK answer \in {"hash", "none", "lost"} :
            payments' = payments \cup {Transaction(f, answer)}
      BY <2>1 DEF ExecuteStellarTransaction
    <3>2. /\ asset[quote[f]] = "other" => squote[f] \in {quote[f], NoPrice}
          /\ quote[f] \in Quote /\ asset' = asset
      BY <2>1 DEF ExecuteStellarTransaction, RunInv, At, Shape
    <3> QED BY <3>1, <3>2, PaymentAssumption
            DEF Transaction, RequiresStellarQuote, ConvertsAtOwnPrice
  \* A quote that was paid keeps its asset: only quotes not given before get one.
  <2>2. ASSUME NEW f \in Flow, GetConnectQuote(f) PROVE ConvertsAtOwnPrice'
    BY <2>2 DEF GetConnectQuote, ConvertsAtOwnPrice, QuoteInv, Shape
  <2>3. ASSUME UNCHANGED <<asset, payments>> PROVE ConvertsAtOwnPrice'
    BY <2>3 DEF ConvertsAtOwnPrice
  <2> QED BY <2>1, <2>2, <2>3, OtherSteps
          DEF Next, Paying, GetStellarQuote, ExecuteConnectPayment, vars, gateway
<1> QED BY <1>1, <1>2, RunInvariant, PTL DEF Spec

-----------------------------------------------------------------------------
\* A quote is not paid before step 8 runs for it.
THEOREM PaidInvariant == Spec => []PaidInv
<1>1. Init => PaidInv
  BY DEF Init, PaidInv, At
<1>2. Shape /\ RunInv /\ QuoteInv /\ PaidInv /\ [Next]_vars => PaidInv'
  <2> SUFFICES ASSUME Shape, RunInv, QuoteInv, PaidInv, [Next]_vars PROVE PaidInv'
    OBVIOUS
  <2>1. ASSUME NEW f \in Flow, Preparing(f) \/ Fail(f) \/ Resume(f) PROVE PaidInv'
    BY <2>1, OtherSteps, OtherStepsAt DEF PaidInv
  <2> USE PaymentAssumption DEF Shape, At, Goto, Abort, Step, OnConnect
  <2>2. ASSUME NEW f \in Flow, GetConnectQuote(f) PROVE PaidInv'
    <3>1. PICK q \in Quote, a \in AcceptedAsset :
            /\ asset[q] = "unissued"
            /\ quote' = [quote EXCEPT ![f] = q]
            /\ Goto(f, AfterQuote(f, q, a))
      BY <2>2 DEF GetConnectQuote
    <3>2. \A p \in payments : p.quote # q
      BY <3>1 DEF QuoteInv
    <3> QED BY <2>2, <3>1, <3>2 DEF GetConnectQuote, AfterQuote, PaidInv
  <2>3. ASSUME NEW f \in Flow, GetStellarQuote(f) PROVE PaidInv'
    BY <2>3 DEF GetStellarQuote, gateway, PaidInv
  <2>4. ASSUME NEW f \in Flow, ExecuteStellarTransaction(f) PROVE PaidInv'
    <3>0. PICK answer \in {"hash", "none", "lost"} :
            /\ payments' = payments \cup {Transaction(f, answer)}
            /\ IF answer = "lost" THEN Abort(f) ELSE Goto(f, "execute")
      BY <2>4 DEF ExecuteStellarTransaction
    <3>1. /\ payments' = payments \cup {Transaction(f, answer)}
          /\ Transaction(f, answer).quote = quote[f] /\ quote[f] # NoQuote
          /\ quote' = quote
      BY <2>4, <3>0 DEF ExecuteStellarTransaction, Transaction, RunInv
    <3>2. ASSUME NEW g \in Flow \ {f}
          PROVE  /\ At(g)' = At(g) /\ failedAt'[g] = failedAt[g]
                 /\ At(g) \in {"stellarQuote", "pay"} => Transaction(f, answer).quote # quote[g]
      BY <2>4, <3>0, <3>1 DEF QuoteInv
    <3>3. /\ At(f)' # "stellarQuote"
          /\ At(f)' = "pay" => failedAt'[f] = "pay"
      BY <2>4, <3>0 DEF ExecuteStellarTransaction
    <3> QED BY <3>1, <3>2, <3>3 DEF PaidInv
  <2>5. ASSUME NEW f \in Flow, ExecuteConnectPayment(f) PROVE PaidInv'
    BY <2>5 DEF ExecuteConnectPayment, fields, PaidInv
  <2>6. CASE UNCHANGED vars
    BY <2>6 DEF vars, progress, fields, gateway, PaidInv
  <2> QED BY <2>1, <2>2, <2>3, <2>4, <2>5, <2>6 DEF Next, Paying
<1> QED BY <1>1, <1>2, RunInvariant, PTL DEF Spec

\* Step 8 pays a quote a second time only because the partner ran it again
\* after it had returned an error.
THEOREM PaidOnce == Spec => PaysAQuoteOnce
<1>1. PaidInv => \A f \in Flow : ExecuteStellarTransaction(f)
                                 /\ (\E p \in payments : p.quote = quote[f])
                                 => failedAt[f] = "pay"
  BY DEF PaidInv, ExecuteStellarTransaction, At
<1> QED BY <1>1, PaidInvariant, PTL DEF PaysAQuoteOnce

-----------------------------------------------------------------------------
\* No two flows were built with clients that share a token store: what it takes
\* for recipes/doc.go, "safe for concurrent use across distinct Input values", to
\* hold (with a shared store it does not: the run PaymentShared).
OneFlowPerStore == \A f, g \in Flow : StoreOf(f) = StoreOf(g) => f = g

\* The session of a flow past step 4 is the one in its store, which lives, and
\* no store holds another store's session.
SessInv ==
  /\ \A f \in Flow : At(f) \in OnConnect =>
       sess[f] # NoSession /\ store[StoreOf(f)] = sess[f]
  /\ \A t \in Store : store[t] # NoSession => life[store[t]] = "alive"
  /\ \A t, u \in Store : store[t] # NoSession /\ store[t] = store[u] => t = u

\* Sessions of flows that do not share a store serve their runs.
THEOREM SessInvariant ==
  ASSUME OneFlowPerStore
  PROVE  Spec => []SessInv
<1>1. Init => SessInv
  BY DEF Init, SessInv, At, OnConnect
<1>2. Shape /\ RunInv /\ SessInv /\ [Next]_vars => SessInv'
  <2> SUFFICES ASSUME Shape, RunInv, SessInv, [Next]_vars PROVE SessInv'
    OBVIOUS
  \* Steps of flows that stay past step 4, or before it, and sign in nowhere.
  <2>1. ASSUME UNCHANGED <<sess, life, store>>,
               \A f \in Flow : At(f)' \in OnConnect => At(f) \in OnConnect
        PROVE  SessInv'
    BY <2>1 DEF SessInv
  <2>2. ASSUME NEW f \in Flow, SignInConnect(f) PROVE SessInv'
    <3> USE PaymentAssumption DEF Shape
    <3>1. PICK s \in Session : LoginAndPut(f, s) /\ sess' = [sess EXCEPT ![f] = s]
      BY <2>2 DEF SignInConnect
    <3>2. \A g \in Flow : At(g)' \in OnConnect => g = f \/ At(g) \in OnConnect
      BY <2>2 DEF SignInConnect, At, Goto, Step
    <3>3. \A t \in Store : store[t] # s
      BY <3>1 DEF LoginAndPut, SessInv
    <3>4. /\ \A t \in Store : store'[t] # NoSession => life'[store'[t]] = "alive"
          /\ \A t, u \in Store : store'[t] # NoSession /\ store'[t] = store'[u] => t = u
      BY <3>1, <3>3 DEF LoginAndPut, SessInv
    <3>5. \A g \in Flow : At(g)' \in OnConnect =>
            sess'[g] # NoSession /\ store'[StoreOf(g)] = sess'[g]
      BY <3>1, <3>2, OneFlowPerStore DEF LoginAndPut, SessInv, OneFlowPerStore
    <3> QED BY <3>4, <3>5 DEF SessInv
  <2> USE DEF Shape, RunInv, At, Goto, Abort, Step, Reads, OnConnect, fields, gateway, progress
  <2>3. ASSUME NEW f \in Flow, Fail(f) \/ Resume(f) \/ Do(f) \/ ListAssociations(f)
                               \/ ListWallets(f) \/ GetBeneficiary(f)
        PROVE  SessInv'
    BY <2>3, <2>1 DEF Fail, Resume, Do, ListAssociations, ListWallets, GetBeneficiary
  <2>4. ASSUME NEW f \in Flow, DiscoverConnectors(f) \/ Prefer(f) \/ SelectConnector(f)
        PROVE  SessInv'
    BY <2>4, <2>1 DEF DiscoverConnectors, Prefer, SelectConnector
  <2>5. ASSUME NEW f \in Flow, Paying(f) PROVE SessInv'
    BY <2>5, <2>1 DEF Paying, GetConnectQuote, GetStellarQuote, ExecuteStellarTransaction,
                      ExecuteConnectPayment
  <2>6. CASE UNCHANGED vars
    BY <2>6, <2>1 DEF vars
  <2> QED BY <2>2, <2>3, <2>4, <2>5, <2>6 DEF Next, Preparing
<1> QED BY <1>1, <1>2, RunInvariant, PTL DEF Spec

\* recipes/doc.go: the session a flow signed in with serves it to the end of
\* the run, as long as no other flow signs in to the same store.
THEOREM SessionKept ==
  ASSUME OneFlowPerStore
  PROVE  Spec => []SessionServesRun
<1>1. Shape /\ SessInv => SessionServesRun
  BY PaymentAssumption DEF Shape, SessInv, SessionServesRun, Usable, At, OnConnect
<1> QED BY <1>1, SessInvariant, RunInvariant, PTL
==============================================================================
