---------------------------- MODULE RetryTransport ----------------------------
(***************************************************************************)
(* Package transport: one request on its way down the stack that zeam.New  *)
(* installs into an http.Client, a decoratedRT over a retryRoundTripper,   *)
(* and back.  zeam.New wraps whatever transport the http.Client already    *)
(* has, so a client passed to it twice carries the stack twice: Layers     *)
(* stacks, 1 the outermost.                                                *)
(*                                                                         *)
(* Below the last stack is the network with a gateway that executes a      *)
(* write once per Idempotency-Key.  A body is whole or cut (some of it was *)
(* read by an earlier send and is gone: the same *http.Request is sent     *)
(* again and nothing rewinds its Body).                                    *)
(*                                                                         *)
(* An operator named Faulty... is the definition that follows it with one  *)
(* plausible programming error; none is part of Next.                      *)
(***************************************************************************)
EXTENDS Naturals, Sequences, FiniteSets

CONSTANTS Layers,    \* how often zeam.New decorated the http.Client
          MaxGET,    \* retryRoundTripper.maxGET
          MaxWrite,  \* retryRoundTripper.maxWrite
          Caller     \* who builds the request: "typed" (client.Call) or "raw" (RawClient)

ASSUME StackAssumption == /\ Layers \in Nat \ {0}
                          /\ MaxGET \in Nat /\ MaxWrite \in Nat
                          /\ Caller \in {"typed", "raw"}

VARIABLES
  method,   \* "GET" or "write" (POST, PUT, PATCH, DELETE)
  body,     \* "none", "sized" (with a Content-Length) or "stream" (chunked)
  left,     \* what a send would read from Body now: "whole" or "cut"
  key,      \* the Idempotency-Key header: 0 absent, n the n-th generated
  made,     \* keys generated
  layer,    \* the stack that runs; Layers + 1 is the network
  pc,
  attempt,  \* attempt[l] of stack l's loop
  last,     \* last[l]: its lastResp, as the number of the send (0: nil)
  result,   \* what the RoundTrip below returned: 0 an error, n the response to send n
  wire,     \* the sends: key, what was left of the body, and the answer
  open,     \* sends whose response body is not closed
  effects,  \* gateway: writes executed, with the body they were executed on
  ended,    \* the request's context has ended
  slept     \* backoffs begun after that

stack == <<layer, pc, attempt, last, result>>
request == <<method, body, left, key, made>>
network == <<wire, open, effects>>
vars == <<request, stack, network, ended, slept>>

Layer == 1 .. Layers
Status == {"ok", "retryable", "refused"}
Answer == [status : Status \cup {"pending", "error"}, retryAfter : BOOLEAN]
Budget == IF method = "GET" THEN MaxGET ELSE MaxWrite

(***************************************************************************)
(* The one type invariant; a response in hand is the response to a send,   *)
(* and no stack exceeds its budget.                                        *)
(***************************************************************************)
TypeOK ==
  /\ method \in {"GET", "write"} /\ body \in {"none", "sized", "stream"}
  /\ left \in {"whole", "cut"}
  /\ made \in Nat /\ key \in 0 .. made
  /\ layer \in 0 .. Layers + 1
  /\ pc \in {"decorate", "check", "send", "wire", "result", "drain", "backoff", "returned", "done"}
  /\ attempt \in [Layer -> 0 .. Budget]
  /\ wire \in Seq([key : Nat, left : {"whole", "cut"}, answer : Answer])
  /\ last \in [Layer -> 0 .. Len(wire)] /\ result \in 0 .. Len(wire)
  /\ open \subseteq 1 .. Len(wire)
  /\ effects \subseteq [key : Nat, left : {"whole", "cut"}]
  /\ ended \in BOOLEAN /\ slept \in Nat

-----------------------------------------------------------------------------
(* The request as its caller builds it.                                    *)

\* Fault: the reader is wrapped, so that NewRequest sees no length.
FaultyTypedBody == {"none", "stream"}

\* client.Call: bytes.NewReader, whose length http.NewRequest knows.
TypedBody == {"none", "sized"}

\* RawClient: io.NopCloser around the reader hides its length and its rewind.
RawBody == {"none", "stream"}

Init ==
  /\ method \in {"GET", "write"}
  /\ body \in IF method = "GET" THEN {"none"}
              ELSE IF Caller = "typed" THEN TypedBody ELSE RawBody
  /\ left = "whole" /\ key = 0 /\ made = 0
  /\ layer = 1 /\ pc = "decorate"
  /\ attempt = [l \in Layer |-> 0] /\ last = [l \in Layer |-> 0] /\ result = 0
  /\ wire = <<>> /\ open = {} /\ effects = {}
  /\ ended = FALSE /\ slept = 0

-----------------------------------------------------------------------------
(* decoratedRT.RoundTrip, down to the call of its base.                    *)

\* Fault: a key is generated without looking for one in the request.
FaultyNeedsKey == method = "write"

\* isMutating(method), and nobody set a key yet.
NeedsKey == method = "write" /\ key = 0

\* The key is set on the request; stack layer's loop starts.
Decorate ==
  /\ pc = "decorate"
  /\ IF NeedsKey THEN made' = made + 1 /\ key' = made + 1
                 ELSE UNCHANGED <<made, key>>
  /\ pc' = "check"
  /\ attempt' = [attempt EXCEPT ![layer] = 0]
  /\ last' = [last EXCEPT ![layer] = 0]
  /\ UNCHANGED <<method, body, left, layer, result, network, ended, slept>>

(* retryRoundTripper.RoundTrip.                                            *)

\* RoundTrip of the running stack returns r to the one above, or to http.Client.
ReturnUp(r) ==
  /\ result' = r
  /\ layer' = layer - 1
  /\ pc' = IF layer = 1 THEN "returned" ELSE "result"
  /\ UNCHANGED <<attempt, last>>

\* Fault: the context is not looked at between attempts.
FaultyCheck ==
  /\ pc = "check"
  /\ layer' = layer + 1
  /\ pc' = IF layer = Layers THEN "send" ELSE "decorate"
  /\ UNCHANGED <<attempt, last, result, request, network, ended, slept>>

\* A context that has ended stops the loop; otherwise base.RoundTrip(req).
Check ==
  /\ pc = "check"
  /\ IF ended
     THEN ReturnUp(0)
     ELSE /\ layer' = layer + 1
          /\ pc' = IF layer = Layers THEN "send" ELSE "decorate"
          /\ UNCHANGED <<attempt, last, result>>
  /\ UNCHANGED <<request, network, ended, slept>>

\* Fault: one attempt more than the budget.
FaultyMayRetry(l) == attempt[l] < Budget + 1

MayRetry(l) == attempt[l] < Budget

\* Fault: a write is retried on a status that a GET is retried on.
FaultyFinal(l) == wire[result].answer.status # "retryable" \/ ~MayRetry(l)

\* A response is final for a write whatever it says, for a GET unless its
\* status is retryable and there is an attempt left.
Final(l) == \/ method = "write"
            \/ wire[result].answer.status # "retryable"
            \/ ~MayRetry(l)

\* What base.RoundTrip returned is judged.
Judge ==
  /\ pc = "result"
  /\ IF result = 0
     THEN IF MayRetry(layer)
          THEN /\ pc' = "backoff"
               /\ attempt' = [attempt EXCEPT ![layer] = @ + 1]
               /\ last' = [last EXCEPT ![layer] = 0]
               /\ UNCHANGED <<layer, result>>
          ELSE ReturnUp(0)
     ELSE IF Final(layer)
          THEN ReturnUp(result)
          ELSE /\ pc' = "drain"
               /\ attempt' = [attempt EXCEPT ![layer] = @ + 1]
               /\ last' = [last EXCEPT ![layer] = result]
               /\ UNCHANGED <<layer, result>>
  /\ UNCHANGED <<request, network, ended, slept>>

\* Fault: the response is dropped without closing its body.
FaultyDrain ==
  /\ pc = "drain"
  /\ last' = [last EXCEPT ![layer] = 0]
  /\ pc' = "backoff"
  /\ UNCHANGED <<open, request, layer, attempt, result, wire, effects, ended, slept>>

\* The previous response is read to its end, closed and forgotten.
Drain ==
  /\ pc = "drain"
  /\ open' = open \ {last[layer]}
  /\ last' = [last EXCEPT ![layer] = 0]
  /\ pc' = "backoff"
  /\ UNCHANGED <<request, layer, attempt, result, wire, effects, ended, slept>>

\* backoff(attempt, lastResp): Retry-After is looked up in lastResp.
Honours(l) == last[l] # 0 /\ wire[last[l]].answer.retryAfter

\* The sleep does not watch the context.
Backoff ==
  /\ pc = "backoff"
  /\ pc' = "check"
  /\ slept' = IF ended THEN slept + 1 ELSE slept
  /\ UNCHANGED <<request, layer, attempt, last, result, network, ended>>

-----------------------------------------------------------------------------
(* Below the stacks: http.Transport, the connection and the gateway.       *)

\* A request is complete unless its Content-Length promises more than is left.
Complete == left = "whole" \/ body = "stream"

\* The gateway executes a complete write whose key it has not seen.
Execute == IF method = "write" /\ Complete /\ \A e \in effects : e.key # key
           THEN effects \cup {[key |-> key, left |-> left]} ELSE effects

Send ==
  /\ pc = "send"
  /\ wire' = Append(wire, [key |-> key, left |-> left,
                           answer |-> [status |-> "pending", retryAfter |-> FALSE]])
  /\ pc' = "wire"
  /\ UNCHANGED <<request, layer, attempt, last, result, open, effects, ended, slept>>

Answered(a) ==
  /\ pc = "wire"
  /\ wire' = [wire EXCEPT ![Len(wire)].answer = a]
  /\ layer' = Layers /\ pc' = "result"
  /\ UNCHANGED <<method, body, key, made, attempt, last, ended, slept>>

\* The gateway answers.  What it answers ok it has executed, an intermediary's
\* answer leaves that open, and what it refuses it has not executed.
Respond ==
  \E s \in Status, hint \in BOOLEAN :
    /\ s = "ok" => Complete
    /\ Answered([status |-> s, retryAfter |-> hint])
    /\ effects' \in CASE s = "ok" -> {Execute}
                      [] s = "retryable" -> {effects, Execute}
                      [] s = "refused" -> {effects}
    /\ left' = IF body = "none" THEN left ELSE "cut"
    /\ result' = Len(wire) /\ open' = open \cup {Len(wire)}

\* No answer: dial failure, reset, timeout, the end of the context, a body
\* shorter than its Content-Length.  The body may have been read, and the
\* gateway may have executed what it read.
NetworkError ==
  /\ Answered([status |-> "error", retryAfter |-> FALSE])
  /\ \/ UNCHANGED <<left, effects>>
     \/ body # "none" /\ left' = "cut" /\ UNCHANGED effects
     \/ Complete /\ effects' = Execute /\ left' = IF body = "none" THEN left ELSE "cut"
  /\ result' = 0 /\ UNCHANGED open

\* client.Call, RawClient and the flows read the response and close it.
Consume ==
  /\ pc = "returned"
  /\ pc' = "done"
  /\ open' = open \ {result}
  /\ UNCHANGED <<request, layer, attempt, last, result, wire, effects, ended, slept>>

\* The caller cancels, or the deadline passes.
ContextEnds ==
  /\ ~ended /\ pc \notin {"returned", "done"}
  /\ ended' = TRUE
  /\ UNCHANGED <<request, stack, network, slept>>

Next == \/ Decorate \/ Check \/ Judge \/ Drain \/ Backoff \/ ContextEnds
        \/ Send \/ Respond \/ NetworkError \/ Consume

Spec == Init /\ [][Next]_vars
-----------------------------------------------------------------------------
(* What the package promises.                                              *)

\* retry.go: the policy is bounded.  Nested stacks multiply their budgets and
\* no interleaving of errors and retryable responses exceeds the product.
SendsBounded == Len(wire) <= (Budget + 1) ^ Layers

\* SECURITY.md: the Idempotency-Key is generated for every mutation and reused
\* across retries; so the gateway executes a write once, whatever is lost, cut
\* off or sent again, by whichever stack.
ExecutedOnce == Cardinality(effects) <= 1

\* retry.go relies on the key to make a retry safe: the write the gateway
\* executes is the whole request, never the rest of a body that an earlier
\* send had begun to read.
ExecutedWhole == \A e \in effects : e.left = "whole"

\* retry.go: a connection is given back.  When the caller is done no response
\* body is open, of whatever attempt of whatever stack.
NothingLeftOpen == pc = "done" => open = {}

\* retry.go: a write is never sent again once a response was received, by no
\* stack; a GET only after responses with a retryable status.
ResentOnlyWhenSafe ==
  [][Len(wire') > Len(wire) =>
       \A i \in 1 .. Len(wire) :
         \/ wire[i].answer.status = "error"
         \/ method = "GET" /\ wire[i].answer.status = "retryable"]_vars

\* retry.go: a context that has ended stops the loops; what it can cost is the
\* backoff each stack may be about to begin.
CancelCostsOneBackoff == slept <= Layers

(* A statement of the documents that the code does not keep; ExecutedWhole *)
(* is another when the caller is RawClient.                                *)

\* docs/errors.md: "retry-after is already applied by the SDK transport".
RetryAfterApplied ==
  pc = "backoff" /\ result # 0 /\ wire[result].answer.retryAfter => Honours(layer)
==============================================================================
