-------------------------- MODULE RetryTransportProofs --------------------------
(***************************************************************************)
(* Theorems about RetryTransport for any number of stacks and any retry    *)
(* budgets: where a response body can be open, which sends are done with,  *)
(* how often a write can be executed, what a cancelled context can still   *)
(* cost, and how many sends nested stacks make of one request.             *)
(***************************************************************************)
EXTENDS RetryTransport, Integers, FiniteSetTheorems, SequenceTheorems,
        TLAPS

\* The stack that runs at each place of the code.
Position ==
  /\ pc \in {"decorate", "check", "result", "drain", "backoff"} => layer \in Layer
  /\ pc \in {"send", "wire"} => layer = Layers + 1
  /\ pc \in {"returned", "done"} => layer = 0
  /\ pc = "wire" => Len(wire) > 0

\* A write has its one key from the moment the first stack lets it through.
KeyInv ==
  /\ key = made /\ made \in {0, 1}
  /\ method = "write" => key = 1 \/ (pc = "decorate" /\ layer = 1)
  /\ effects # {} => key = 1

\* The gateway knows no other key than the request's, and has executed
\* nothing else under it.
EffectInv ==
  /\ \A e \in effects : e.key = key
  /\ \A e, f \in effects : e = f

\* A typed request's body has a length, and what was executed was whole.
WholeInv == body # "stream" /\ ExecutedWhole

\* The only body that can be open is that of the response in hand.
OpenInv ==
  /\ pc \in {"result", "returned"} => open \subseteq {result} \ {0}
  /\ pc = "drain" => open \subseteq {last[layer]}
  /\ pc \notin {"result", "returned", "drain"} => open = {}

\* Nothing that was sent can come back with an answer that allows no resend.
DoneWith(i) == \/ wire[i].answer.status = "error"
               \/ method = "GET" /\ wire[i].answer.status = "retryable"

\* Every send is done with, but for the one in flight or the one in hand.
WireInv ==
  \A i \in 1 .. Len(wire) :
    \/ DoneWith(i)
    \/ pc = "wire" /\ i = Len(wire)
    \/ pc \in {"result", "returned", "done"} /\ i = result

\* The backoffs that can still begin once the context has ended: one for each
\* stack that has yet to see an error or a retryable response.
Ahead == CASE pc \in {"decorate", "check"} -> layer - 1
           [] pc \in {"result", "drain", "backoff"} -> layer
           [] pc \in {"send", "wire"} -> Layers
           [] pc \in {"returned", "done"} -> 0

CancelInv == /\ ~ended => slept = 0
             /\ ended => slept + Ahead <= Layers

\* The sends of one call of stack l, of the network for l = Layers + 1.
PerCall(l) == (Budget + 1) ^ (Layers + 1 - l)

\* The running stacks were each called when so many sends had been made: the
\* calls a stack has made of the one below, and the one under way, account for
\* the sends since.
Counted(before) ==
  /\ before \in [1 .. Layers + 1 -> Nat]
  /\ \A l \in 1 .. Layers + 1 : l <= layer => before[l] + PerCall(l) <= PerCall(1)
  /\ \A l \in Layer : l < layer =>
       before[l + 1] <= before[l] + attempt[l] * PerCall(l + 1)
  /\ pc \in {"decorate", "send"} => Len(wire) <= before[layer]
  /\ pc \in {"check", "drain", "backoff"} =>
       Len(wire) <= before[layer] + attempt[layer] * PerCall(layer + 1)
  /\ pc = "result" => Len(wire) <= before[layer] + (attempt[layer] + 1) * PerCall(layer + 1)
  /\ pc = "wire" => Len(wire) <= before[layer] + 1
  /\ pc \in {"returned", "done"} => Len(wire) <= PerCall(1)

CountInv == \E before \in [1 .. Layers + 1 -> Nat] : Counted(before)

\* The equations that define ^ on the naturals.  The provers know no rule for
\* ^, so the theorem that needs them has them as its hypothesis.
PowerLaws == \A x \in Nat \ {0} :
  x ^ 0 = 1 /\ \A n \in Nat : x ^ n \in Nat /\ x ^ (n + 1) = x * x ^ n

-----------------------------------------------------------------------------
\* What ReturnUp leaves of the stack.
LEMMA Returned ==
  ASSUME TypeOK, Position, NEW r \in 0 .. Len(wire), ReturnUp(r), layer \in Layer,
         UNCHANGED <<request, network, ended, slept>>
  PROVE  TypeOK' /\ Position'
<1>1. /\ layer' \in 0 .. Layers + 1 /\ layer \in Nat /\ Layers \in Nat
      /\ layer = 1 => layer' = 0 /\ pc' = "returned"
      /\ layer # 1 => layer' \in Layer /\ pc' = "result"
  BY StackAssumption DEF ReturnUp, Layer
<1> QED BY <1>1 DEF TypeOK, Position, ReturnUp, request, network, Budget

\* The stacks keep to their budgets, and every response in hand is the
\* response to a send.
THEOREM TypeCorrect == Spec => [](TypeOK /\ Position)
<1> USE StackAssumption
<1>1. Init => TypeOK /\ Position
  <2> SUFFICES ASSUME Init PROVE TypeOK /\ Position
    OBVIOUS
  <2>1. 1 \in Layer /\ Budget \in Nat
    BY DEF Layer, Budget
  <2>2. body \in {"none", "sized", "stream"}
    BY DEF Init, TypedBody, RawBody
  <2>3. /\ wire \in Seq([key : Nat, left : {"whole", "cut"}, answer : Answer])
        /\ Len(wire) = 0
    BY DEF Init
  <2>4. /\ attempt \in [Layer -> 0 .. Budget] /\ last \in [Layer -> 0 .. Len(wire)]
        /\ result \in 0 .. Len(wire) /\ layer \in 0 .. Layers + 1
    BY <2>1, <2>3 DEF Init
  <2> QED BY <2>1, <2>2, <2>3, <2>4 DEF Init, TypeOK, Position
<1>2. TypeOK /\ Position /\ [Next]_vars => (TypeOK /\ Position)'
  <2> SUFFICES ASSUME TypeOK, Position, [Next]_vars PROVE (TypeOK /\ Position)'
    OBVIOUS
  <2>0. /\ Budget \in Nat /\ layer \in Nat /\ Layers \in Nat \ {0}
        /\ Len(wire) \in Nat /\ 0 \in 0 .. Len(wire) /\ 0 \in 0 .. Budget
    <3>1. Budget \in Nat /\ layer \in Nat
      BY DEF Budget, TypeOK
    <3>2. Len(wire) \in Nat
      BY LenProperties DEF TypeOK
    <3> QED BY <3>1, <3>2
  <2>1. CASE Decorate
    <3>1. layer \in Layer /\ pc' = "check" /\ layer' = layer
      BY <2>1 DEF Decorate, Position
    <3>2. made' \in Nat /\ key' \in 0 .. made'
      BY <2>1 DEF Decorate, TypeOK
    <3>3. attempt' \in [Layer -> 0 .. Budget] /\ last' \in [Layer -> 0 .. Len(wire)]
      BY <2>0, <2>1 DEF Decorate, TypeOK
    <3> QED BY <2>1, <3>1, <3>2, <3>3 DEF Decorate, TypeOK, Position, network, Budget
  <2>2. CASE Check
    <3>1. layer \in Layer
      BY <2>2 DEF Check, Position
    <3>2. CASE ended
      BY <2>0, <2>2, <3>1, <3>2, Returned DEF Check
    <3>3. CASE ~ended
      <4>1. /\ layer' = layer + 1 /\ UNCHANGED <<request, network, ended, slept>>
            /\ UNCHANGED <<attempt, last, result>>
            /\ pc' = IF layer = Layers THEN "send" ELSE "decorate"
        BY <2>2, <3>3 DEF Check
      <4>2. /\ layer' \in 0 .. Layers + 1
            /\ layer = Layers => layer' = Layers + 1
            /\ layer # Layers => layer' \in Layer
        BY <2>0, <3>1, <4>1 DEF Layer
      <4> QED BY <4>1, <4>2 DEF TypeOK, Position, request, network, Budget
    <3> QED BY <3>2, <3>3
  <2>3. CASE Judge
    <3>1. layer \in Layer /\ result \in 0 .. Len(wire)
      BY <2>3 DEF Judge, Position, TypeOK
    <3>2. CASE ReturnUp(0) \/ ReturnUp(result)
      BY <2>0, <2>3, <3>1, <3>2, Returned DEF Judge
    <3>3. CASE ~(ReturnUp(0) \/ ReturnUp(result))
      <4>1. /\ MayRetry(layer) /\ pc' \in {"backoff", "drain"}
            /\ attempt' = [attempt EXCEPT ![layer] = @ + 1]
            /\ \E n \in {0, result} : last' = [last EXCEPT ![layer] = n]
            /\ UNCHANGED <<layer, result, request, network, ended, slept>>
        BY <2>3, <3>3 DEF Judge, Final
      <4>2. attempt[layer] + 1 \in 0 .. Budget
        BY <2>0, <3>1, <4>1 DEF MayRetry, TypeOK
      <4>3. attempt' \in [Layer -> 0 .. Budget] /\ last' \in [Layer -> 0 .. Len(wire)]
        BY <3>1, <4>1, <4>2 DEF TypeOK
      <4> QED BY <3>1, <4>1, <4>3 DEF TypeOK, Position, request, network, Budget
    <3> QED BY <3>2, <3>3
  <2>4. CASE Drain
    <3>1. layer \in Layer
      BY <2>4 DEF Drain, Position
    <3>2. last' \in [Layer -> 0 .. Len(wire)]
      BY <2>4, <3>1 DEF Drain, TypeOK
    <3> QED BY <2>4, <3>1, <3>2 DEF Drain, TypeOK, Position, request, Budget
  <2>5. CASE Backoff
    BY <2>5 DEF Backoff, TypeOK, Position, request, network, Budget
  <2>6. CASE Send
    <3> DEFINE sent == [key |-> key, left |-> left,
                        answer |-> [status |-> "pending", retryAfter |-> FALSE]]
    <3>1. sent \in [key : Nat, left : {"whole", "cut"}, answer : Answer]
      BY DEF TypeOK, Answer
    <3>2. /\ wire' = Append(wire, sent) /\ pc' = "wire" /\ layer = Layers + 1
          /\ UNCHANGED <<request, layer, attempt, last, result, open, effects, ended, slept>>
      BY <2>6 DEF Send, Position
    <3> HIDE DEF sent
    <3>3. /\ wire' \in Seq([key : Nat, left : {"whole", "cut"}, answer : Answer])
          /\ Len(wire') = Len(wire) + 1 /\ Len(wire) \in Nat
      BY <3>1, <3>2 DEF TypeOK
    <3> QED BY <3>2, <3>3 DEF TypeOK, Position, request, Budget
  <2>7. ASSUME NEW a \in Answer, Answered(a), result' \in 0 .. Len(wire),
               open' \subseteq open \cup {Len(wire)}, left' \in {"whole", "cut"},
               effects' \in {effects, Execute}
        PROVE  (TypeOK /\ Position)'
    <3> DEFINE Sent == [key : Nat, left : {"whole", "cut"}, answer : Answer]
    <3>1. /\ wire \in Seq(Sent) /\ Len(wire) \in 1 .. Len(wire) /\ Len(wire) \in Nat
          /\ wire' = [wire EXCEPT ![Len(wire)].answer = a]
      BY <2>7 DEF Answered, TypeOK, Position
    <3>2. [wire[Len(wire)] EXCEPT !.answer = a] \in Sent
      <4>1. wire[Len(wire)] \in Sent
        <5> HIDE DEF Sent
        <5> QED BY <3>1
      <4> QED BY <2>7, <4>1
    <3>3. wire' \in Seq(Sent) /\ Len(wire') = Len(wire)
      <4> HIDE DEF Sent
      <4>1. wire' = [wire EXCEPT ![Len(wire)] = [wire[Len(wire)] EXCEPT !.answer = a]]
        BY <3>1
      <4> QED BY <3>1, <3>2, <4>1
    <3>4. effects' \subseteq [key : Nat, left : {"whole", "cut"}]
      <4>1. [key |-> key, left |-> left] \in [key : Nat, left : {"whole", "cut"}]
        BY DEF TypeOK
      <4> QED BY <2>7, <4>1 DEF Execute, TypeOK
    <3>5. layer' = Layers /\ Layers \in Layer /\ pc' = "result" /\ Layers \in 0 .. Layers + 1
      BY <2>0, <2>7 DEF Answered, Layer
    <3>6. open' \subseteq 1 .. Len(wire')
      BY <2>7, <3>1, <3>3 DEF TypeOK
    <3> QED BY <2>7, <3>3, <3>4, <3>5, <3>6 DEF Answered, TypeOK, Position, Budget
  <2>8. CASE Respond
    <3>1. PICK s \in Status, hint \in BOOLEAN :
            /\ Answered([status |-> s, retryAfter |-> hint])
            /\ effects' \in {effects, Execute}
            /\ left' = IF body = "none" THEN left ELSE "cut"
            /\ result' = Len(wire) /\ open' = open \cup {Len(wire)}
      BY <2>8 DEF Respond, Status
    <3>2. [status |-> s, retryAfter |-> hint] \in Answer
      BY DEF Answer
    <3>3. result' \in 0 .. Len(wire) /\ left' \in {"whole", "cut"}
      BY <3>1 DEF TypeOK
    <3> QED BY <2>7, <3>1, <3>2, <3>3
  <2>9. CASE NetworkError
    <3>1. [status |-> "error", retryAfter |-> FALSE] \in Answer
      BY DEF Answer
    <3>2. /\ effects' \in {effects, Execute} /\ left' \in {"whole", "cut"}
          /\ result' \in 0 .. Len(wire) /\ open' \subseteq open \cup {Len(wire)}
      BY <2>9 DEF NetworkError, TypeOK
    <3> QED BY <2>7, <2>9, <3>1, <3>2 DEF NetworkError
  <2>10. CASE Consume
    BY <2>10 DEF Consume, TypeOK, Position, request, Budget
  <2>11. CASE ContextEnds
    BY <2>11 DEF ContextEnds, TypeOK, Position, request, stack, network, Budget
  <2>12. CASE UNCHANGED vars
    BY <2>12 DEF vars, TypeOK, Position, request, stack, network, Budget
  <2> QED BY <2>1, <2>2, <2>3, <2>4, <2>5, <2>6, <2>8, <2>9, <2>10, <2>11, <2>12 DEF Next
<1> QED BY <1>1, <1>2, PTL DEF Spec

-----------------------------------------------------------------------------
\* SECURITY.md: one Idempotency-Key for the request, whichever stack sets it,
\* so the gateway executes the write at most once.
THEOREM OneExecution == Spec => [](KeyInv /\ EffectInv)
<1> USE StackAssumption
<1>1. Init => KeyInv /\ EffectInv
  BY DEF Init, KeyInv, EffectInv
<1>2. TypeOK /\ Position /\ KeyInv /\ EffectInv /\ [Next]_vars => (KeyInv /\ EffectInv)'
  <2> SUFFICES ASSUME TypeOK, Position, KeyInv, EffectInv, [Next]_vars
               PROVE  (KeyInv /\ EffectInv)'
    OBVIOUS
  <2>1. ASSUME UNCHANGED <<method, key, made, effects>>, pc' # "decorate" \/ layer' # 1,
               pc # "decorate"
        PROVE  (KeyInv /\ EffectInv)'
    BY <2>1 DEF KeyInv, EffectInv
  <2>2. CASE Decorate
    <3>1. CASE NeedsKey
      <4>1. effects = {} /\ made = 0 /\ key = 0
        BY <3>1 DEF NeedsKey, KeyInv
      <4>2. key' = 1 /\ made' = 1 /\ UNCHANGED <<method, effects>> /\ pc' = "check"
        BY <2>2, <3>1, <4>1 DEF Decorate, network
      <4> QED BY <4>1, <4>2 DEF KeyInv, EffectInv
    <3>2. CASE ~NeedsKey
      <4>1. UNCHANGED <<key, made, method, effects>> /\ pc' = "check"
        BY <2>2, <3>2 DEF Decorate, network
      <4> QED BY <3>2, <4>1 DEF KeyInv, EffectInv, NeedsKey
    <3> QED BY <3>1, <3>2
  <2>3. CASE Check
    <3>1. pc = "check" /\ layer \in Layer /\ UNCHANGED <<method, key, made, effects>>
      BY <2>3 DEF Check, Position, request, network
    <3>2. pc' = "decorate" => layer' = layer + 1
      BY <2>3 DEF Check, ReturnUp
    <3>3. pc' # "decorate" \/ layer' # 1
      BY <3>1, <3>2 DEF Layer
    <3> QED BY <2>1, <3>1, <3>3
  <2>4. CASE Judge \/ Drain \/ Backoff \/ Send \/ Consume
    BY <2>1, <2>4 DEF Judge, ReturnUp, Drain, Backoff, Send, Consume, request, network
  <2>5. CASE Respond \/ NetworkError
    <3>1. pc = "wire" /\ pc' = "result" /\ UNCHANGED <<method, key, made>>
      BY <2>5 DEF Respond, NetworkError, Answered
    <3>2. effects' \in {effects, Execute}
      BY <2>5 DEF Respond, NetworkError, Status
    <3>3. CASE effects' = effects
      BY <2>1, <3>1, <3>3
    <3>4. CASE effects' # effects
      <4>1. /\ method = "write" /\ \A e \in effects : e.key # key
            /\ effects' = effects \cup {[key |-> key, left |-> left]}
        BY <3>2, <3>4 DEF Execute
      <4>2. effects = {} /\ key = 1
        BY <3>1, <4>1 DEF EffectInv, KeyInv
      <4> QED BY <3>1, <4>1, <4>2 DEF KeyInv, EffectInv
    <3> QED BY <3>3, <3>4
  <2>6. CASE ContextEnds \/ UNCHANGED vars
    BY <2>6 DEF ContextEnds, vars, request, stack, network, KeyInv, EffectInv
  <2> QED BY <2>2, <2>3, <2>4, <2>5, <2>6 DEF Next
<1> QED BY <1>1, <1>2, TypeCorrect, PTL DEF Spec

\* The gateway executes a write once, whatever is lost, cut off or sent again.
THEOREM ExecutesOnce == Spec => []ExecutedOnce
<1>1. EffectInv => ExecutedOnce
  <2> SUFFICES ASSUME EffectInv PROVE Cardinality(effects) <= 1
    BY DEF ExecutedOnce
  <2>1. CASE effects = {}
    BY <2>1, FS_EmptySet
  <2>2. CASE effects # {}
    <3>1. PICK e \in effects : TRUE
      BY <2>2
    <3>2. effects = {e}
      BY <3>1 DEF EffectInv
    <3>3. Cardinality({e}) = 1
      BY FS_Singleton
    <3> QED BY <3>2, <3>3
  <2> QED BY <2>1, <2>2
<1> QED BY <1>1, OneExecution, PTL

\* retry.go's reliance on the key: the body of a typed request has a
\* Content-Length, so one that was cut is never executed in part.
THEOREM ExecutesWhole ==
  ASSUME Caller = "typed"
  PROVE  Spec => []ExecutedWhole
<1>1. Init => WholeInv
  BY DEF Init, WholeInv, ExecutedWhole, TypedBody
<1>2. WholeInv /\ [Next]_vars => WholeInv'
  <2> SUFFICES ASSUME WholeInv, [Next]_vars PROVE WholeInv'
    OBVIOUS
  <2>1. ASSUME UNCHANGED <<body, effects>> PROVE WholeInv'
    BY <2>1 DEF WholeInv, ExecutedWhole
  <2>2. CASE Decorate \/ Check \/ Judge \/ Drain
    BY <2>1, <2>2 DEF Decorate, Check, Judge, Drain, request, network
  <2>3. CASE Backoff \/ Send \/ Consume \/ ContextEnds \/ UNCHANGED vars
    BY <2>1, <2>3 DEF Backoff, Send, Consume, ContextEnds, vars, request, network
  <2>4. CASE Respond \/ NetworkError
    <3>1. UNCHANGED body /\ effects' \in {effects, Execute}
      BY <2>4 DEF Respond, NetworkError, Answered, Status
    <3>2. \A e \in Execute : e.left = "whole"
      BY DEF Execute, Complete, WholeInv, ExecutedWhole
    <3> QED BY <3>1, <3>2 DEF WholeInv, ExecutedWhole
  <2> QED BY <2>2, <2>3, <2>4 DEF Next
<1>3. WholeInv => ExecutedWhole
  BY DEF WholeInv
<1> QED BY <1>1, <1>2, <1>3, PTL DEF Spec

-----------------------------------------------------------------------------
\* retry.go: a connection is given back.  A body is open only while its
\* response is in hand, in whichever stack; when the caller is done none is.
THEOREM BodiesClosed == Spec => []OpenInv
<1> USE StackAssumption
<1>1. Init => OpenInv
  BY DEF Init, OpenInv
<1>2. TypeOK /\ Position /\ OpenInv /\ [Next]_vars => OpenInv'
  <2> SUFFICES ASSUME TypeOK, Position, OpenInv, [Next]_vars PROVE OpenInv'
    OBVIOUS
  <2>1. ASSUME pc \notin {"result", "returned", "drain"}, UNCHANGED open PROVE OpenInv'
    BY <2>1 DEF OpenInv
  <2>2. CASE Decorate \/ Check \/ Backoff \/ Send
    BY <2>1, <2>2 DEF Decorate, Check, Backoff, Send, network
  <2>3. CASE Judge
    <3>1. /\ UNCHANGED open /\ pc = "result" /\ layer \in Layer
          /\ open \subseteq {result} \ {0}
      BY <2>3 DEF Judge, OpenInv, network, Position
    <3>2. CASE ReturnUp(result)
      BY <3>1, <3>2 DEF ReturnUp, OpenInv
    <3>3. CASE result = 0
      <4>1. pc' \in {"backoff", "result", "returned"} /\ open' = {}
        BY <2>3, <3>1, <3>3 DEF Judge, ReturnUp
      <4> QED BY <4>1 DEF OpenInv
    <3>4. CASE result # 0 /\ ~ReturnUp(result)
      <4>1. /\ pc' = "drain" /\ layer' = layer
            /\ last' = [last EXCEPT ![layer] = result]
        BY <2>3, <3>4 DEF Judge
      <4>2. last'[layer'] = result
        BY <3>1, <4>1 DEF TypeOK
      <4> QED BY <3>1, <4>1, <4>2 DEF OpenInv
    <3> QED BY <3>2, <3>3, <3>4
  <2>4. CASE Drain
    BY <2>4 DEF Drain, OpenInv
  <2>5. CASE Respond
    <3>1. /\ pc = "wire" /\ pc' = "result" /\ result' = Len(wire)
          /\ open' = open \cup {Len(wire)}
      BY <2>5 DEF Respond, Answered
    <3>2. Len(wire) # 0
      BY <3>1 DEF Position
    <3> QED BY <3>1, <3>2 DEF OpenInv
  <2>6. CASE NetworkError
    BY <2>6 DEF NetworkError, Answered, OpenInv
  <2>7. CASE Consume
    BY <2>7 DEF Consume, OpenInv
  <2>8. CASE ContextEnds \/ UNCHANGED vars
    BY <2>8 DEF ContextEnds, vars, stack, network, OpenInv
  <2> QED BY <2>2, <2>3, <2>4, <2>5, <2>6, <2>7, <2>8 DEF Next
<1> QED BY <1>1, <1>2, TypeCorrect, PTL DEF Spec

\* When the caller is done no response body is open, of whatever attempt.
THEOREM NothingOpen == Spec => []NothingLeftOpen
<1>1. OpenInv => NothingLeftOpen
  BY DEF OpenInv, NothingLeftOpen
<1> QED BY <1>1, BodiesClosed, PTL

-----------------------------------------------------------------------------
\* A step that does not touch the wire leaves what was sent done with; the
\* response in hand may only be let go when it is done with too.
LEMMA WireKept ==
  ASSUME TypeOK, WireInv, UNCHANGED <<wire, method>>, pc # "wire",
         \/ pc \notin {"result", "returned", "done"}
         \/ pc' \in {"result", "returned", "done"} /\ result' = result
         \/ result = 0
         \/ DoneWith(result)
  PROVE  WireInv'
  BY DEF TypeOK, WireInv, DoneWith

\* The sends are done with, but for the last.
THEOREM WireInvariant == Spec => []WireInv
<1> USE StackAssumption
<1>1. Init => WireInv
  BY DEF Init, WireInv
<1>2. TypeOK /\ Position /\ WireInv /\ [Next]_vars => WireInv'
  <2> SUFFICES ASSUME TypeOK, Position, WireInv, [Next]_vars PROVE WireInv'
    OBVIOUS
  <2>0. Len(wire) \in Nat
    BY LenProperties DEF TypeOK
  <2>1. CASE Decorate \/ Check \/ Drain \/ Backoff
    BY <2>1, WireKept DEF Decorate, Check, Drain, Backoff, request, network
  <2>2. CASE Judge
    <3>1. pc = "result" /\ UNCHANGED <<wire, method>>
      BY <2>2 DEF Judge, request, network
    <3>2. CASE ReturnUp(result)
      BY <3>1, <3>2, WireKept DEF ReturnUp
    <3>3. CASE result # 0 /\ ~Final(layer)
      BY <3>1, <3>3, WireKept DEF Final, DoneWith, TypeOK
    <3> QED BY <2>2, <3>1, <3>2, <3>3, WireKept DEF Judge
  <2>3. CASE Send
    <3> DEFINE sent == [key |-> key, left |-> left,
                        answer |-> [status |-> "pending", retryAfter |-> FALSE]]
    <3>1. /\ wire' = Append(wire, sent) /\ pc = "send" /\ pc' = "wire"
          /\ method' = method
      BY <2>3 DEF Send, request
    <3> HIDE DEF sent
    <3>2. /\ Len(wire') = Len(wire) + 1
          /\ \A i \in 1 .. Len(wire) : wire'[i] = wire[i]
      BY <3>1, AppendProperties DEF TypeOK
    <3>3. \A i \in 1 .. Len(wire) : DoneWith(i) /\ DoneWith(i)'
      BY <3>1, <3>2 DEF WireInv, DoneWith
    <3> QED BY <2>0, <3>1, <3>2, <3>3 DEF WireInv
  <2>4. ASSUME NEW a \in Answer, Answered(a),
               a.status = "error" \/ result' = Len(wire)
        PROVE  WireInv'
    <3>1. /\ pc = "wire" /\ pc' = "result" /\ method' = method
          /\ wire' = [wire EXCEPT ![Len(wire)].answer = a]
      BY <2>4 DEF Answered
    <3>2. Len(wire) \in 1 .. Len(wire) /\ DOMAIN wire = 1 .. Len(wire)
      BY <2>0, <3>1, LenProperties DEF Position, TypeOK
    <3>3. /\ Len(wire') = Len(wire)
          /\ \A i \in 1 .. Len(wire) : i # Len(wire) => wire'[i] = wire[i]
          /\ wire'[Len(wire)].answer = a
      <4>1. wire[Len(wire)] \in [key : Nat, left : {"whole", "cut"}, answer : Answer]
        BY <3>2, ElementOfSeq DEF TypeOK
      <4> QED BY <3>1, <3>2, <4>1 DEF TypeOK
    <3>4. \A i \in 1 .. Len(wire) : i # Len(wire) => DoneWith(i)'
      BY <3>1, <3>3 DEF WireInv, DoneWith
    <3> QED BY <2>4, <3>1, <3>2, <3>3, <3>4 DEF WireInv, DoneWith
  <2>5. CASE Respond
    <3>1. PICK s \in Status, hint \in BOOLEAN :
            Answered([status |-> s, retryAfter |-> hint]) /\ result' = Len(wire)
      BY <2>5 DEF Respond
    <3>2. [status |-> s, retryAfter |-> hint] \in Answer
      BY DEF Answer
    <3> QED BY <2>4, <3>1, <3>2
  <2>6. CASE NetworkError
    <3>1. [status |-> "error", retryAfter |-> FALSE] \in Answer
      BY DEF Answer
    <3> QED BY <2>4, <2>6, <3>1 DEF NetworkError
  <2>7. CASE Consume
    BY <2>7, WireKept DEF Consume, request
  <2>8. CASE ContextEnds \/ UNCHANGED vars
    BY <2>8 DEF ContextEnds, vars, request, stack, network, WireInv, DoneWith
  <2> QED BY <2>1, <2>2, <2>3, <2>5, <2>6, <2>7, <2>8 DEF Next
<1> QED BY <1>1, <1>2, TypeCorrect, PTL DEF Spec

\* retry.go: a write is never sent again once a response was received, by no
\* stack; a GET only after responses with a retryable status.
THEOREM SafeResends == Spec => ResentOnlyWhenSafe
<1> DEFINE Safe == Len(wire') > Len(wire) =>
             \A i \in 1 .. Len(wire) :
               \/ wire[i].answer.status = "error"
               \/ method = "GET" /\ wire[i].answer.status = "retryable"
<1>1. TypeOK /\ Position /\ WireInv /\ [Next]_vars => Safe
  <2> SUFFICES ASSUME TypeOK, Position, WireInv, [Next]_vars, Len(wire') > Len(wire)
               PROVE  \A i \in 1 .. Len(wire) : DoneWith(i)
    BY DEF DoneWith
  <2>1. Len(wire) \in Nat
    BY LenProperties DEF TypeOK
  <2>2. ASSUME wire' = wire PROVE FALSE
    BY <2>1, <2>2
  <2>3. ASSUME NEW a, Answered(a) PROVE FALSE
    <3>1. wire' = [wire EXCEPT ![Len(wire)].answer = a]
      BY <2>3 DEF Answered
    <3>2. Len(wire') = Len(wire)
      BY <3>1, LenProperties DEF TypeOK
    <3> QED BY <2>1, <3>2
  <2>4. Send
    BY <2>2, <2>3 DEF Next, Decorate, Check, Judge, Drain, Backoff, ContextEnds,
                      Respond, NetworkError, Consume, vars, network
  <2> QED BY <2>4 DEF Send, WireInv
<1>2. TypeOK /\ Position /\ WireInv /\ [Next]_vars => [Safe]_vars
  BY <1>1
<1> QED BY <1>2, TypeCorrect, WireInvariant, PTL DEF Spec, ResentOnlyWhenSafe

-----------------------------------------------------------------------------
\* What Ahead is at each place.
LEMMA AheadIs ==
  /\ pc \in {"decorate", "check"} => Ahead = layer - 1
  /\ pc \in {"result", "drain", "backoff"} => Ahead = layer
  /\ pc \in {"send", "wire"} => Ahead = Layers
  /\ pc \in {"returned", "done"} => Ahead = 0
  BY DEF Ahead

\* Once the context has ended, every stack begins at most the one backoff that
\* the error or response it is handed may cause.
THEOREM CancelInvariant == Spec => []CancelInv
<1> USE StackAssumption
<1>1. Init => CancelInv
  BY DEF Init, CancelInv
<1>2. TypeOK /\ Position /\ CancelInv /\ [Next]_vars => CancelInv'
  <2> SUFFICES ASSUME TypeOK, Position, CancelInv, [Next]_vars PROVE CancelInv'
    OBVIOUS
  <2>0. layer \in Nat /\ Layers \in Nat /\ slept \in Nat /\ ended \in BOOLEAN
    BY DEF TypeOK
  <2>1. ASSUME UNCHANGED <<ended, slept>>, ended => Ahead' <= Ahead, Ahead \in Int,
               Ahead' \in Int
        PROVE  CancelInv'
    <3>1. ended' <=> ended
      BY <2>1
    <3>2. ~ended => slept' = 0
      BY <2>1 DEF CancelInv
    <3>3. ASSUME ended PROVE slept' + Ahead' <= Layers
      <4>1. slept + Ahead <= Layers
        BY <3>3 DEF CancelInv
      <4>2. slept' = slept /\ Ahead' <= Ahead /\ Ahead \in Int /\ Ahead' \in Int
        BY <2>1, <3>3
      <4>3. \A a, b \in Int : slept + a <= Layers /\ b <= a => slept + b <= Layers
        BY <2>0
      <4> QED BY <4>1, <4>2, <4>3
    <3> QED BY <3>1, <3>2, <3>3 DEF CancelInv
  <2>2. /\ pc \in {"decorate", "check"} => Ahead = layer - 1
        /\ pc \in {"result", "drain", "backoff"} => Ahead = layer
        /\ pc \in {"send", "wire"} => Ahead = Layers
        /\ pc \in {"returned", "done"} => Ahead = 0
    BY AheadIs
  <2>3. /\ pc' \in {"decorate", "check"} => Ahead' = layer' - 1
        /\ pc' \in {"result", "drain", "backoff"} => Ahead' = layer'
        /\ pc' \in {"send", "wire"} => Ahead' = Layers
        /\ pc' \in {"returned", "done"} => Ahead' = 0
    BY DEF Ahead
  <2>4. CASE Decorate
    BY <2>0, <2>1, <2>2, <2>3, <2>4 DEF Decorate
  <2>5. CASE Check
    <3>1. layer \in Layer /\ pc = "check" /\ UNCHANGED <<ended, slept>>
      BY <2>5 DEF Check, Position
    <3>2. Ahead' \in Int /\ (ended => Ahead' <= Ahead)
      BY <2>0, <2>2, <2>3, <2>5, <3>1 DEF Check, ReturnUp, Layer
    <3> QED BY <2>0, <2>1, <2>2, <3>1, <3>2
  <2>6. CASE Judge
    <3>1. layer \in Layer /\ pc = "result" /\ UNCHANGED <<ended, slept>>
      BY <2>6 DEF Judge, Position
    <3>2. \/ layer' = layer /\ pc' \in {"backoff", "drain"}
          \/ layer' = layer - 1 /\ pc' = IF layer = 1 THEN "returned" ELSE "result"
      BY <2>6 DEF Judge, ReturnUp
    <3>3. Ahead' \in Int /\ Ahead' <= Ahead
      BY <2>0, <2>2, <2>3, <3>1, <3>2 DEF Layer
    <3> QED BY <2>0, <2>1, <2>2, <3>1, <3>3
  <2>7. CASE Drain
    BY <2>0, <2>1, <2>2, <2>3, <2>7 DEF Drain
  <2>8. CASE Backoff
    <3>1. /\ pc = "backoff" /\ pc' = "check" /\ UNCHANGED <<layer, ended>>
          /\ slept' = IF ended THEN slept + 1 ELSE slept
      BY <2>8 DEF Backoff
    <3> QED BY <2>0, <2>2, <2>3, <3>1 DEF CancelInv
  <2>9. CASE Send
    BY <2>0, <2>1, <2>2, <2>3, <2>9 DEF Send
  <2>10. CASE Respond \/ NetworkError
    <3>1. /\ pc = "wire" /\ pc' = "result" /\ layer' = Layers
          /\ UNCHANGED <<ended, slept>>
      BY <2>10 DEF Respond, NetworkError, Answered
    <3> QED BY <2>0, <2>1, <2>2, <2>3, <3>1
  <2>11. CASE Consume
    BY <2>0, <2>1, <2>2, <2>3, <2>11 DEF Consume
  <2>12. CASE ContextEnds
    <3>1. /\ ~ended /\ pc \notin {"returned", "done"}
          /\ UNCHANGED <<layer, pc, slept>>
      BY <2>12 DEF ContextEnds, stack
    <3>2. Ahead \in Int /\ Ahead <= Layers /\ Ahead' = Ahead
      BY <2>0, <2>2, <2>3, <3>1 DEF TypeOK, Position, Layer
    <3> QED BY <2>0, <3>1, <3>2 DEF CancelInv
  <2>13. CASE UNCHANGED vars
    BY <2>13 DEF vars, stack, CancelInv, Ahead
  <2> QED BY <2>4, <2>5, <2>6, <2>7, <2>8, <2>9, <2>10, <2>11, <2>12, <2>13 DEF Next
<1> QED BY <1>1, <1>2, TypeCorrect, PTL DEF Spec

\* retry.go: a context that has ended costs each stack at most one backoff.
THEOREM CancelCost == Spec => []CancelCostsOneBackoff
<1>1. TypeOK /\ Position /\ CancelInv => CancelCostsOneBackoff
  <2> SUFFICES ASSUME TypeOK, Position, CancelInv PROVE slept <= Layers
    BY DEF CancelCostsOneBackoff
  <2>1. Ahead \in Nat
    BY AheadIs, StackAssumption DEF TypeOK, Position, Layer
  <2> QED BY <2>1, StackAssumption DEF CancelInv, TypeOK
<1> QED BY <1>1, TypeCorrect, CancelInvariant, PTL

-----------------------------------------------------------------------------
\* One call more of the stack below.
LEMMA OneCallMore ==
  ASSUME NEW a \in Nat, NEW b \in Nat, NEW p \in Nat
  PROVE  /\ a * p \in Nat /\ a * p + p = (a + 1) * p
         /\ a <= b => a * p <= b * p
<1>1. a * p \in Nat /\ a * p + p = (a + 1) * p
  OBVIOUS
<1>2. ASSUME a <= b PROVE a * p <= b * p
  <2>1. b - a \in Nat /\ (b - a) * p >= 0
    BY <1>2
  <2> QED BY <2>1
<1> QED BY <1>1, <1>2

\* A stack makes no more calls of the one below than its budget and one.
LEMMA PerCalls ==
  ASSUME PowerLaws, TypeOK
  PROVE  /\ \A l \in 1 .. Layers + 1 : PerCall(l) \in Nat
         /\ PerCall(Layers + 1) = 1 /\ PerCall(1) = (Budget + 1) ^ Layers
         /\ \A l \in Layer : PerCall(l) = (Budget + 1) * PerCall(l + 1)
<1> USE StackAssumption
<1>1. Budget + 1 \in Nat \ {0}
  BY DEF Budget
<1>2. \A n \in Nat : /\ (Budget + 1) ^ n \in Nat
                     /\ (Budget + 1) ^ (n + 1) = (Budget + 1) * (Budget + 1) ^ n
  BY <1>1 DEF PowerLaws
<1>3. (Budget + 1) ^ 0 = 1
  BY <1>1 DEF PowerLaws
<1>4. ASSUME NEW l \in 1 .. Layers + 1 PROVE PerCall(l) \in Nat
  <2>1. Layers + 1 - l \in Nat
    OBVIOUS
  <2> QED BY <1>2, <2>1 DEF PerCall
<1>5. PerCall(Layers + 1) = 1 /\ PerCall(1) = (Budget + 1) ^ Layers
  <2>1. Layers + 1 - (Layers + 1) = 0 /\ Layers + 1 - 1 = Layers
    OBVIOUS
  <2> QED BY <1>3, <2>1 DEF PerCall
<1>6. ASSUME NEW l \in Layer PROVE PerCall(l) = (Budget + 1) * PerCall(l + 1)
  <2>1. Layers + 1 - (l + 1) \in Nat /\ Layers + 1 - l = (Layers + 1 - (l + 1)) + 1
    BY DEF Layer
  <2> QED BY <1>2, <2>1 DEF PerCall
<1> QED BY <1>4, <1>5, <1>6

\* A step that sends nothing and stays in its stack.
LEMMA CountKept ==
  ASSUME NEW before, Counted(before), UNCHANGED <<method, layer, attempt, wire>>,
         \/ pc' = pc
         \/ {pc, pc'} \subseteq {"check", "drain", "backoff"}
         \/ {pc, pc'} \subseteq {"returned", "done"}
  PROVE  CountInv'
<1>1. \A l \in 1 .. Layers + 1 : PerCall(l)' = PerCall(l)
  BY DEF PerCall, Budget
<1>2. Layer \subseteq 1 .. Layers + 1 /\ \A l \in Layer : l + 1 \in 1 .. Layers + 1
  BY StackAssumption DEF Layer
<1>3. Counted(before)'
  BY <1>1, <1>2 DEF Counted, PerCall, Budget
<1>4. before \in [1 .. Layers + 1 -> Nat]
  BY DEF Counted
<1> QED BY <1>3, <1>4 DEF CountInv

\* A call that returns has made no more sends than a call may.
LEMMA CountReturned ==
  ASSUME PowerLaws, TypeOK, NEW before, Counted(before), layer \in 1 .. Layers + 1,
         Len(wire) <= before[layer] + PerCall(layer), Len(wire') = Len(wire),
         layer' = layer - 1, pc' = IF layer = 1 THEN "returned" ELSE "result",
         UNCHANGED <<method, attempt>>
  PROVE  CountInv'
<1> USE StackAssumption
<1>1. /\ \A l \in 1 .. Layers + 1 : PerCall(l)' = PerCall(l) /\ PerCall(l) \in Nat
      /\ before \in [1 .. Layers + 1 -> Nat] /\ Len(wire) \in Nat
  BY PerCalls, LenProperties DEF PerCall, Budget, Counted, TypeOK
<1>2. 1 \in 1 .. Layers + 1 /\ Layers \in Nat
  OBVIOUS
<1>3. /\ \A l \in 1 .. Layers + 1 : l <= layer' =>
           before[l] + PerCall(l)' <= PerCall(1)'
      /\ \A l \in Layer : l < layer' =>
           before[l + 1] <= before[l] + attempt'[l] * PerCall(l + 1)'
  <2>1. ASSUME NEW l \in 1 .. Layers + 1, l <= layer'
        PROVE  before[l] + PerCall(l)' <= PerCall(1)'
    BY <1>1, <1>2, <2>1 DEF Counted
  <2>2. ASSUME NEW l \in Layer, l < layer'
        PROVE  before[l + 1] <= before[l] + attempt'[l] * PerCall(l + 1)'
    <3>1. l + 1 \in 1 .. Layers + 1 /\ l < layer
      BY <2>2 DEF Layer
    <3> QED BY <1>1, <3>1 DEF Counted
  <2> QED BY <2>1, <2>2
<1>4. CASE layer = 1
  <2>1. Len(wire) <= PerCall(1)
    <3>1. before[1] + PerCall(1) <= PerCall(1)
      BY <1>2, <1>4 DEF Counted
    <3>2. before[1] \in Nat /\ PerCall(1) \in Nat
      BY <1>1, <1>2
    <3> QED BY <1>1, <1>4, <3>1, <3>2
  <2>2. pc' = "returned" /\ Len(wire') <= PerCall(1)'
    BY <1>1, <1>2, <1>4, <2>1
  <2>3. Counted(before)'
    BY <1>1, <1>3, <2>2 DEF Counted
  <2> QED BY <1>1, <2>3 DEF CountInv
<1>5. CASE layer # 1
  <2> DEFINE up == layer - 1
             calls == attempt[up]
  <2>1. up \in Layer /\ up \in 1 .. Layers + 1 /\ up < layer /\ up + 1 = layer
    BY <1>5 DEF Layer
  <2>2. calls \in Nat /\ PerCall(layer) \in Nat /\ before[up] \in Nat /\ before[layer] \in Nat
    BY <1>1, <2>1 DEF TypeOK
  <2>3. before[layer] <= before[up] + calls * PerCall(layer)
    BY <2>1 DEF Counted
  <2> HIDE DEF calls
  <2>4. /\ calls * PerCall(layer) \in Nat
        /\ calls * PerCall(layer) + PerCall(layer) = (calls + 1) * PerCall(layer)
    BY <2>2, OneCallMore
  <2>5. Len(wire) <= before[up] + (calls + 1) * PerCall(layer)
    <3>1. \A m, n, p, q, w \in Nat :
            w <= n + p /\ n <= m + q => w <= m + (q + p)
      OBVIOUS
    <3>2. Len(wire) <= before[up] + (calls * PerCall(layer) + PerCall(layer))
      BY <1>1, <2>2, <2>3, <2>4, <3>1
    <3> QED BY <2>4, <3>2
  <2>6. PerCall(layer + 1)' = PerCall(layer) /\ layer' = up /\ attempt'[up] = calls
    BY <2>1 DEF PerCall, Budget, calls
  <2>7. (Len(wire) <= before[layer] + (attempt[layer] + 1) * PerCall(layer + 1))'
    BY <2>5, <2>6
  <2>8. pc' = "result"
    BY <1>5
  <2>9. Counted(before)'
    BY <1>1, <1>3, <2>7, <2>8 DEF Counted
  <2> QED BY <1>1, <2>9 DEF CountInv
<1> QED BY <1>4, <1>5

\* A stack that has made its calls has made no more sends than a call may.
LEMMA WithinCall ==
  ASSUME PowerLaws, TypeOK, NEW before, Counted(before), layer \in Layer,
         NEW calls \in Nat, calls <= Budget + 1,
         Len(wire) <= before[layer] + calls * PerCall(layer + 1)
  PROVE  Len(wire) <= before[layer] + PerCall(layer)
<1> USE StackAssumption
<1>1. /\ layer \in 1 .. Layers + 1 /\ layer + 1 \in 1 .. Layers + 1
      /\ Budget + 1 \in Nat /\ Len(wire) \in Nat
  BY LenProperties DEF Layer, Budget, TypeOK
<1>2. /\ PerCall(layer + 1) \in Nat /\ PerCall(layer) \in Nat
      /\ PerCall(layer) = (Budget + 1) * PerCall(layer + 1)
  BY <1>1, PerCalls
<1>3. before[layer] \in Nat
  BY <1>1 DEF Counted
<1>4. calls * PerCall(layer + 1) \in Nat /\ calls * PerCall(layer + 1) <= PerCall(layer)
  BY <1>1, <1>2, OneCallMore
<1> QED BY <1>1, <1>2, <1>3, <1>4

\* retry.go: the policy is bounded.  Nested stacks count their calls of one
\* another, and the sends of the innermost.
THEOREM CountInvariant ==
  ASSUME PowerLaws
  PROVE  Spec => []CountInv
<1> USE StackAssumption
<1>1. Init => CountInv
  <2> SUFFICES ASSUME Init PROVE CountInv
    OBVIOUS
  <2> DEFINE start == [l \in 1 .. Layers + 1 |-> 0]
  <2>1. layer = 1 /\ pc = "decorate" /\ Len(wire) = 0
    BY DEF Init
  <2>2. 1 \in 1 .. Layers + 1 /\ start \in [1 .. Layers + 1 -> Nat]
    OBVIOUS
  <2>3. PerCall(1) \in Nat
    <3>1. Budget + 1 \in Nat \ {0} /\ Layers + 1 - 1 \in Nat
      BY DEF Budget
    <3> QED BY <3>1 DEF PowerLaws, PerCall
  <2>4. Counted(start)
    BY <2>1, <2>2, <2>3 DEF Counted, Layer
  <2> QED BY <2>2, <2>4 DEF CountInv
<1>2. TypeOK /\ Position /\ CountInv /\ [Next]_vars => CountInv'
  <2> SUFFICES ASSUME TypeOK, Position, CountInv, [Next]_vars PROVE CountInv'
    OBVIOUS
  <2>0. PICK before \in [1 .. Layers + 1 -> Nat] : Counted(before)
    BY DEF CountInv
  <2>1. /\ Len(wire) \in Nat /\ Budget \in Nat
        /\ layer \in Layer => attempt[layer] \in Nat /\ attempt[layer] <= Budget
    BY LenProperties DEF TypeOK, Budget
  <2>2. /\ \A l \in 1 .. Layers + 1 : PerCall(l) \in Nat
        /\ \A l \in Layer : l + 1 \in 1 .. Layers + 1 /\ l \in 1 .. Layers + 1
    BY PerCalls DEF Layer
  <2>3. UNCHANGED method => /\ \A l \in 1 .. Layers + 1 : PerCall(l)' = PerCall(l)
                            /\ PerCall(layer + 1)' = PerCall(layer' + 1)
    BY DEF PerCall, Budget
  <2>4. CASE Decorate
    <3>1. /\ pc = "decorate" /\ pc' = "check" /\ layer \in Layer
          /\ UNCHANGED <<method, layer, wire>>
          /\ attempt' = [attempt EXCEPT ![layer] = 0]
      BY <2>4 DEF Decorate, Position, network
    <3>2. attempt'[layer] = 0 /\ \A l \in Layer : l < layer => attempt'[l] = attempt[l]
      BY <3>1 DEF TypeOK, Layer
    <3>3. before[layer] \in Nat /\ PerCall(layer + 1) \in Nat
      BY <2>2, <3>1
    <3>4. Len(wire) <= before[layer] + 0 * PerCall(layer + 1)
      BY <2>0, <2>1, <3>1, <3>3 DEF Counted
    <3>5. (Len(wire) <= before[layer] + attempt[layer] * PerCall(layer + 1))'
      BY <2>3, <3>1, <3>2, <3>4
    <3>6. Counted(before)'
      BY <2>0, <2>2, <2>3, <3>1, <3>2, <3>5 DEF Counted
    <3> QED BY <3>6 DEF CountInv
  <2>5. CASE Check
    <3>1. /\ pc = "check" /\ layer \in Layer /\ UNCHANGED <<method, attempt, wire>>
      BY <2>5 DEF Check, ReturnUp, Position, request, network
    <3>2. Len(wire) <= before[layer] + attempt[layer] * PerCall(layer + 1)
      BY <2>0, <3>1 DEF Counted
    <3>3. CASE ended
      <4>1. Len(wire) <= before[layer] + PerCall(layer)
        BY <2>0, <2>1, <3>1, <3>2, WithinCall
      <4> QED BY <2>0, <2>2, <2>5, <3>1, <3>3, <4>1, CountReturned DEF Check, ReturnUp
    <3>4. CASE ~ended
      <4> PICK next : next = [before EXCEPT ![layer + 1] = Len(wire)]
        OBVIOUS
      <4>1. /\ layer' = layer + 1
            /\ layer = Layers => pc' = "send"
            /\ layer # Layers => pc' = "decorate"
        BY <2>5, <3>4 DEF Check
      <4>2. /\ next \in [1 .. Layers + 1 -> Nat] /\ next[layer + 1] = Len(wire)
            /\ \A l \in 1 .. Layers + 1 : l <= layer => next[l] = before[l]
        BY <2>1, <2>2, <3>1 DEF Layer
      <4>3. Len(wire) + PerCall(layer + 1) <= PerCall(1)
        <5> DEFINE calls == attempt[layer]
                   below == PerCall(layer + 1)
        <5>1. /\ calls \in Nat /\ calls <= Budget /\ below \in Nat /\ PerCall(1) \in Nat
              /\ before[layer] \in Nat /\ PerCall(layer) = (Budget + 1) * below
          BY <2>1, <2>2, <3>1, PerCalls
        <5>2. before[layer] + PerCall(layer) <= PerCall(1)
          BY <2>0, <2>2, <3>1 DEF Counted, Layer
        <5>3. Len(wire) <= before[layer] + calls * below
          BY <3>2
        <5> HIDE DEF calls, below
        <5>4. /\ calls * below \in Nat /\ calls * below + below = (calls + 1) * below
              /\ (calls + 1) * below <= (Budget + 1) * below
          BY <2>1, <5>1, OneCallMore
        <5> DEFINE sent == calls * below
                   all == (Budget + 1) * below
        <5>5. all \in Nat /\ PerCall(layer) = all /\ sent \in Nat /\ sent + below <= all
          BY <2>1, <5>1, <5>4, OneCallMore
        <5>6. Len(wire) <= before[layer] + sent
          BY <5>3
        <5> HIDE DEF sent, all
        <5>7. \A b, c, m, p, q, w \in Nat :
                w <= b + c /\ c + p <= q /\ b + q <= m => w + p <= m
          OBVIOUS
        <5>8. Len(wire) + below <= PerCall(1)
          BY <2>1, <5>1, <5>2, <5>5, <5>6, <5>7
        <5> QED BY <5>8 DEF below
      <4>4. ASSUME NEW l \in 1 .. Layers + 1, l <= layer'
            PROVE  next[l] + PerCall(l)' <= PerCall(1)'
        <5>1. CASE l = layer + 1
          BY <2>2, <2>3, <3>1, <4>2, <4>3, <5>1
        <5>2. CASE l # layer + 1
          <6>1. l <= layer
            BY <3>1, <4>1, <4>4, <5>2 DEF Layer
          <6> QED BY <2>0, <2>2, <2>3, <3>1, <4>2, <6>1 DEF Counted
        <5> QED BY <5>1, <5>2
      <4>5. ASSUME NEW l \in Layer, l < layer'
            PROVE  next[l + 1] <= next[l] + attempt'[l] * PerCall(l + 1)'
        <5>1. CASE l = layer
          BY <2>2, <2>3, <3>1, <3>2, <4>2, <5>1 DEF Layer
        <5>2. CASE l # layer
          <6>1. l < layer /\ l + 1 <= layer
            BY <3>1, <4>1, <4>5, <5>2 DEF Layer
          <6> QED BY <2>0, <2>2, <2>3, <3>1, <4>2, <6>1 DEF Counted, Layer
        <5> QED BY <5>1, <5>2
      <4>6. pc' \in {"decorate", "send"} /\ Len(wire') <= next[layer']
        BY <2>1, <3>1, <4>1, <4>2
      <4>7. Counted(next)'
        BY <4>2, <4>4, <4>5, <4>6 DEF Counted
      <4> QED BY <4>2, <4>7 DEF CountInv
    <3> QED BY <3>3, <3>4
  <2>6. CASE Judge
    <3>1. /\ pc = "result" /\ layer \in Layer /\ UNCHANGED <<method, wire>>
          /\ Len(wire) <= before[layer] + (attempt[layer] + 1) * PerCall(layer + 1)
      BY <2>0, <2>6 DEF Judge, Position, request, network, Counted
    <3>2. CASE ReturnUp(0) \/ ReturnUp(result)
      <4>1. attempt[layer] + 1 \in Nat /\ attempt[layer] + 1 <= Budget + 1
        BY <2>1, <3>1
      <4>2. Len(wire) <= before[layer] + PerCall(layer)
        BY <2>0, <3>1, <4>1, WithinCall
      <4> QED BY <2>0, <2>2, <3>1, <3>2, <4>2, CountReturned DEF ReturnUp
    <3>3. CASE ~(ReturnUp(0) \/ ReturnUp(result))
      <4>1. /\ pc' \in {"backoff", "drain"} /\ layer' = layer
            /\ attempt' = [attempt EXCEPT ![layer] = @ + 1]
        BY <2>6, <3>3 DEF Judge
      <4>2. /\ attempt'[layer] = attempt[layer] + 1
            /\ \A l \in Layer : l < layer => attempt'[l] = attempt[l]
        BY <3>1, <4>1 DEF TypeOK, Layer
      <4>3. (Len(wire) <= before[layer] + attempt[layer] * PerCall(layer + 1))'
        BY <2>3, <3>1, <4>1, <4>2
      <4>4. Counted(before)'
        BY <2>0, <2>2, <2>3, <3>1, <4>1, <4>2, <4>3 DEF Counted
      <4> QED BY <4>4 DEF CountInv
    <3> QED BY <3>2, <3>3
  <2>7. CASE Drain \/ Backoff \/ Consume \/ ContextEnds \/ UNCHANGED vars
    BY <2>0, <2>7, CountKept DEF Drain, Backoff, Consume, ContextEnds, vars, request,
                                 stack, network
  <2>8. CASE Send
    <3>1. /\ pc = "send" /\ pc' = "wire" /\ layer = Layers + 1
          /\ UNCHANGED <<method, layer, attempt>> /\ Len(wire') = Len(wire) + 1
      BY <2>8, AppendProperties DEF Send, Position, request, TypeOK
    <3>2. before[layer] \in Nat /\ Len(wire) <= before[layer]
      BY <2>0, <3>1 DEF Counted
    <3>3. Counted(before)'
      BY <2>0, <2>1, <2>2, <2>3, <3>1, <3>2 DEF Counted
    <3> QED BY <3>3 DEF CountInv
  <2>9. CASE Respond \/ NetworkError
    <3>1. /\ pc = "wire" /\ pc' = "result" /\ layer = Layers + 1 /\ layer' = layer - 1
          /\ UNCHANGED <<method, attempt>> /\ layer # 1 /\ layer \in 1 .. Layers + 1
      BY <2>9 DEF Respond, NetworkError, Answered, Position
    <3>2. Len(wire') = Len(wire)
      <4>1. PICK a : Answered(a)
        BY <2>9 DEF Respond, NetworkError
      <4>2. wire' = [wire EXCEPT ![Len(wire)].answer = a]
        BY <4>1 DEF Answered
      <4> QED BY <4>2, LenProperties DEF TypeOK
    <3>3. Len(wire) <= before[layer] + PerCall(layer)
      BY <2>0, <3>1, PerCalls DEF Counted
    <3> QED BY <2>0, <3>1, <3>2, <3>3, CountReturned
  <2> QED BY <2>4, <2>5, <2>6, <2>7, <2>8, <2>9 DEF Next
<1> QED BY <1>1, <1>2, TypeCorrect, PTL DEF Spec

\* retry.go: the policy is bounded.  Nested stacks multiply their budgets, and
\* no interleaving of errors and retryable responses exceeds the product.
THEOREM Bounded ==
  ASSUME PowerLaws
  PROVE  Spec => []SendsBounded
<1> USE StackAssumption
<1>1. TypeOK /\ Position /\ CountInv => SendsBounded
  <2> SUFFICES ASSUME TypeOK, Position, CountInv PROVE Len(wire) <= PerCall(1)
    BY PerCalls DEF SendsBounded
  <2>0. PICK before \in [1 .. Layers + 1 -> Nat] : Counted(before)
    BY DEF CountInv
  <2>1. /\ Len(wire) \in Nat /\ Budget \in Nat
        /\ layer \in Layer => attempt[layer] \in Nat /\ attempt[layer] <= Budget
    BY LenProperties DEF TypeOK, Budget
  <2>2. /\ \A l \in 1 .. Layers + 1 : PerCall(l) \in Nat
        /\ layer \in 1 .. Layers + 1 => before[layer] \in Nat /\ layer <= layer
    BY PerCalls
  <2>3. CASE pc \in {"returned", "done"}
    BY <2>0, <2>3 DEF Counted
  <2>4. CASE pc \in {"send", "wire"}
    <3>1. /\ layer \in 1 .. Layers + 1 /\ PerCall(layer) = 1
          /\ Len(wire) <= before[layer] + 1
      BY <2>0, <2>1, <2>2, <2>4, PerCalls DEF Counted, Position
    <3> QED BY <2>0, <2>1, <2>2, <3>1 DEF Counted
  <2>5. CASE layer \in Layer /\ Len(wire) <= before[layer] + PerCall(layer)
    <3>1. layer \in 1 .. Layers + 1
      BY <2>5 DEF Layer
    <3>2. before[layer] + PerCall(layer) <= PerCall(1)
      BY <2>0, <2>2, <3>1 DEF Counted
    <3> QED BY <2>1, <2>2, <2>5, <3>1, <3>2
  <2>6. CASE pc \in {"decorate", "check", "drain", "backoff", "result"}
    <3>1. layer \in Layer /\ layer \in 1 .. Layers + 1 /\ layer + 1 \in 1 .. Layers + 1
      BY <2>6 DEF Position, Layer
    <3>2. CASE pc = "decorate"
      BY <2>0, <2>1, <2>2, <2>5, <3>1, <3>2 DEF Counted
    <3>3. CASE pc \in {"check", "drain", "backoff"}
      BY <2>0, <2>1, <2>5, <3>1, <3>3, WithinCall DEF Counted
    <3>4. CASE pc = "result"
      <4>1. attempt[layer] + 1 \in Nat /\ attempt[layer] + 1 <= Budget + 1
        BY <2>1, <3>1
      <4>2. Len(wire) <= before[layer] + (attempt[layer] + 1) * PerCall(layer + 1)
        BY <2>0, <3>4 DEF Counted
      <4> QED BY <2>0, <2>5, <3>1, <4>1, <4>2, WithinCall
    <3> QED BY <2>6, <3>2, <3>3, <3>4
  <2> QED BY <2>3, <2>4, <2>6 DEF TypeOK
<1> QED BY <1>1, TypeCorrect, CountInvariant, PTL

================================================================================
