------------------------------- MODULE Answers -------------------------------
(***************************************************************************)
(* What the SDK makes of an answer of the gateway: the decoding of the     *)
(* envelope (transport/envelope.go) by the typed calls, RawClient and the  *)
(* two auth flows, the classification of errors (errors.go), and the       *)
(* comparison of versions (zeam.go).  Pure operators, no state.            *)
(*                                                                         *)
(* A body is text that is not JSON, bare JSON that is the payload itself,  *)
(* an envelope, or empty.  An envelope's data is absent, null or the       *)
(* payload, its status 0 when absent, its ok FALSE when absent, and its    *)
(* message may have a code before a colon.  What a decoder delivers is the *)
(* "payload", a "zero" value, or an "error".                               *)
(***************************************************************************)
EXTENDS Integers, Sequences

NoCode == "none"

Bare(form) == [form |-> form, data |-> "absent", status |-> 0, ok |-> FALSE, message |-> "none"]
Envelope == [form : {"envelope"}, data : {"absent", "null", "payload"}, status : {0, 200, 422},
             ok : BOOLEAN, message : {"none", "plain", "coded"}]
Body == {Bare(f) : f \in {"empty", "text", "payload"}} \cup Envelope

Success(code) == code \in 200..299

-----------------------------------------------------------------------------
(* Decoding.                                                               *)

\* json.Unmarshal of some content into the caller's value: an envelope has
\* none of its fields, null sets none.
Unmarshal(content) ==
  CASE content = "payload" -> "payload"
    [] content \in {"envelope", "null"} -> "zero"
    [] content \in {"empty", "text"} -> "error"

\* Fault: the envelope is passed on as it came.
FaultyUnwrap(body) == body.form

\* transport.Unwrap of a 2xx answer: the data of an envelope, or the body as it
\* is.  A null data is the RawMessage "null", which is not nil.
Unwrap(body) ==
  IF body.form = "envelope" /\ body.status >= 200 /\ body.data # "absent"
  THEN body.data ELSE body.form

\* client.Call: an empty answer leaves out as it was.
CallOutcome(code, body) ==
  IF ~Success(code) THEN "error"
  ELSE IF Unwrap(body) = "empty" THEN "zero" ELSE Unmarshal(Unwrap(body))

\* RawClient returns the bytes, whatever they are.
RawOutcome(code, body) == IF Success(code) THEN Unwrap(body) ELSE "error"

\* OTPFlow.post has an envelope of its own, {ok, data}.
OTPOutcome(code, body) ==
  IF ~Success(code) THEN "error"
  ELSE IF body.form = "envelope" /\ body.ok /\ body.data # "absent"
       THEN Unmarshal(body.data) ELSE Unmarshal(body.form)

\* SEP10Flow decodes bare JSON.
SEP10Outcome(code, body) == IF Success(code) THEN Unmarshal(body.form) ELSE "error"

-----------------------------------------------------------------------------
(* Errors.                                                                 *)

Kinds == {"unknown", "validation", "auth", "authz", "not_found", "conflict", "transient", "remote"}

\* Fault: the range of 5xx is looked at first.
FaultyKindFromStatus(code) ==
  CASE code \in {400, 422} -> "validation"
    [] code = 401 -> "auth" [] code = 403 -> "authz"
    [] code = 404 -> "not_found" [] code = 409 -> "conflict"
    [] code \in {408, 429} -> "transient"
    [] code \in 500..599 -> "remote"
    [] OTHER -> "unknown"

KindFromStatus(code) ==
  CASE code \in {400, 422} -> "validation"
    [] code = 401 -> "auth" [] code = 403 -> "authz"
    [] code = 404 -> "not_found" [] code = 409 -> "conflict"
    [] code \in {408, 429, 503, 504} -> "transient"
    [] code \in (500..599) \ {503, 504} -> "remote"
    [] OTHER -> "unknown"

\* Unwrap of any other answer: the error's code is the message up to its colon.
CodeOf(body) == IF body.message = "coded" THEN "coded" ELSE NoCode

\* toError, for RawClient.
ErrorOf(code, body) == [code |-> CodeOf(body), kind |-> KindFromStatus(code)]

\* Error.Is against another *Error: by code if the target has one, else by kind.
IsError(err, target) ==
  IF target.code # NoCode THEN err.code = target.code
  ELSE target.kind # "unknown" /\ err.kind = target.kind

\* Error.Is against a Kind.
IsKind(err, kind) == err.kind = kind

\* The sentinels: an *Error of a kind, without code.  There is none for authz.
Sentinel(kind) == [code |-> NoCode, kind |-> kind]
Sentinels == Kinds \ {"unknown", "authz"}

\* The statuses the transport retries a read for.
RetryableStatus == {408, 429, 502, 503, 504}

-----------------------------------------------------------------------------
(* Versions: a sequence of at most three segments, where NaN is a segment  *)
(* that does not begin with digits.                                        *)

NaN == -1
MinGatewayVersion == <<0, 1, 0>>

\* Missing and unreadable segments count as zero.
Split(v) == [i \in 1..3 |-> IF i <= Len(v) /\ v[i] # NaN THEN v[i] ELSE 0]

\* Fault: the last segment that differs decides.
FaultyCompareSemver(a, b) ==
  LET differ == {i \in 1..3 : Split(a)[i] # Split(b)[i]}
      last == CHOOSE i \in differ : \A j \in differ : i >= j
  IN IF differ = {} THEN 0 ELSE Split(a)[last] - Split(b)[last]

\* The first segment that differs decides.
CompareSemver(a, b) ==
  LET differ == {i \in 1..3 : Split(a)[i] # Split(b)[i]}
      first == CHOOSE i \in differ : \A j \in differ : i <= j
  IN IF differ = {} THEN 0 ELSE Split(a)[first] - Split(b)[first]
==============================================================================
