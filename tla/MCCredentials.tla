---------------------------- MODULE MCCredentials ----------------------------
(* A Client with two goroutines: one runs the recipes, the other asks for  *)
(* the store and makes calls; both ping.                                   *)
EXTENDS Credentials, TLC

CONSTANTS p1, p2

Operations == (p1 :> {"ping"} \cup Recipe) @@ (p2 :> {"ping", "raw", "typed", "store", "otpLogin"})

Set(f, v) == [field |-> f, value |-> v]

\* The default; a partner's store and a client without timeout; a plain base
\* without leave, and with it, a limit taken back and the handshake skipped.
OptionLists ==
  { <<>>,
    <<Set("store", "own"), Set("timeout", "zero")>>,
    <<Set("base", "http")>>,
    <<Set("nil", "nil"), Set("base", "http"), Set("insecure", "yes"), Set("skip", "yes"),
      Set("timeout", "zero"), Set("timeout", "positive")>> }

\* The bodies that come with a success, and those the errors are told by.
Answers == ({200} \X Body)
           \cup ({400, 401, 403, 404, 408, 409, 418, 422, 429, 500, 502, 503, 504, 599}
                 \X {Bare("text"), [Bare("text") EXCEPT !.form = "envelope", !.message = "coded"]})

\* None, unreadable, too old whatever its third segment, the least one that is
\* new enough, in short, and a newer one.
Versions == { <<>>, <<NaN>>, <<0, 0, 12>>, <<0, 1>>, <<0, 2, NaN>> }
==============================================================================
