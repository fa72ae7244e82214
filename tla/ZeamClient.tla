------------------------------ MODULE ZeamClient ------------------------------
(***************************************************************************)
(* Package zeam: the construction of a Client from options, its accessors  *)
(* that build the sub-clients on first use, the version handshake, and the *)
(* raw and typed calls, by the goroutines that share one Client.           *)
(*                                                                         *)
(* A goroutine runs one operation op[p] at a time and stands at pc[p].     *)
(* A request ends with an answer, or fails: the network, the caller's      *)
(* context, a timeout.                                                     *)
(***************************************************************************)
EXTENDS Answers, FiniteSets, SequencesExt

CONSTANTS Proc,
          Operation,   \* what each goroutine may begin
          OptionList,  \* the option lists New is called with
          AllowInsecure,  \* ZEAM_SDK_ALLOW_INSECURE is "1"
          Answer,      \* <<status, body>> of the answers to a call
          Version      \* versions a gateway reports (<<>>: none)

ASSUME ClientAssumption == /\ AllowInsecure \in BOOLEAN
                           /\ \A a \in Answer : a[1] \in Nat /\ a[2] \in Body
                           /\ \A v \in Version : v \in Seq(Nat \cup {NaN})
                           /\ Proc \cap {"none", "own"} = {}

VARIABLES
  cfg,      \* the configuration of the Client (NoConfig before New succeeds)
  lazyOnce, \* lazy.once: "new", "running" or "done"
  store,    \* lazy.store, named by the goroutine that built it ("own": the partner's)
  verOnce,  \* versionOnce
  verdict,  \* versionErr, and "unset" before the handshake
  seen,     \* the version the handshake was told
  pc, op,
  handle,   \* the store an accessor gave the goroutine ("none")
  heard     \* what Ping has told the goroutine ("none")

shared == <<cfg, lazyOnce, store, verOnce, verdict, seen>>
local == <<pc, op, handle, heard>>
clientVars == <<shared, local>>

Config == [base : {"https", "http", "other", "none"}, insecure : {"yes", "no"},
           http : {"default", "bounded", "unbounded"}, timeout : {"positive", "zero"},
           skip : {"yes", "no"}, store : {"memory", "own"}]
\* The production environment, https, thirty seconds, a MemoryStore.
DefaultConfig == [base |-> "https", insecure |-> "no", http |-> "default",
                  timeout |-> "positive", skip |-> "no", store |-> "memory"]
NoConfig == [DefaultConfig EXCEPT !.base = "none"]
Once == {"new", "running", "done"}
Verdict == {"compatible", "incompatible", "failed"}
ClientPC == {"idle", "lazy", "build", "ready", "once", "probe", "sent"}
Handle == Proc \cup {"own", "none"}

ClientShape(PC) ==
  /\ cfg \in Config
  /\ lazyOnce \in Once /\ verOnce \in Once /\ store \in Handle
  /\ verdict \in Verdict \cup {"unset"} /\ seen \in Seq(Nat \cup {NaN})
  /\ pc \in [Proc -> PC] /\ op \in [Proc -> (UNION {Operation[p] : p \in Proc}) \cup {"none"}]
  /\ handle \in [Proc -> Handle]
  /\ heard \in [Proc -> Verdict \cup {"none", "skipped"}]

\* Nobody goes on before there is a store.
StoreReady == \A p \in Proc : pc[p] = "ready" => store # "none"

Init ==
  /\ cfg = NoConfig /\ lazyOnce = "new" /\ store = "none"
  /\ verOnce = "new" /\ verdict = "unset" /\ seen = <<>>
  /\ pc = [p \in Proc |-> "idle"] /\ op = [p \in Proc |-> "none"]
  /\ handle = [p \in Proc |-> "none"] /\ heard = [p \in Proc |-> "none"]

Goto(p, l) == pc' = [pc EXCEPT ![p] = l]

-----------------------------------------------------------------------------
(* New.                                                                    *)

\* An option sets one field; a nil option is passed over.  (Those that set what
\* is logged, signed, pinned or sent in a header are like the ones modelled.)
Apply(c, o) == IF o.field = "nil" THEN c ELSE [c EXCEPT ![o.field] = o.value]

\* Options are applied in order, a later one wins.
Configure(list) == FoldLeft(Apply, DefaultConfig, list)

\* The options leave a configuration: Go's types see to it.
ASSUME OptionAssumption == \A list \in OptionList : Configure(list) \in Config

\* https, or http when both the option and the environment variable permit it.
BaseAccepted(c) == \/ c.base = "https"
                   \/ c.base = "http" /\ c.insecure = "yes" /\ AllowInsecure

New(list) ==
  /\ cfg = NoConfig /\ BaseAccepted(Configure(list))
  /\ cfg' = Configure(list)
  /\ UNCHANGED <<lazyOnce, store, verOnce, verdict, seen, local>>

\* The http.Client New was given, or makes, ends a request by itself.
Bounded(c) == IF c.http = "default" THEN c.timeout = "positive" ELSE c.http = "bounded"

-----------------------------------------------------------------------------
(* The accessors: lazyInit.                                                *)

\* An operation begins with an accessor, except Ping, Raw and a call through a
\* sub-client the partner already has.
Begin(p, o) ==
  /\ pc[p] = "idle" /\ cfg # NoConfig /\ o \in Operation[p]
  /\ op' = [op EXCEPT ![p] = o]
  /\ Goto(p, CASE o = "ping" -> IF cfg.skip = "yes" THEN "idle" ELSE "once"
               [] o = "raw" -> "sent"
               [] OTHER -> "lazy")
  /\ heard' = [heard EXCEPT ![p] = IF o = "ping" /\ cfg.skip = "yes" THEN "skipped" ELSE @]
  /\ UNCHANGED <<shared, handle>>

\* Fault: no Once, whoever finds no store builds.
FaultyLazyFirst(p) ==
  /\ pc[p] = "lazy" /\ store = "none"
  /\ lazyOnce' = "running" /\ Goto(p, "build")
  /\ UNCHANGED <<cfg, store, verOnce, verdict, seen, op, handle, heard>>

\* sync.Once: the first caller builds, the others wait for it.
LazyFirst(p) ==
  /\ pc[p] = "lazy" /\ lazyOnce = "new"
  /\ lazyOnce' = "running" /\ Goto(p, "build")
  /\ UNCHANGED <<cfg, store, verOnce, verdict, seen, op, handle, heard>>

\* Fault: without a configured store there is none.
FaultyLazyBuild(p) ==
  /\ pc[p] = "build"
  /\ LET built == IF cfg.store = "own" THEN "own" ELSE "none" IN
     store' = built /\ handle' = [handle EXCEPT ![p] = built]
  /\ lazyOnce' = "done" /\ Goto(p, "ready")
  /\ UNCHANGED <<cfg, verOnce, verdict, seen, op, heard>>

\* The configured store or a new MemoryStore, the flows and the sub-clients.
LazyBuild(p) ==
  /\ pc[p] = "build"
  /\ LET built == IF cfg.store = "own" THEN "own" ELSE p IN
     store' = built /\ handle' = [handle EXCEPT ![p] = built]
  /\ lazyOnce' = "done" /\ Goto(p, "ready")
  /\ UNCHANGED <<cfg, verOnce, verdict, seen, op, heard>>

LazyDone(p) ==
  /\ pc[p] = "lazy" /\ lazyOnce = "done"
  /\ handle' = [handle EXCEPT ![p] = store] /\ Goto(p, "ready")
  /\ UNCHANGED <<shared, op, heard>>

-----------------------------------------------------------------------------
(* Ping.                                                                   *)

\* Fault: the verdict is looked at before the Once is done.
FaultyPingLater(p) ==
  /\ pc[p] = "once" /\ verOnce # "new"
  /\ heard' = [heard EXCEPT ![p] = IF verdict = "unset" THEN "compatible" ELSE verdict]
  /\ Goto(p, "idle")
  /\ UNCHANGED <<shared, op, handle>>

\* versionOnce is done: its result is everybody's.
PingLater(p) ==
  /\ pc[p] = "once" /\ verOnce = "done"
  /\ heard' = [heard EXCEPT ![p] = verdict] /\ Goto(p, "idle")
  /\ UNCHANGED <<shared, op, handle>>

\* The first caller sends GET /healthz with its own context; the others wait.
PingFirst(p) ==
  /\ pc[p] = "once" /\ verOnce = "new"
  /\ verOnce' = "running" /\ Goto(p, "probe")
  /\ UNCHANGED <<cfg, lazyOnce, store, verdict, seen, op, handle, heard>>

\* What ping makes of a 200 answer with version v (<<>>: no JSON, no version).
Judge(v) == IF v = <<>> THEN "incompatible"
            ELSE IF CompareSemver(v, MinGatewayVersion) < 0 THEN "incompatible"
            ELSE "compatible"

\* Fault: a handshake that failed is tried again, for as long as it takes.
FaultyVerdictIs(p, r, v) ==
  /\ pc[p] = "probe" /\ Goto(p, IF r = "failed" THEN "once" ELSE "idle")
  /\ verOnce' = (IF r = "failed" THEN "new" ELSE "done")
  /\ IF r = "failed" THEN UNCHANGED <<verdict, seen, heard>>
     ELSE verdict' = r /\ seen' = v /\ heard' = [heard EXCEPT ![p] = r]
  /\ UNCHANGED <<cfg, lazyOnce, store, op, handle>>

\* The handshake is over, once and for all, and the first caller returns.
VerdictIs(p, r, v) ==
  /\ pc[p] = "probe" /\ Goto(p, "idle")
  /\ verOnce' = "done" /\ verdict' = r /\ seen' = v
  /\ heard' = [heard EXCEPT ![p] = r]
  /\ UNCHANGED <<cfg, lazyOnce, store, op, handle>>

ProbeAnswered(p) == \E v \in Version : VerdictIs(p, Judge(v), v)

\* No answer, an answer cut off, or a status other than 200.
ProbeFails(p) == VerdictIs(p, "failed", <<>>)

-----------------------------------------------------------------------------
(* RawClient.do and client.Call without a session.                         *)

Return(p) == Goto(p, "idle") /\ UNCHANGED <<shared, op, handle, heard>>

\* The accessor's caller has what it asked for.
StoreGiven(p) == pc[p] = "ready" /\ op[p] = "store" /\ Return(p)

TypedSend(p) ==
  /\ pc[p] = "ready" /\ op[p] = "typed" /\ Goto(p, "sent")
  /\ UNCHANGED <<shared, op, handle, heard>>

\* A raw call without a deadline gets the client's timeout; a typed one does not.
CallEnds(p) == Bounded(cfg) \/ op[p] = "raw"

\* The answer is decoded and returned; or the request fails, or was never sent.
CallReturns(p) == pc[p] = "sent" /\ Return(p)

-----------------------------------------------------------------------------
\* What a goroutine does by itself, and the handshake.
Running(p) == \/ LazyFirst(p) \/ LazyBuild(p) \/ LazyDone(p)
              \/ PingFirst(p) \/ PingLater(p) \/ StoreGiven(p) \/ TypedSend(p)
Probing(p) == ProbeAnswered(p) \/ ProbeFails(p)

ClientStep(p) == Running(p) \/ Probing(p) \/ CallReturns(p)
Construct == \E list \in OptionList : New(list)
-----------------------------------------------------------------------------
(* What the client promises.                                               *)

\* zeam.go, "It runs at most once per client": every goroutine that has heard
\* from Ping has heard the one verdict, and nobody before it was known.
OneVerdict == \A p \in Proc : heard[p] \notin {"none", "skipped"} => heard[p] = verdict

\* MinGatewayVersion, "refuses gateways older than this": nil from a handshake
\* means the gateway that answered is not older: it has no smaller segment after
\* segments that are all the same, however large the numbers.
Compatible ==
  LET older(v, w) == \E i \in 1..3 : v[i] < w[i] /\ \A j \in 1..(i - 1) : v[j] = w[j] IN
  (\E p \in Proc : heard[p] = "compatible") => ~older(Split(seen), Split(MinGatewayVersion))

\* A caller of Ping returns, the one that asks the gateway and those behind the
\* Once, as long as the http.Client bounds its requests.
PingReturns ==
  \A p \in Proc : cfg # NoConfig /\ Bounded(cfg) /\ pc[p] \in {"once", "probe"} ~> pc[p] = "idle"

\* transport/envelope.go, as RawClient and the typed sub-clients use it: whatever
\* comes back while such a call is out, its caller gets the payload that the gateway wrapped in its envelope or
\* sent bare, and is not told of a payload when there was none.
PayloadDelivered ==
  LET outcome(how, a) == IF how = "raw" THEN RawOutcome(a[1], a[2]) ELSE CallOutcome(a[1], a[2])
      sent(a) == Success(a[1]) /\ "payload" \in {a[2].form, a[2].data}
      asWrapped(a) == a[2].form = "payload" \/ a[2].status = 200
  IN \A p \in Proc : pc[p] = "sent" =>
       \A a \in Answer : /\ sent(a) /\ asWrapped(a) => outcome(op[p], a) = "payload"
                         /\ outcome(op[p], a) = "payload" => sent(a)

\* docs/errors.md, the table of statuses.
Row(k) ==
  CASE k = "validation" -> {400, 422} [] k = "auth" -> {401} [] k = "authz" -> {403}
    [] k = "not_found" -> {404} [] k = "conflict" -> {409}
    [] k = "transient" -> {408, 429, 503, 504} [] k = "remote" -> (500..599) \ {503, 504}

\* docs/errors.md: the error a raw call returns, with or without a code, matches
\* by errors.Is the Kind and the sentinel of its status's row and no other, and
\* what is called transient is what the transport has retried.
ErrorsAsDocumented ==
  \A p \in Proc : pc[p] = "sent" /\ op[p] = "raw" =>
    \A a \in Answer : ~Success(a[1]) =>
      LET err == ErrorOf(a[1], a[2]) IN
      /\ \A k \in Kinds \ {"unknown"} : IsKind(err, k) <=> a[1] \in Row(k)
      /\ \A k \in Sentinels : IsError(err, Sentinel(k)) <=> a[1] \in Row(k)
      /\ IsKind(err, "transient") => a[1] \in RetryableStatus
==============================================================================
