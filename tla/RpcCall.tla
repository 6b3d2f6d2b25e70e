------------------------------ MODULE RpcCall ------------------------------
(***************************************************************************)
(* One call to the server over HTTP (service.c): thread_svc_callsvr starts *)
(* a worker thread, counts seconds down while it polls the worker's state, *)
(* and joins it; the worker, ecard_callsvr or api_callsvr, makes one HTTP  *)
(* request and leaves a state and a result code in the caller's context,   *)
(* one after the other and without a lock.                                 *)
(***************************************************************************)
EXTENDS Naturals

CONSTANT MaxTicks \* svc_timeout: how many ticks the caller polls at most

ASSUME MaxTicksAssumption == MaxTicks \in Nat

VARIABLES
  cpc,     \* the caller: "idle", "create", "poll", "join", "returned"
  ticks,   \* its countdown
  result,  \* what thread_svc_callsvr returned
  wpc,     \* the worker thread
  kind,    \* which worker: "ecard" or "api"
  state,   \* ctx->state
  retcode, \* ctx->retcode
  outcome, \* the worker's verdict, before it is in the context
  timedOut,\* p16pos.last_trans_timeout
  request  \* the request of this call: "none", "sent" or "served"

callerVars == <<cpc, ticks, result>>
workerVars == <<wpc, kind, outcome>>
ctx == <<state, retcode>>
vars == <<callerVars, workerVars, ctx, timedOut, request>>

-----------------------------------------------------------------------------
Codes == {"SVC_OK", "SVC_FAILED", "SVC_TIMEOUT"}

\* memset leaves 0; the polling loop compares with STATE_SUCCESS.
States == {"ZERO", "CALL", "SUCCESS", "ERROR"}
Final == {"SUCCESS", "ERROR"}

WorkerPcs == {"none", "parameter", "request", "http", "info", "parse", "state", "code", "exit"}
WorkerRuns == wpc \notin {"none", "exit"}

\* The worker is through: only the context is left to be written.
Verdict(code) ==
  /\ wpc' = "state"
  /\ outcome' = code

-----------------------------------------------------------------------------
(* The caller.                                                             *)

\* A context of zeros; SVC_OK is 0.
Begin(k) ==
  /\ cpc = "idle"
  /\ cpc' = "create"
  /\ kind' = k /\ wpc' = "none"
  /\ state' = "ZERO" /\ retcode' = "SVC_OK"
  /\ request' = "none"
  /\ UNCHANGED <<ticks, result, outcome, timedOut>>

Create ==
  /\ cpc = "create"
  /\ cpc' = "poll"
  /\ ticks' = MaxTicks
  /\ wpc' = IF kind = "ecard" THEN "parameter" ELSE "request"
  /\ UNCHANGED <<result, kind, outcome, ctx, timedOut, request>>

CreateFails ==
  /\ cpc = "create"
  /\ cpc' = "returned"
  /\ result' = "SVC_FAILED"
  /\ UNCHANGED <<ticks, workerVars, ctx, timedOut, request>>

Tick ==
  /\ cpc = "poll" /\ state \notin Final /\ ticks > 0
  /\ ticks' = ticks - 1
  /\ UNCHANGED <<cpc, result, workerVars, ctx, timedOut, request>>

PollEnds ==
  /\ cpc = "poll"
  /\ state \in Final \/ ticks = 0
  /\ cpc' = "join"
  /\ UNCHANGED <<ticks, result, workerVars, ctx, timedOut, request>>

\* Mutant: no pthread_join after the loop.
JoinNobody ==
  /\ cpc = "join"
  /\ cpc' = "returned"
  /\ result' = IF state \in Final THEN retcode ELSE "SVC_FAILED"
  /\ UNCHANGED <<ticks, workerVars, ctx, timedOut, request>>

Join ==
  /\ cpc = "join" /\ wpc = "exit"
  /\ cpc' = "returned"
  /\ result' = IF state \in Final THEN retcode ELSE "SVC_FAILED"
  /\ UNCHANGED <<ticks, workerVars, ctx, timedOut, request>>

\* The flow goes on; it may call again.
Resume ==
  /\ cpc = "returned"
  /\ cpc' = "idle"
  /\ UNCHANGED <<ticks, result, workerVars, ctx, timedOut, request>>

-----------------------------------------------------------------------------
(* The worker.                                                             *)

ParameterOk ==
  /\ wpc = "parameter"
  /\ wpc' = "request"
  /\ state' = "CALL"
  /\ UNCHANGED <<callerVars, kind, outcome, retcode, timedOut, request>>

ParameterFails ==
  /\ wpc = "parameter"
  /\ Verdict("SVC_FAILED")
  /\ UNCHANGED <<callerVars, kind, ctx, timedOut, request>>

\* curl_easy_perform; whether the request gets out is seen in what follows.
Perform ==
  /\ wpc = "request"
  /\ wpc' = "http"
  /\ request' = "sent"
  /\ UNCHANGED <<callerVars, kind, outcome, ctx, timedOut>>

HttpAnswered ==
  /\ wpc = "http" /\ request = "served"
  /\ wpc' = "info"
  /\ UNCHANGED <<callerVars, kind, outcome, ctx, timedOut, request>>

\* Any error but a time-out, before or after the server had the request; so
\* too an answer that cannot be converted (iconv).
HttpFailed ==
  /\ wpc = "http"
  /\ timedOut' = 0
  /\ Verdict("SVC_FAILED")
  /\ UNCHANGED <<callerVars, kind, ctx, request>>

\* Mutant: curl is given no CURLOPT_TIMEOUT.
HttpWaits ==
  /\ wpc = "http" /\ request = "served"
  /\ timedOut' = 1
  /\ Verdict("SVC_TIMEOUT")
  /\ UNCHANGED <<callerVars, kind, ctx, request>>

\* Mutant: the flag is left to the caller.
HttpTimeoutUnnoted ==
  /\ wpc = "http"
  /\ Verdict(IF kind = "ecard" THEN "SVC_TIMEOUT" ELSE "SVC_FAILED")
  /\ UNCHANGED <<callerVars, kind, ctx, timedOut, request>>

\* CURLOPT_TIMEOUT.  api_callsvr makes SVC_FAILED of every failure.
HttpTimeout ==
  /\ wpc = "http"
  /\ timedOut' = 1
  /\ Verdict(IF kind = "ecard" THEN "SVC_TIMEOUT" ELSE "SVC_FAILED")
  /\ UNCHANGED <<callerVars, kind, ctx, request>>

InfoOk ==
  /\ wpc = "info"
  /\ wpc' = "parse"
  /\ timedOut' = 0
  /\ UNCHANGED <<callerVars, kind, outcome, ctx, request>>

\* curl_easy_getinfo fails: an early return that leaves the flag alone.
InfoFails ==
  /\ wpc = "info"
  /\ Verdict("SVC_FAILED")
  /\ UNCHANGED <<callerVars, kind, ctx, timedOut, request>>

Parse ==
  /\ wpc = "parse"
  /\ \E code \in {"SVC_OK", "SVC_FAILED"} : Verdict(code)
  /\ UNCHANGED <<callerVars, kind, ctx, timedOut, request>>

WriteState ==
  /\ wpc = "state"
  /\ wpc' = "code"
  /\ state' = IF outcome = "SVC_OK" THEN "SUCCESS" ELSE "ERROR"
  /\ UNCHANGED <<callerVars, kind, outcome, retcode, timedOut, request>>

WriteRetcode ==
  /\ wpc = "code"
  /\ wpc' = "exit"
  /\ retcode' = outcome
  /\ UNCHANGED <<callerVars, kind, outcome, state, timedOut, request>>

\* The server, at any time, also when nobody waits for the answer any more.
\* A request that was not served when the next call starts is lost.
Serve ==
  /\ request = "sent"
  /\ request' = "served"
  /\ UNCHANGED <<callerVars, workerVars, ctx, timedOut>>

-----------------------------------------------------------------------------
Init ==
  /\ cpc = "idle" /\ ticks = MaxTicks /\ result = "SVC_OK"
  /\ wpc = "none" /\ kind = "ecard" /\ outcome = "SVC_OK"
  /\ state = "ZERO" /\ retcode = "SVC_OK"
  /\ timedOut = 0 /\ request = "none"

Wait == Create \/ CreateFails \/ Tick \/ PollEnds \/ Join

CallerNext == (\E k \in {"ecard", "api"} : Begin(k)) \/ Wait \/ Resume

WorkerNext ==
  \/ ParameterOk \/ ParameterFails \/ Perform
  \/ HttpAnswered \/ HttpTimeout
  \/ InfoOk \/ InfoFails \/ Parse
  \/ WriteState \/ WriteRetcode

Next == CallerNext \/ WorkerNext \/ HttpFailed \/ Serve

Spec == Init /\ [][Next]_vars

\* Both threads are scheduled; the worker waits for the server no longer than
\* CURLOPT_TIMEOUT.  The server need not answer and the connection need not
\* fail.
Fairness == WF_vars(Wait) /\ WF_vars(WorkerNext)

FairSpec == Spec /\ Fairness

-----------------------------------------------------------------------------
TypeOK ==
  /\ cpc \in {"idle", "create", "poll", "join", "returned"}
  /\ ticks \in 0..MaxTicks
  /\ result \in Codes
  /\ wpc \in WorkerPcs
  /\ kind \in {"ecard", "api"}
  /\ state \in States /\ retcode \in Codes
  /\ outcome \in Codes
  /\ timedOut \in {0, 1}
  /\ request \in {"none", "sent", "served"}

\* Each thread's place and what it has left in the context by then.  The
\* context lives on the caller's stack: no worker may be left that writes into
\* it once the call has returned (service.c:750).
ContextInv ==
  /\ cpc \in {"poll", "join"} => wpc # "none"
  /\ WorkerRuns => cpc \in {"poll", "join"}
  /\ cpc = "create" => wpc = "none" /\ state = "ZERO"
  /\ wpc \in {"none", "parameter", "request"} => request = "none"
  /\ wpc \in {"parameter", "request", "http", "info", "parse", "state"} => state \notin Final
  /\ wpc \in {"code", "exit"} => state = IF outcome = "SVC_OK" THEN "SUCCESS" ELSE "ERROR"
  /\ wpc = "exit" => retcode = outcome
  /\ wpc \in {"info", "parse"} => request = "served"
  /\ wpc = "parse" => timedOut = 0
  /\ wpc \in {"state", "code", "exit"} /\ outcome = "SVC_OK" => request = "served" /\ timedOut = 0
  /\ wpc \in {"state", "code", "exit"} /\ outcome = "SVC_TIMEOUT" => timedOut = 1

RpcInv == TypeOK /\ ContextInv

\* The call returns what the worker found, although the caller may leave its
\* loop between the two writes of the worker (state, then result code), and
\* although its countdown may end first (service.c:655-670, 744-755).
ReturnsVerdict ==
  cpc = "returned" /\ wpc # "none" => result = outcome

\* To the flows a call is one request carried out or not and one result.
Atomic == INSTANCE AtomicCall WITH
  phase <- IF cpc \in {"create", "poll", "join"} THEN "called" ELSE cpc,
  served <- request = "served",
  flag <- timedOut

ImplementsAtomicCall == Atomic!Spec

\* A call comes back even when the server never answers, and not because of
\* the countdown, which pthread_join outlasts (service.c:732-750).
CallReturns == cpc = "create" ~> cpc = "returned"
=============================================================================
