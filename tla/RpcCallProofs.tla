--------------------------- MODULE RpcCallProofs ---------------------------
(***************************************************************************)
(* Theorems about the call over HTTP, for any countdown: the context is    *)
(* written by one thread at a time and complete when the caller returns,   *)
(* and caller and worker implement the atomic call.                        *)
(***************************************************************************)
EXTENDS RpcCall, TLAPS

-----------------------------------------------------------------------------
LEMMA InitEstablishes == Init => RpcInv
  BY MaxTicksAssumption
  DEF Init, RpcInv, TypeOK, ContextInv, Codes, States, Final, WorkerPcs, WorkerRuns

\* The steps of the caller.
LEMMA CallerKeeps ==
  ASSUME RpcInv, CallerNext
  PROVE  RpcInv'
<1> USE MaxTicksAssumption
<1> USE DEF RpcInv, TypeOK, ContextInv, Codes, States, Final, WorkerPcs, WorkerRuns,
            callerVars, workerVars, ctx
<1>1. ASSUME NEW k \in {"ecard", "api"}, Begin(k)
      PROVE  RpcInv'
  BY <1>1 DEF Begin
<1>2. CASE Create
  <2>1. wpc' \in {"parameter", "request"}
    BY <1>2 DEF Create
  <2> QED BY <1>2, <2>1 DEF Create
<1>3. CASE CreateFails
  BY <1>3 DEF CreateFails
<1>4. CASE Tick
  BY <1>4 DEF Tick
<1>5. CASE PollEnds
  BY <1>5 DEF PollEnds
<1>6. CASE Join
  BY <1>6 DEF Join
<1>7. CASE Resume
  BY <1>7 DEF Resume
<1> QED BY <1>1, <1>2, <1>3, <1>4, <1>5, <1>6, <1>7 DEF CallerNext, Wait

\* The steps of the worker and of the server.
LEMMA WorkerKeeps ==
  ASSUME RpcInv, WorkerNext \/ HttpFailed \/ Serve
  PROVE  RpcInv'
<1> USE DEF RpcInv, TypeOK, ContextInv, Codes, States, Final, WorkerPcs, WorkerRuns,
            callerVars, workerVars, ctx, Verdict
<1>1. CASE ParameterOk
  BY <1>1 DEF ParameterOk
<1>2. CASE ParameterFails
  BY <1>2 DEF ParameterFails
<1>3. CASE Perform
  BY <1>3 DEF Perform
<1>4. CASE HttpAnswered
  BY <1>4 DEF HttpAnswered
<1>5. CASE HttpTimeout \/ HttpFailed
  BY <1>5 DEF HttpTimeout, HttpFailed
<1>6. CASE InfoOk
  BY <1>6 DEF InfoOk
<1>7. CASE InfoFails
  BY <1>7 DEF InfoFails
<1>8. CASE Parse
  BY <1>8 DEF Parse
<1>9. CASE WriteState
  BY <1>9 DEF WriteState
<1>10. CASE WriteRetcode
  BY <1>10 DEF WriteRetcode
<1>11. CASE Serve
  BY <1>11 DEF Serve
<1> QED
  BY <1>1, <1>2, <1>3, <1>4, <1>5, <1>6, <1>7, <1>8, <1>9, <1>10, <1>11 DEF WorkerNext

LEMMA StutterKeeps ==
  ASSUME RpcInv, UNCHANGED vars
  PROVE  RpcInv'
  BY DEF RpcInv, TypeOK, ContextInv, Final, WorkerRuns, vars, callerVars, workerVars, ctx

\* No worker is left that writes into the context of a call that returned, and
\* what each has written by then is what the other relies on (service.c:750).
THEOREM ContextInvariant == Spec => []RpcInv
<1>1. RpcInv /\ [Next]_vars => RpcInv'
  BY CallerKeeps, WorkerKeeps, StutterKeeps DEF Next
<1> QED BY InitEstablishes, <1>1, PTL DEF Spec

-----------------------------------------------------------------------------
(* The result.                                                             *)

\* Once the worker is through, its verdict is what the caller will return.
VerdictInv == RpcInv /\ ReturnsVerdict

LEMMA VerdictStep ==
  ASSUME VerdictInv, [Next]_vars
  PROVE  VerdictInv'
<1>1. RpcInv'
  BY CallerKeeps, WorkerKeeps, StutterKeeps DEF VerdictInv, Next
<1> USE DEF VerdictInv, ReturnsVerdict, RpcInv, TypeOK, ContextInv, Codes, Final, WorkerPcs,
            WorkerRuns, callerVars, workerVars, ctx
<1>2. CASE \E k \in {"ecard", "api"} : Begin(k)
  BY <1>1, <1>2 DEF Begin
<1>3. CASE Wait
  BY <1>1, <1>3 DEF Wait, Create, CreateFails, Tick, PollEnds, Join
<1>4. CASE Resume \/ Serve
  BY <1>1, <1>4 DEF Resume, Serve
<1>5. CASE WorkerNext \/ HttpFailed
  BY <1>1, <1>5
  DEF WorkerNext, ParameterOk, ParameterFails, Perform, HttpAnswered, HttpTimeout, HttpFailed,
      InfoOk, InfoFails, Parse, WriteState, WriteRetcode, Verdict
<1>6. CASE UNCHANGED vars
  BY <1>1, <1>6 DEF vars
<1> QED BY <1>2, <1>3, <1>4, <1>5, <1>6 DEF Next, CallerNext

\* Whatever the caller's countdown and the worker's two writes do, the call
\* returns the worker's verdict (service.c:655-670, 744-755).
THEOREM VerdictReturned == Spec => []ReturnsVerdict
<1>1. Init => VerdictInv
  BY InitEstablishes DEF VerdictInv, ReturnsVerdict, Init
<1>2. VerdictInv /\ [Next]_vars => VerdictInv'
  BY VerdictStep
<1>3. VerdictInv => ReturnsVerdict
  BY DEF VerdictInv
<1> QED BY <1>1, <1>2, <1>3, PTL DEF Spec

-----------------------------------------------------------------------------
(* The refinement.                                                         *)

LEMMA InitRefines == Init => Atomic!Init
  BY DEF Init, Atomic!Init, Codes

LEMMA CallerRefines ==
  ASSUME RpcInv, CallerNext
  PROVE  [Atomic!Next]_(Atomic!vars)
<1> USE DEF RpcInv, TypeOK, ContextInv, Codes, Final, WorkerRuns, callerVars, workerVars, ctx,
            Atomic!vars
<1>1. ASSUME NEW k \in {"ecard", "api"}, Begin(k)
      PROVE  Atomic!Call
  BY <1>1 DEF Begin, Atomic!Call
<1>2. CASE Create \/ Tick \/ PollEnds
  BY <1>2 DEF Create, Tick, PollEnds
<1>3. CASE CreateFails
  <2>1. Atomic!Return("SVC_FAILED")
    BY <1>3 DEF CreateFails, Atomic!Return
  <2> QED BY <2>1 DEF Atomic!Next
<1>4. CASE Join
  <2>1. result' = outcome /\ outcome \in Codes
    BY <1>4 DEF Join
  <2>2. Atomic!Return(outcome)
    BY <1>4, <2>1 DEF Join, Atomic!Return
  <2> QED BY <2>1, <2>2 DEF Atomic!Next
<1>5. CASE Resume
  <2>1. Atomic!Forget
    BY <1>5 DEF Resume, Atomic!Forget
  <2> QED BY <2>1 DEF Atomic!Next
<1> QED BY <1>1, <1>2, <1>3, <1>4, <1>5 DEF CallerNext, Wait, Atomic!Next

LEMMA WorkerRefines ==
  ASSUME RpcInv, WorkerNext \/ HttpFailed \/ Serve
  PROVE  [Atomic!Next]_(Atomic!vars)
<1> USE DEF RpcInv, TypeOK, ContextInv, Codes, Final, WorkerRuns, callerVars, workerVars, ctx,
            Atomic!vars, Verdict
<1>1. CASE ParameterOk \/ ParameterFails \/ HttpAnswered \/ InfoFails \/ Parse \/ WriteState
             \/ WriteRetcode
  BY <1>1
  DEF ParameterOk, ParameterFails, HttpAnswered, InfoFails, Parse, WriteState, WriteRetcode
<1>2. CASE Perform
  BY <1>2 DEF Perform
<1>3. CASE HttpTimeout \/ HttpFailed \/ InfoOk
  <2>1. Atomic!Note
    BY <1>3 DEF HttpTimeout, HttpFailed, InfoOk, Atomic!Note
  <2> QED BY <2>1 DEF Atomic!Next
<1>4. CASE Serve
  <2>1. Atomic!Serve
    BY <1>4 DEF Serve, Atomic!Serve
  <2> QED BY <2>1 DEF Atomic!Next
<1> QED BY <1>1, <1>2, <1>3, <1>4 DEF WorkerNext

\* To a flow that makes it, the call is carried out or not and returns once, and
\* SVC_OK or SVC_TIMEOUT tells what last_trans_timeout will say (service.c:493-755).
THEOREM CallIsAtomic == Spec => ImplementsAtomicCall
<1>1. RpcInv /\ [Next]_vars => [Atomic!Next]_(Atomic!vars)
  BY CallerRefines, WorkerRefines
  DEF Next, vars, callerVars, workerVars, ctx, Atomic!vars
<1> QED
  BY InitRefines, ContextInvariant, <1>1, PTL DEF Spec, ImplementsAtomicCall, Atomic!Spec
=============================================================================
