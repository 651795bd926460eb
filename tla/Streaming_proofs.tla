-------------------------- MODULE Streaming_proofs --------------------------
(***************************************************************************)
(* Proofs about the threads that carry a stream, for any clients, workers, *)
(* commands, ranges, times and samples.                                    *)
(*                                                                         *)
(* CAMThread (AMThread): a call gets the answer to its own command, no     *)
(* command is lost, only the current worker serves, and CallWorker         *)
(* implements the synchronous call.                                        *)
(*                                                                         *)
(* CBaseStreamControl (StreamControl): every cookie is accounted for, and  *)
(* no sample is discarded before its time.                                 *)
(*                                                                         *)
(* CPullPin (PullPin): no sample is lost, an idle worker has nothing out,  *)
(* and the range is delivered in order, once and to its end.               *)
(***************************************************************************)
EXTENDS AMThread, MC_Streaming, Integers, Sequences, SequenceTheorems, TLAPS

-----------------------------------------------------------------------------
(* The worker thread.                                                      *)

(* A client is in CallWorker exactly while it holds m_AccessLock.          *)
LockInv == \A c \in Clients : Calling(c) <=> m_AccessLock = c

(* A call has a worker, and is the last one if and only if it sends exit.  *)
CallInv ==
  \A c \in Clients : Calling(c) =>
    /\ m_hThread \in Workers
    /\ request[c] \in AllCommands
    /\ closer = IF request[c] = Exit THEN c ELSE NoClient

(* Workers that Close took out of m_hThread are on their way out, each     *)
(* with the one client that waits for it.                                  *)
JoinInv ==
  /\ m_hThread \in Workers => workerPc[m_hThread] # "none"
  /\ \A c \in Clients : clientPc[c] = "join" =>
       /\ closing[c] # m_hThread
       /\ workerPc[closing[c]] \in {"exiting", "exited"}
       /\ \A d \in Clients : clientPc[d] = "join" /\ closing[d] = closing[c] => d = c

(* No request and no answer is under way.                                  *)
Quiet == m_EventSend = "reset" /\ m_EventComplete = "reset"

(* The worker has answered its last request: it looks for the next one, or *)
(* leaves if that was exit.                                                *)
Done ==
  m_hThread \in Workers =>
    workerPc[m_hThread] \in IF closer = NoClient THEN {"getRequest"} ELSE {"exiting", "exited"}

(* Where the worker and the two events are while client c waits.           *)
Requested(c) == m_EventSend = "set" /\ m_EventComplete = "reset"
                /\ \/ workerPc[m_hThread] = "getRequest"
                   \/ workerPc[m_hThread] = "reply" /\ serving[m_hThread] = request[c]
                   \/ /\ workerPc[m_hThread] = "resetSend" /\ serving[m_hThread] = request[c]
                      /\ m_dwReturnVal = request[c]
Withdrawn(c) == /\ Quiet
                /\ workerPc[m_hThread] = "complete" /\ serving[m_hThread] = request[c]
                /\ m_dwReturnVal = request[c]
Completed(c) == /\ m_EventSend = "reset" /\ m_EventComplete = "set" /\ Done
                /\ m_dwReturnVal = request[c]

(* The exchange between the client that holds the lock and its worker.     *)
ExchangeInv ==
  /\ m_AccessLock = NoClient => Quiet /\ Done
  /\ \A c \in Clients :
       /\ clientPc[c] \in {"setParam", "signal"} => Quiet /\ workerPc[m_hThread] = "getRequest"
       /\ clientPc[c] \in {"signal", "wait", "return"} => m_dwParam = request[c]
       /\ clientPc[c] = "wait" => Requested(c) \/ Withdrawn(c) \/ Completed(c)
       /\ clientPc[c] = "return" => Quiet /\ Done /\ m_dwReturnVal = request[c]

IInv == TypeOK /\ LockInv /\ CallInv /\ JoinInv /\ OnlyCurrentWorkerServes /\ ExchangeInv

-----------------------------------------------------------------------------
LEMMA InitHolds == Init => IInv
BY NamesDiffer DEF Init, IInv, TypeOK, LockInv, CallInv, JoinInv, OnlyCurrentWorkerServes,
   ExchangeInv, Calling, Serving, Quiet, Done

(***************************************************************************)
(* Types                                                                   *)
(***************************************************************************)
LEMMA ClientTypes ==
  ASSUME TypeOK, NEW c \in Clients, ClientStep(c) PROVE TypeOK'
<1> USE DEF TypeOK, events, clientState, workerState, ClientGoTo, WorkerGoTo
<1>1. CASE Create(c)
  BY <1>1 DEF Create
<1>2. CASE Close(c)
  BY <1>2 DEF Close, TakeHandle
<1>3. CASE SetParam(c)
  BY <1>3 DEF SetParam
<1>4. CASE SignalWorker(c)
  BY <1>4 DEF SignalWorker
<1>5. CASE WaitComplete(c)
  BY <1>5 DEF WaitComplete
<1>6. CASE ReturnValue(c)
  BY <1>6 DEF ReturnValue
<1>7. CASE Join(c)
  BY <1>7 DEF Join
<1>8. ASSUME NEW cmd \in AllCommands, BeginCall(c, cmd) PROVE TypeOK'
  BY <1>8 DEF BeginCall
<1> QED
  BY <1>1, <1>2, <1>3, <1>4, <1>5, <1>6, <1>7, <1>8 DEF ClientStep, InCall

LEMMA WorkerTypes ==
  ASSUME TypeOK, NEW w \in Workers, WorkerStep(w) PROVE TypeOK'
<1> USE DEF TypeOK, events, clientState, WorkerGoTo
<1>1. CASE GetRequest(w)
  BY <1>1 DEF GetRequest
<1>2. CASE LookAgain(w)
  BY <1>2 DEF LookAgain
<1>3. CASE SetReturnVal(w)
  BY <1>3 DEF SetReturnVal
<1>4. CASE Reply(w)
  BY <1>4 DEF Reply, CompleteRequest
<1>5. CASE ExitThread(w)
  BY <1>5 DEF ExitThread
<1> QED
  BY <1>1, <1>2, <1>3, <1>4, <1>5 DEF WorkerStep

(***************************************************************************)
(* The steps of a client                                                   *)
(***************************************************************************)
SafeInv == LockInv /\ CallInv /\ JoinInv /\ OnlyCurrentWorkerServes /\ ExchangeInv

LEMMA CreateKeeps ==
  ASSUME IInv, NEW c \in Clients, Create(c) PROVE SafeInv'
<1> USE NamesDiffer DEF IInv, TypeOK, Create, events, clientState, workerState, ClientGoTo,
       WorkerGoTo
<1>1. LockInv'
  BY DEF LockInv, Calling
<1>2. CallInv'
  BY DEF CallInv, Calling
<1>3. JoinInv'
  BY DEF JoinInv
<1>4. OnlyCurrentWorkerServes'
  BY DEF OnlyCurrentWorkerServes, Serving
<1>5. ExchangeInv'
  BY DEF ExchangeInv, CallInv, Calling, Quiet, Done
<1> QED
  BY <1>1, <1>2, <1>3, <1>4, <1>5 DEF SafeInv

LEMMA CloseKeeps ==
  ASSUME IInv, NEW c \in Clients, Close(c) PROVE SafeInv'
<1> USE NamesDiffer DEF IInv, TypeOK, Close, TakeHandle, events, clientState, workerState,
       ClientGoTo
<1>1. \A d \in Clients : ~Calling(d)
  BY DEF CallInv, Calling
<1>2. m_AccessLock = NoClient
  BY <1>1 DEF LockInv
<1>3. workerPc[m_hThread] \in {"exiting", "exited"}
  BY <1>2 DEF ExchangeInv, Done
<1>4. LockInv' /\ CallInv'
  BY <1>1, <1>2 DEF LockInv, CallInv, Calling
<1>5. JoinInv'
  BY <1>3 DEF JoinInv
<1>6. OnlyCurrentWorkerServes'
  BY <1>3 DEF OnlyCurrentWorkerServes, Serving
<1>7. ExchangeInv'
  BY <1>1, <1>2 DEF ExchangeInv, Calling, Quiet, Done
<1> QED
  BY <1>4, <1>5, <1>6, <1>7 DEF SafeInv

LEMMA SetParamKeeps ==
  ASSUME IInv, NEW c \in Clients, SetParam(c) PROVE SafeInv'
<1> USE NamesDiffer DEF IInv, TypeOK, SetParam, events, clientState, workerState,
       ClientGoTo, WorkerGoTo
<1>1. LockInv'
  BY DEF LockInv, Calling
<1>2. CallInv'
  BY DEF CallInv, Calling
<1>3. JoinInv'
  BY DEF JoinInv
<1>4. OnlyCurrentWorkerServes'
  BY DEF OnlyCurrentWorkerServes, Serving
<1>5. ExchangeInv'
  BY DEF ExchangeInv, LockInv, Calling, Quiet
<1> QED
  BY <1>1, <1>2, <1>3, <1>4, <1>5 DEF SafeInv

LEMMA SignalWorkerKeeps ==
  ASSUME IInv, NEW c \in Clients, SignalWorker(c) PROVE SafeInv'
<1> USE NamesDiffer DEF IInv, TypeOK, SignalWorker, events, clientState, workerState,
       ClientGoTo, WorkerGoTo
<1>1. LockInv'
  BY DEF LockInv, Calling
<1>2. CallInv'
  BY DEF CallInv, Calling
<1>3. JoinInv'
  BY DEF JoinInv
<1>4. OnlyCurrentWorkerServes'
  BY DEF OnlyCurrentWorkerServes, Serving
<1>5. ExchangeInv'
  BY DEF ExchangeInv, LockInv, Calling, Quiet, Requested
<1> QED
  BY <1>1, <1>2, <1>3, <1>4, <1>5 DEF SafeInv

LEMMA WaitCompleteKeeps ==
  ASSUME IInv, NEW c \in Clients, WaitComplete(c) PROVE SafeInv'
<1> USE NamesDiffer DEF IInv, TypeOK, WaitComplete, events, clientState, workerState,
       ClientGoTo, WorkerGoTo
<1>1. LockInv'
  BY DEF LockInv, Calling
<1>2. CallInv'
  BY DEF CallInv, Calling
<1>3. JoinInv'
  BY DEF JoinInv
<1>4. OnlyCurrentWorkerServes'
  BY DEF OnlyCurrentWorkerServes, Serving
<1>5. ExchangeInv'
  BY DEF ExchangeInv, LockInv, Calling, Quiet, Done, Requested, Withdrawn, Completed
<1> QED
  BY <1>1, <1>2, <1>3, <1>4, <1>5 DEF SafeInv

LEMMA ReturnValueKeeps ==
  ASSUME IInv, NEW c \in Clients, ReturnValue(c) PROVE SafeInv'
<1> USE NamesDiffer DEF IInv, TypeOK, ReturnValue, events, clientState, workerState,
       ClientGoTo, WorkerGoTo
<1>1. LockInv'
  BY DEF LockInv, Calling
<1>2. CallInv'
  BY DEF CallInv, Calling
<1>3. JoinInv'
  BY DEF JoinInv
<1>4. OnlyCurrentWorkerServes'
  BY DEF OnlyCurrentWorkerServes, Serving
<1>5. ExchangeInv'
  BY DEF ExchangeInv, LockInv, Calling, Quiet, Done
<1> QED
  BY <1>1, <1>2, <1>3, <1>4, <1>5 DEF SafeInv

LEMMA JoinKeeps ==
  ASSUME IInv, NEW c \in Clients, Join(c) PROVE SafeInv'
<1> USE NamesDiffer DEF IInv, TypeOK, Join, events, clientState, workerState, ClientGoTo,
       WorkerGoTo
<1>1. LockInv'
  BY DEF LockInv, Calling
<1>2. CallInv'
  BY DEF CallInv, Calling
<1>3. JoinInv'
  BY DEF JoinInv
<1>4. OnlyCurrentWorkerServes'
  BY DEF OnlyCurrentWorkerServes, Serving
<1>5. ExchangeInv'
  BY DEF ExchangeInv, JoinInv, Quiet, Done, Requested, Withdrawn, Completed
<1> QED
  BY <1>1, <1>2, <1>3, <1>4, <1>5 DEF SafeInv

LEMMA BeginCallKeeps ==
  ASSUME IInv, NEW c \in Clients, NEW cmd \in AllCommands, BeginCall(c, cmd) PROVE SafeInv'
<1> USE NamesDiffer DEF IInv, TypeOK, BeginCall, MayCall, AccessLockFree, events,
       workerState, ClientGoTo
<1>1. LockInv'
  BY DEF LockInv, Calling
<1>2. CallInv'
  BY DEF CallInv, Calling
<1>3. JoinInv'
  BY DEF JoinInv
<1>4. OnlyCurrentWorkerServes'
  BY DEF OnlyCurrentWorkerServes, Serving
<1>5. ExchangeInv'
  BY DEF ExchangeInv, LockInv, Calling, Quiet, Done
<1> QED
  BY <1>1, <1>2, <1>3, <1>4, <1>5 DEF SafeInv

(***************************************************************************)
(* The steps of a worker                                                   *)
(***************************************************************************)
LEMMA GetRequestKeeps ==
  ASSUME IInv, NEW w \in Workers, GetRequest(w) PROVE SafeInv'
<1> USE NamesDiffer DEF IInv, TypeOK, GetRequest, events, clientState, WorkerGoTo
<1>1. LockInv'
  BY DEF LockInv, Calling
<1>2. CallInv'
  BY DEF CallInv, Calling
<1>3. JoinInv'
  BY DEF JoinInv
<1>4. OnlyCurrentWorkerServes'
  BY DEF OnlyCurrentWorkerServes, Serving
<1>5. ExchangeInv'
  BY DEF ExchangeInv, Quiet, Requested, Withdrawn, Completed
<1> QED
  BY <1>1, <1>2, <1>3, <1>4, <1>5 DEF SafeInv

LEMMA LookAgainKeeps ==
  ASSUME IInv, NEW w \in Workers, LookAgain(w) PROVE SafeInv'
<1> USE NamesDiffer DEF IInv, TypeOK, LookAgain, events, clientState, WorkerGoTo
<1>1. LockInv'
  BY DEF LockInv, Calling
<1>2. CallInv'
  BY DEF CallInv, Calling
<1>3. JoinInv'
  BY DEF JoinInv
<1>4. OnlyCurrentWorkerServes'
  BY DEF OnlyCurrentWorkerServes, Serving
<1>5. ExchangeInv'
  BY DEF ExchangeInv, OnlyCurrentWorkerServes, Serving, Done, Requested, Withdrawn, Completed
<1> QED
  BY <1>1, <1>2, <1>3, <1>4, <1>5 DEF SafeInv

LEMMA SetReturnValKeeps ==
  ASSUME IInv, NEW w \in Workers, SetReturnVal(w) PROVE SafeInv'
<1> USE NamesDiffer DEF IInv, TypeOK, SetReturnVal, events, clientState, WorkerGoTo
<1>1. LockInv'
  BY DEF LockInv, Calling
<1>2. CallInv'
  BY DEF CallInv, Calling
<1>3. JoinInv'
  BY DEF JoinInv
<1>4. OnlyCurrentWorkerServes'
  BY DEF OnlyCurrentWorkerServes, Serving
<1>5. ExchangeInv'
  BY DEF ExchangeInv, OnlyCurrentWorkerServes, Serving, Done, Requested, Withdrawn, Completed
<1> QED
  BY <1>1, <1>2, <1>3, <1>4, <1>5 DEF SafeInv

LEMMA ReplyKeeps ==
  ASSUME IInv, NEW w \in Workers, Reply(w) PROVE SafeInv'
<1> USE NamesDiffer DEF IInv, TypeOK, Reply, CompleteRequest, events, clientState, WorkerGoTo
<1>1. LockInv'
  BY DEF LockInv, Calling
<1>2. CallInv'
  BY DEF CallInv, Calling
<1>3. JoinInv'
  BY DEF JoinInv
<1>4. OnlyCurrentWorkerServes'
  BY DEF OnlyCurrentWorkerServes, Serving
<1>5. ExchangeInv'
  BY DEF ExchangeInv, LockInv, CallInv, JoinInv, Calling, OnlyCurrentWorkerServes, Serving,
       Quiet, Done, Requested, Withdrawn, Completed
<1> QED
  BY <1>1, <1>2, <1>3, <1>4, <1>5 DEF SafeInv

LEMMA ExitThreadKeeps ==
  ASSUME IInv, NEW w \in Workers, ExitThread(w) PROVE SafeInv'
<1> USE NamesDiffer DEF IInv, TypeOK, ExitThread, events, clientState, WorkerGoTo
<1>1. LockInv'
  BY DEF LockInv, Calling
<1>2. CallInv'
  BY DEF CallInv, LockInv, Calling
<1>3. JoinInv'
  BY DEF JoinInv, LockInv, CallInv, Calling, OnlyCurrentWorkerServes, Serving, ExchangeInv, Done
<1>4. OnlyCurrentWorkerServes'
  BY DEF OnlyCurrentWorkerServes, Serving, JoinInv, ExchangeInv, Done, LockInv, Calling
<1>5. ExchangeInv'
  BY DEF ExchangeInv, LockInv, CallInv, JoinInv, Calling, OnlyCurrentWorkerServes, Serving,
       Quiet, Done, Requested, Withdrawn, Completed
<1> QED
  BY <1>1, <1>2, <1>3, <1>4, <1>5 DEF SafeInv

-----------------------------------------------------------------------------
LEMMA NextKeeps == ASSUME IInv, [Next]_vars PROVE IInv'
<1>1. CASE UNCHANGED vars
  BY <1>1 DEF vars, events, clientState, workerState, IInv, TypeOK, LockInv, CallInv, JoinInv,
     OnlyCurrentWorkerServes, ExchangeInv, Calling, Serving, Quiet, Done, Requested,
     Withdrawn, Completed
<1>2. ASSUME NEW c \in Clients, ClientStep(c) PROVE IInv'
  <2>1. TypeOK'
    BY <1>2, ClientTypes DEF IInv
  <2>2. SafeInv'
    BY <1>2, CreateKeeps, CloseKeeps, SetParamKeeps, SignalWorkerKeeps, WaitCompleteKeeps,
       ReturnValueKeeps, JoinKeeps, BeginCallKeeps DEF ClientStep, InCall
  <2> QED
    BY <2>1, <2>2 DEF IInv, SafeInv
<1>3. ASSUME NEW w \in Workers, WorkerStep(w) PROVE IInv'
  <2>1. TypeOK'
    BY <1>3, WorkerTypes DEF IInv
  <2>2. SafeInv'
    BY <1>3, GetRequestKeeps, LookAgainKeeps, SetReturnValKeeps, ReplyKeeps, ExitThreadKeeps
       DEF WorkerStep
  <2> QED
    BY <2>1, <2>2 DEF IInv, SafeInv
<1> QED
  BY <1>1, <1>2, <1>3 DEF Next

LEMMA Invariance == Spec => []IInv
<1>1. Init => IInv
  BY InitHolds
<1>2. IInv /\ [Next]_vars => IInv'
  BY NextKeeps
<1> QED
  BY <1>1, <1>2, PTL DEF Spec

(* The variables hold what their declarations say.                         *)
THEOREM TypeCorrect == Spec => []TypeOK
<1>1. IInv => TypeOK
  BY DEF IInv
<1> QED
  BY <1>1, Invariance, PTL

(* Whatever other clients call, create and close meanwhile, CallWorker     *)
(* returns the worker's answer to the command of this call.                *)
THEOREM AnswersAreOwn == Spec => []ReturnsOwnAnswer
<1>1. IInv => ReturnsOwnAnswer
  BY DEF IInv, ExchangeInv, ReturnsOwnAnswer
<1> QED
  BY <1>1, Invariance, PTL

(* While a client waits in CallWorker its request is signalled to a live   *)
(* worker, or being answered, or the answer is there: the events are never *)
(* reset in an order that strands it.                                      *)
THEOREM CommandsAreKept == Spec => []NoCommandLost
<1>1. IInv => NoCommandLost
  BY DEF IInv, CallInv, Calling, ExchangeInv, NoCommandLost, Requested, Withdrawn, Completed,
     Quiet
<1> QED
  BY <1>1, Invariance, PTL

(* Two threads never serve the object, although Close clears the handle    *)
(* before the old worker has returned from ThreadProc.                     *)
THEOREM OneWorkerServes == Spec => []OnlyCurrentWorkerServes
<1>1. IInv => OnlyCurrentWorkerServes
  BY DEF IInv
<1> QED
  BY <1>1, Invariance, PTL

(***************************************************************************)
(* CallWorker is a synchronous call                                        *)
(***************************************************************************)
LEMMA InitCalls == Init => Call!Init
BY DEF Init, Call!Init, Caller, Answered

(* Of all clients only the one with the lock can be past its signal.       *)
LEMMA CallerIsOne ==
  ASSUME IInv, NEW c \in Clients, Calling(c) PROVE Caller \subseteq {c}
BY DEF IInv, LockInv, Calling, Caller

(* A step that changes neither the caller nor what it sees is no step of   *)
(* the call.                                                               *)
LEMMA StutterOfCall ==
  ASSUME Caller' = Caller, Answered' = Answered,
         Caller # {} => UNCHANGED <<m_dwParam, m_dwReturnVal>>
  PROVE  UNCHANGED Call!callVars
BY DEF Call!callVars

LEMMA SignalAsks ==
  ASSUME IInv, NEW c \in Clients, SignalWorker(c) PROVE Call!Ask
<1> USE DEF SignalWorker, ClientGoTo, IInv
<1>1. m_EventComplete = "reset" /\ m_dwParam = request[c] /\ request[c] \in AllCommands
  BY DEF ExchangeInv, CallInv, Calling, Quiet
<1>2. Caller = {}
  BY CallerIsOne DEF Calling, Caller
<1>3. Caller' = {c} /\ ~Answered /\ ~Answered'
  BY <1>1, <1>2 DEF Caller, Answered, TypeOK
<1> QED
  BY <1>1, <1>2, <1>3 DEF Call!Ask

LEMMA CompletionAnswers ==
  ASSUME IInv, NEW w \in Workers, Reply(w) PROVE [Call!Next]_Call!callVars
<1> USE DEF Reply, CompleteRequest, clientState, IInv
<1>1. CASE workerPc[w] = "resetSend"
  BY <1>1, StutterOfCall DEF Caller, Answered
<1>2. CASE workerPc[w] = "complete"
  <2>1. m_hThread = w
    BY <1>2 DEF OnlyCurrentWorkerServes, Serving
  <2>2. m_AccessLock # NoClient
    BY <1>2, <2>1 DEF ExchangeInv, Done
  <2>3. PICK c \in Clients : m_AccessLock = c /\ Calling(c)
    BY <2>2 DEF LockInv, TypeOK
  <2>4. clientPc[c] = "wait" /\ Withdrawn(c) /\ m_dwParam = request[c]
    BY <1>2, <2>1, <2>3 DEF ExchangeInv, Calling, Requested, Completed, Done
  <2>5. Caller = {c} /\ Caller' = {c}
    BY <2>3, <2>4, CallerIsOne DEF Caller
  <2>6. ~Answered /\ Answered'
    BY <1>2, <2>4, <2>5 DEF Answered, Withdrawn, Quiet, Caller
  <2> QED
    BY <2>4, <2>5, <2>6 DEF Call!Next, Call!Answer, Withdrawn
<1> QED
  BY <1>1, <1>2

LEMMA ReturnReturns ==
  ASSUME IInv, NEW c \in Clients, ReturnValue(c) PROVE Call!Return
<1> USE DEF ReturnValue, ClientGoTo, IInv
<1>1. Caller = {c} /\ Answered
  BY CallerIsOne DEF Calling, Caller, Answered
<1>2. Caller' = {}
  BY <1>1 DEF Caller, TypeOK
<1> QED
  BY <1>1, <1>2 DEF Call!Return

LEMMA ClientStepsMap ==
  ASSUME IInv, NEW c \in Clients, ClientStep(c) PROVE [Call!Next]_Call!callVars
<1> USE DEF IInv, TypeOK, events, ClientGoTo
<1>1. CASE SignalWorker(c)
  BY <1>1, SignalAsks DEF Call!Next
<1>2. CASE ReturnValue(c)
  BY <1>2, ReturnReturns DEF Call!Next
<1>3. CASE SetParam(c)
  <2>1. Caller = {}
    BY <1>3, CallerIsOne DEF SetParam, Calling, Caller
  <2> QED
    BY <1>3, <2>1, StutterOfCall DEF SetParam, Caller, Answered
<1>4. CASE WaitComplete(c)
  BY <1>4, StutterOfCall DEF WaitComplete, Caller, Answered
<1>5. CASE Create(c)
  BY <1>5, StutterOfCall DEF Create, Caller, Answered
<1>6. CASE Close(c)
  BY <1>6, StutterOfCall DEF Close, Caller, Answered
<1>7. CASE Join(c)
  BY <1>7, StutterOfCall DEF Join, Caller, Answered
<1>8. ASSUME NEW cmd \in AllCommands, BeginCall(c, cmd) PROVE [Call!Next]_Call!callVars
  BY <1>8, StutterOfCall DEF BeginCall, Caller, Answered
<1> QED
  BY <1>1, <1>2, <1>3, <1>4, <1>5, <1>6, <1>7, <1>8 DEF ClientStep, InCall

LEMMA WorkerStepsMap ==
  ASSUME IInv, NEW w \in Workers, WorkerStep(w) PROVE [Call!Next]_Call!callVars
<1> USE DEF IInv, events, clientState
<1>1. CASE Reply(w)
  BY <1>1, CompletionAnswers
<1>2. CASE SetReturnVal(w)
  <2>1. m_hThread = w
    BY <1>2 DEF SetReturnVal, OnlyCurrentWorkerServes, Serving
  <2>2. \A c \in Caller : clientPc[c] = "wait" /\ m_EventComplete = "reset"
    BY <1>2, <2>1 DEF SetReturnVal, ExchangeInv, Caller, Quiet, Done, Requested, Withdrawn,
       Completed
  <2>3. Caller # {} => ~Answered
    BY <2>2 DEF Answered, Caller
  <2>4. Caller' = Caller /\ Answered' = Answered /\ m_dwParam' = m_dwParam
    BY <1>2 DEF SetReturnVal, Caller, Answered
  <2> QED
    BY <2>3, <2>4 DEF Call!callVars
<1>3. CASE GetRequest(w)
  BY <1>3, StutterOfCall DEF GetRequest, Caller, Answered
<1>4. CASE LookAgain(w)
  BY <1>4, StutterOfCall DEF LookAgain, Caller, Answered
<1>5. CASE ExitThread(w)
  BY <1>5, StutterOfCall DEF ExitThread, Caller, Answered
<1> QED
  BY <1>1, <1>2, <1>3, <1>4, <1>5 DEF WorkerStep

(* CallWorker implements the synchronous call: one command at a time is    *)
(* handed to the worker, answered once, and its answer returned.           *)
THEOREM CallIsSynchronous == Spec => ImplementsCall
<1>1. Init => Call!Init
  BY InitCalls
<1>2. IInv /\ [Next]_vars => [Call!Next]_Call!callVars
  <2>1. CASE UNCHANGED vars
    BY <2>1, StutterOfCall DEF vars, events, clientState, Caller, Answered
  <2> QED
    BY <2>1, ClientStepsMap, WorkerStepsMap DEF Next
<1> QED
  BY <1>1, <1>2, Invariance, PTL DEF Spec, ImplementsCall, Call!Spec

(* All of it together: no call gets another's answer, no command is lost   *)
(* and no second worker serves, at any step of any clients and workers.    *)
THEOREM ThreadIsSafe == Spec => []ThreadSafety
<1>1. TypeOK /\ ReturnsOwnAnswer /\ NoCommandLost /\ OnlyCurrentWorkerServes => ThreadSafety
  BY DEF ThreadSafety
<1> QED
  BY <1>1, TypeCorrect, AnswersAreOwn, CommandsAreKept, OneWorkerServes, PTL

-----------------------------------------------------------------------------
(* Stream control.                                                         *)

Ctl == [state : {"flowing", "discarding"}, onStop : {"flowing", "discarding"},
        start : 0 .. S!MAX_TIME, stop : 0 .. S!MAX_TIME,
        startCookie : 0 .. MaxCommands, stopCookie : 0 .. MaxCommands,
        notified : [S!Cookies -> Nat]]

(* How often a cookie was notified, by whether it is pending, was given    *)
(* and was taken back.                                                     *)
Told(times, pending, given, gone) ==
  times = IF given /\ ~pending /\ ~gone THEN 1 ELSE 0

(* What is so of every cookie when the first `given` are out and those in  *)
(* `gone` were taken back.                                                 *)
Kept(c, given, gone) ==
  /\ c.startCookie \in 0 .. given /\ c.stopCookie \in 0 .. given
  /\ c.startCookie = c.stopCookie => c.startCookie = 0
  /\ gone \subseteq 1 .. given
  /\ gone \intersect {c.startCookie, c.stopCookie} = {}
  /\ \A k \in S!Cookies :
       Told(c.notified[k], k \in {c.startCookie, c.stopCookie}, k <= given, k \in gone)

Stated(c) == c.stop = S!MAX_TIME <=> c.onStop = "flowing"

ControlInv ==
  /\ S!TypeOK
  /\ Kept(S!Control, commands, dropped) /\ Stated(S!Control)
  /\ at # "out" => sample < MaxSamples
  /\ at = "blocked" => waitUntil \in {S!Forever, S!First}

LEMMA Bounds ==
  /\ S!MAX_TIME \in Nat /\ S!Forever \in Nat /\ MaxNow < S!MAX_TIME /\ S!MAX_TIME < S!Forever
  /\ MaxCommands \in Nat /\ S!Cookies = 1 .. MaxCommands
BY StreamingAssumption DEF S!MAX_TIME, S!Forever, S!Cookies

LEMMA ControlIsTyped == S!TypeOK => S!Control \in Ctl
BY DEF S!TypeOK, S!Control, Ctl

Counted(c, cookie) ==
  [k \in S!Cookies |-> IF k = cookie THEN c.notified[k] + 1 ELSE c.notified[k]]

LEMMA CountedIsTyped == \A c \in Ctl : \A k : Counted(c, k) \in [S!Cookies -> Nat]
BY DEF Ctl, Counted

LEMMA StartFields ==
  ASSUME NEW c \in Ctl
  PROVE  S!ExecuteStart(c) =
           [c EXCEPT !.state = "flowing", !.start = S!MAX_TIME, !.startCookie = 0,
                     !.notified = Counted(c, c.startCookie)]
BY DEF Ctl, S!ExecuteStart, S!CancelStart, S!Notify, Counted

LEMMA StopFields ==
  ASSUME NEW c \in Ctl
  PROVE  S!ExecuteStop(c) =
           [c EXCEPT !.state = c.onStop, !.stop = S!MAX_TIME, !.stopCookie = 0,
                     !.onStop = "flowing", !.notified = Counted(c, c.stopCookie)]
BY DEF Ctl, S!ExecuteStop, S!CancelStop, S!Notify, Counted

(* A command that takes effect is notified once and is pending no longer.  *)
LEMMA StartKeeps ==
  ASSUME NEW c \in Ctl, NEW n \in 0 .. MaxCommands, NEW gone, Kept(c, n, gone), Stated(c)
  PROVE  LET d == S!ExecuteStart(c) IN d \in Ctl /\ Kept(d, n, gone) /\ Stated(d)
<1> DEFINE d == S!ExecuteStart(c)
           more == Counted(c, c.startCookie)
<1>1. more \in [S!Cookies -> Nat] /\ 0 \in 0 .. MaxCommands /\ S!MAX_TIME \in 0 .. S!MAX_TIME
  BY Bounds, CountedIsTyped
<1>2. /\ d.startCookie = 0 /\ d.stopCookie = c.stopCookie /\ d.notified = more
      /\ d.stop = c.stop /\ d.onStop = c.onStop
  BY StartFields DEF Ctl
<1>3. d \in Ctl
  BY <1>1, StartFields DEF Ctl
<1> HIDE DEF d
<1>4. Stated(d)
  BY <1>2 DEF Stated
<1>5. Kept(d, n, gone)
  <2>1. /\ c.startCookie \in 0 .. n /\ c.stopCookie \in 0 .. n /\ 0 \notin gone
        /\ c.startCookie = c.stopCookie => c.startCookie = 0
    BY DEF Kept
  <2>2. ASSUME NEW k \in S!Cookies
        PROVE  Told(d.notified[k], k \in {d.startCookie, d.stopCookie}, k <= n, k \in gone)
    <3>1. /\ Told(c.notified[k], k \in {c.startCookie, c.stopCookie}, k <= n, k \in gone)
          /\ k \in Nat /\ k # 0 /\ c.notified[k] \in Nat
          /\ k \in {c.startCookie, c.stopCookie} => k \notin gone
      BY Bounds DEF Kept, Ctl
    <3>2. CASE k = c.startCookie
      <4>1. k # d.startCookie /\ k # d.stopCookie /\ k <= n /\ k \notin gone /\ c.notified[k] = 0
        BY <1>2, <2>1, <3>1, <3>2 DEF Told
      <4> QED
        BY <1>2, <4>1, <3>2 DEF Told, Counted
    <3>3. CASE k # c.startCookie
      BY <1>2, <3>1, <3>3 DEF Told, Counted
    <3> QED
      BY <3>2, <3>3
  <2>3. /\ d.startCookie \in 0 .. n /\ d.stopCookie \in 0 .. n
        /\ d.startCookie = d.stopCookie => d.startCookie = 0
        /\ gone \intersect {d.startCookie, d.stopCookie} = {}
    BY <1>2, <2>1 DEF Kept
  <2> QED
    BY <2>2, <2>3 DEF Kept
<1> QED
  BY <1>3, <1>4, <1>5 DEF d

LEMMA StopKeeps ==
  ASSUME NEW c \in Ctl, NEW n \in 0 .. MaxCommands, NEW gone, Kept(c, n, gone), Stated(c)
  PROVE  LET d == S!ExecuteStop(c) IN d \in Ctl /\ Kept(d, n, gone) /\ Stated(d)
<1> DEFINE d == S!ExecuteStop(c)
           more == Counted(c, c.stopCookie)
<1>1. more \in [S!Cookies -> Nat] /\ 0 \in 0 .. MaxCommands /\ S!MAX_TIME \in 0 .. S!MAX_TIME
  BY Bounds, CountedIsTyped
<1>2. /\ d.stopCookie = 0 /\ d.startCookie = c.startCookie /\ d.notified = more
      /\ d.stop = S!MAX_TIME /\ d.onStop = "flowing"
  BY StopFields DEF Ctl
<1>3. d \in Ctl
  BY <1>1, StopFields DEF Ctl
<1> HIDE DEF d
<1>4. Stated(d)
  BY <1>2 DEF Stated
<1>5. Kept(d, n, gone)
  <2>1. /\ c.startCookie \in 0 .. n /\ c.stopCookie \in 0 .. n /\ 0 \notin gone
        /\ c.startCookie = c.stopCookie => c.startCookie = 0
    BY DEF Kept
  <2>2. ASSUME NEW k \in S!Cookies
        PROVE  Told(d.notified[k], k \in {d.startCookie, d.stopCookie}, k <= n, k \in gone)
    <3>1. /\ Told(c.notified[k], k \in {c.startCookie, c.stopCookie}, k <= n, k \in gone)
          /\ k \in Nat /\ k # 0 /\ c.notified[k] \in Nat
          /\ k \in {c.startCookie, c.stopCookie} => k \notin gone
      BY Bounds DEF Kept, Ctl
    <3>2. CASE k = c.stopCookie
      <4>1. k # d.startCookie /\ k # d.stopCookie /\ k <= n /\ k \notin gone /\ c.notified[k] = 0
        BY <1>2, <2>1, <3>1, <3>2 DEF Told
      <4> QED
        BY <1>2, <4>1, <3>2 DEF Told, Counted
    <3>3. CASE k # c.stopCookie
      BY <1>2, <3>1, <3>3 DEF Told, Counted
    <3> QED
      BY <3>2, <3>3
  <2>3. /\ d.startCookie \in 0 .. n /\ d.stopCookie \in 0 .. n
        /\ d.startCookie = d.stopCookie => d.startCookie = 0
        /\ gone \intersect {d.startCookie, d.stopCookie} = {}
    BY <1>2, <2>1 DEF Kept
  <2> QED
    BY <2>2, <2>3 DEF Kept
<1> QED
  BY <1>3, <1>4, <1>5 DEF d

LEMMA BothKeep ==
  ASSUME NEW c \in Ctl, NEW n \in 0 .. MaxCommands, NEW gone, Kept(c, n, gone), Stated(c)
  PROVE  LET d == S!ExecuteBoth(c) IN d \in Ctl /\ Kept(d, n, gone) /\ Stated(d)
BY StartKeeps, StopKeeps DEF S!ExecuteBoth

LEMMA TimesKeep ==
  ASSUME NEW c \in Ctl, NEW n \in 0 .. MaxCommands, NEW gone, Kept(c, n, gone), Stated(c),
         NEW first, NEW last
  PROVE  LET d == S!CheckSampleTimes(c, first, last) IN d \in Ctl /\ Kept(d, n, gone) /\ Stated(d)
BY StartKeeps, StopKeeps, BothKeep DEF S!CheckSampleTimes

LEMMA PendingKeeps ==
  ASSUME NEW c \in Ctl, NEW n \in 0 .. MaxCommands, NEW gone, Kept(c, n, gone), Stated(c)
  PROVE  LET d == S!PendingDone(c) IN d \in Ctl /\ Kept(d, n, gone) /\ Stated(d)
BY StartKeeps, StopKeeps, BothKeep DEF S!PendingDone

Open(c) == {c.startCookie, c.stopCookie} \ {0}

(* A command makes no cookie forgotten: the one that was pending and the   *)
(* one it gives out are pending after it, or taken back.                   *)
LEMMA CommandKeeps ==
  ASSUME NEW c \in Ctl, NEW d \in Ctl, NEW n \in 0 .. MaxCommands, NEW m \in n .. MaxCommands,
         NEW gone, NEW lost, Kept(c, n, gone),
         d.notified = c.notified,
         d.startCookie = d.stopCookie => d.startCookie = 0,
         Open(d) \union lost = Open(c) \union (n + 1 .. m),
         Open(d) \intersect lost = {}
  PROVE  Kept(d, m, gone \union lost)
<1>1. /\ c.startCookie \in 0 .. n /\ c.stopCookie \in 0 .. n /\ gone \subseteq 1 .. n
      /\ gone \intersect {c.startCookie, c.stopCookie} = {}
      /\ d.startCookie \in Nat /\ d.stopCookie \in Nat
  BY Bounds DEF Kept, Ctl
<1>2. \A k : k \in Open(d) \/ k \in lost <=> k \in Open(c) \/ k \in n + 1 .. m
  OBVIOUS
<1>3. \A k : k \in Open(c) => k \in 1 .. n
  BY <1>1 DEF Open
<1>4. d.startCookie \in 0 .. m /\ d.stopCookie \in 0 .. m
  <2>1. \A k \in Open(d) : k \in 1 .. m
    BY <1>2, <1>3
  <2> QED
    BY <1>1, <2>1 DEF Open
<1>5. gone \union lost \subseteq 1 .. m
  <2>1. \A k \in gone : k \in 1 .. m
    BY <1>1
  <2>2. \A k \in lost : k \in 1 .. m
    BY <1>2, <1>3
  <2> QED
    BY <2>1, <2>2
<1>6. (gone \union lost) \intersect {d.startCookie, d.stopCookie} = {}
  <2>1. \A k \in gone : k \notin Open(c) /\ k \notin n + 1 .. m /\ k # 0
    BY <1>1 DEF Open
  <2>2. \A k \in gone : k \notin Open(d)
    BY <2>1, <1>2
  <2>3. \A k \in lost : k # 0 /\ k \notin Open(d)
    BY <1>2, <1>3
  <2> QED
    BY <2>1, <2>2, <2>3 DEF Open
<1>7. ASSUME NEW k \in S!Cookies
      PROVE  Told(d.notified[k], k \in {d.startCookie, d.stopCookie}, k <= m,
                  k \in gone \union lost)
  <2>1. /\ Told(c.notified[k], k \in {c.startCookie, c.stopCookie}, k <= n, k \in gone)
        /\ k \in Nat /\ k # 0
    BY Bounds DEF Kept
  <2>2. /\ k \in {c.startCookie, c.stopCookie} <=> k \in Open(c)
        /\ k \in {d.startCookie, d.stopCookie} <=> k \in Open(d)
    BY <2>1 DEF Open
  <2>3. k \in n + 1 .. m <=> k <= m /\ ~(k <= n)
    BY <2>1
  <2>4. k \in Open(c) => k <= n
    BY <1>3
  <2>5. k \in gone => k <= n
    BY <1>1
  <2>6. k <= n => k <= m
    BY <2>1
  <2>7. (k <= n /\ k \notin Open(c) /\ k \notin gone)
          <=> (k <= m /\ k \notin Open(d) /\ k \notin gone /\ k \notin lost)
    BY <1>2, <2>3, <2>4, <2>6
  <2> QED
    BY <2>1, <2>2, <2>7 DEF Told
<1> QED
  BY <1>4, <1>5, <1>6, <1>7 DEF Kept

-----------------------------------------------------------------------------
(* What the lock guards, and the rest.                                     *)
CtlTypes ==
  /\ m_StreamState \in {"flowing", "discarding"}
  /\ m_StreamStateOnStop \in {"flowing", "discarding"}
  /\ m_tStartTime \in 0 .. S!MAX_TIME /\ m_tStopTime \in 0 .. S!MAX_TIME
  /\ m_dwStartCookie \in 0 .. MaxCommands /\ m_dwStopCookie \in 0 .. MaxCommands
  /\ notified \in [S!Cookies -> Nat]
FlagTypes ==
  /\ m_bIsFlushing \in BOOLEAN /\ m_bStopSendExtra \in BOOLEAN /\ m_bStopExtraSent \in BOOLEAN
  /\ m_StreamEvent \in BOOLEAN /\ m_pRefClock \in BOOLEAN /\ stopped \in BOOLEAN
  /\ m_FilterState \in {"Stopped", "Paused", "Running"}
PlaceTypes ==
  /\ at \in {"out", "flags", "times", "extra", "wait", "blocked"} /\ sample \in 0 .. MaxSamples
  /\ waitUntil \in 0 .. S!Forever /\ now \in 0 .. MaxNow
HistoryTypes == commands \in 0 .. MaxCommands /\ dropped \subseteq S!Cookies

LEMMA TypesOfControl == S!TypeOK <=> CtlTypes /\ FlagTypes /\ PlaceTypes /\ HistoryTypes
BY DEF S!TypeOK, CtlTypes, FlagTypes, PlaceTypes, HistoryTypes

LEMMA TypesOfControlNext ==
  CtlTypes' /\ FlagTypes' /\ PlaceTypes' /\ HistoryTypes' => S!TypeOK'
BY DEF S!TypeOK, CtlTypes, FlagTypes, PlaceTypes, HistoryTypes

LEMMA BecomesIs ==
  ASSUME NEW c \in Ctl, S!Becomes(c)
  PROVE  S!Control' = c /\ CtlTypes'
BY DEF S!Becomes, S!Control, Ctl, CtlTypes

LEMMA SameControl ==
  ASSUME CtlTypes, UNCHANGED S!commandState
  PROVE  S!Control' = S!Control /\ CtlTypes'
BY DEF CtlTypes, S!Control, S!commandState

(* Where the streaming thread is.                                          *)
PlaceInv ==
  /\ PlaceTypes
  /\ at # "out" => sample < MaxSamples
  /\ at = "blocked" => waitUntil \in {S!Forever, S!First}

LEMMA FirstIsInTime ==
  ASSUME PlaceInv
  PROVE  /\ at # "out" => S!First <= MaxNow
         /\ S!First \in Nat /\ now <= MaxNow /\ now \in Nat
<1>1. /\ Length \in Nat /\ MaxSamples \in Nat /\ MaxNow \in Nat /\ Length * MaxSamples <= MaxNow
      /\ sample \in Nat /\ now \in Nat /\ now <= MaxNow
  BY StreamingAssumption DEF PlaceInv, PlaceTypes
<1>2. S!First \in Nat
  BY <1>1 DEF S!First
<1>3. CASE at # "out"
  <2>1. sample <= MaxSamples
    BY <1>1, <1>3 DEF PlaceInv
  <2>2. Length * sample <= Length * MaxSamples
    BY <1>1, <2>1
  <2> QED
    BY <1>1, <1>2, <2>2 DEF S!First
<1> QED
  BY <1>1, <1>2, <1>3

LEMMA InvInParts ==
  ControlInv <=> /\ CtlTypes /\ FlagTypes /\ HistoryTypes /\ PlaceInv
                 /\ Kept(S!Control, commands, dropped) /\ Stated(S!Control)
BY TypesOfControl DEF ControlInv, PlaceInv

LEMMA InvInPartsNext ==
  ASSUME CtlTypes', FlagTypes', HistoryTypes', PlaceInv',
         Kept(S!Control', commands', dropped'), Stated(S!Control')
  PROVE  ControlInv'
BY TypesOfControlNext DEF ControlInv, PlaceInv

LEMMA SamePlace ==
  ASSUME PlaceInv, UNCHANGED <<S!streaming, now>>
  PROVE  PlaceInv'
BY DEF PlaceInv, PlaceTypes, S!streaming, S!First

LEMMA AnswerKeepsPlace ==
  ASSUME PlaceInv, at # "out", S!Answer, UNCHANGED now
  PROVE  PlaceInv'
BY StreamingAssumption, Bounds DEF PlaceInv, PlaceTypes, S!Answer

LEMMA GoesOn ==
  ASSUME PlaceInv, at # "out", at' \in {"flags", "times", "extra", "wait"},
         UNCHANGED sample, UNCHANGED now, waitUntil' \in {waitUntil, 0}
  PROVE  PlaceInv'
BY Bounds DEF PlaceInv, PlaceTypes

-----------------------------------------------------------------------------
(* The application's commands.                                             *)

(* A command that leaves the thread alone, becomes d and loses `lost`.     *)
LEMMA CommandKeepsInv ==
  ASSUME ControlInv, NEW d \in Ctl, NEW lost, S!Becomes(d),
         commands' \in commands .. MaxCommands, dropped' = dropped \union lost,
         d.notified = notified,
         d.startCookie = d.stopCookie => d.startCookie = 0,
         Open(d) \union lost = (({m_dwStartCookie, m_dwStopCookie} \ {0})
                                 \union (commands + 1 .. commands')),
         Open(d) \intersect lost = {},
         Stated(d), FlagTypes', UNCHANGED <<S!streaming, now>>
  PROVE  ControlInv'
<1> DEFINE c == S!Control
<1>1. /\ c \in Ctl /\ Kept(c, commands, dropped) /\ commands \in 0 .. MaxCommands
      /\ c.notified = notified /\ Open(c) = {m_dwStartCookie, m_dwStopCookie} \ {0}
  BY InvInParts, ControlIsTyped DEF ControlInv, HistoryTypes, S!Control, Open
<1> HIDE DEF c
<1>2. Kept(d, commands', dropped')
  BY <1>1, CommandKeeps
<1>3. S!Control' = d /\ CtlTypes'
  BY BecomesIs
<1>4. HistoryTypes'
  <2>1. commands' \in 0 .. MaxCommands
    BY <1>1
  <2>2. dropped' \subseteq 1 .. commands'
    BY <1>2 DEF Kept
  <2> QED
    BY <2>1, <2>2, Bounds DEF HistoryTypes
<1>5. PlaceInv'
  BY InvInParts, SamePlace
<1> QED
  BY <1>2, <1>3, <1>4, <1>5, InvInPartsNext

ControlFacts ==
  /\ CtlTypes /\ FlagTypes /\ Stated(S!Control)
  /\ commands \in 0 .. MaxCommands /\ commands \in Nat
  /\ m_dwStartCookie \in 0 .. commands /\ m_dwStopCookie \in 0 .. commands
  /\ m_dwStartCookie = m_dwStopCookie => m_dwStartCookie = 0

LEMMA ControlFactsHold == ControlInv => ControlFacts
<1> SUFFICES ASSUME ControlInv PROVE ControlFacts
  OBVIOUS
<1>1. /\ CtlTypes /\ FlagTypes /\ Stated(S!Control) /\ commands \in 0 .. MaxCommands
      /\ Kept(S!Control, commands, dropped)
  BY InvInParts DEF HistoryTypes
<1> QED
  BY <1>1, Bounds DEF ControlFacts, Kept, S!Control

(* What the four kinds of command make of what the lock guards.            *)
WithStop(c, state, t, k) ==
  [c EXCEPT !.state = state, !.stop = t, !.stopCookie = k, !.onStop = "discarding"]
WithStart(c, state, t, k) == [c EXCEPT !.state = state, !.start = t, !.startCookie = k]

LEMMA StopIsSet ==
  ASSUME NEW c \in Ctl, NEW state \in {"flowing", "discarding"}, NEW t \in 0 .. S!MAX_TIME,
         NEW k \in 0 .. MaxCommands
  PROVE  LET d == WithStop(c, state, t, k)
         IN  /\ d \in Ctl /\ d.stop = t /\ d.onStop = "discarding" /\ d.notified = c.notified
             /\ d.startCookie = c.startCookie /\ d.stopCookie = k
BY DEF Ctl, WithStop

LEMMA StartIsSet ==
  ASSUME NEW c \in Ctl, NEW state \in {"flowing", "discarding"}, NEW t \in 0 .. S!MAX_TIME,
         NEW k \in 0 .. MaxCommands
  PROVE  LET d == WithStart(c, state, t, k)
         IN  /\ d \in Ctl /\ d.stop = c.stop /\ d.onStop = c.onStop /\ d.notified = c.notified
             /\ d.startCookie = k /\ d.stopCookie = c.stopCookie
BY DEF Ctl, WithStart

LEMMA StopIsCancelled ==
  ASSUME NEW c \in Ctl, NEW state \in {"flowing", "discarding"}
  PROVE  LET d == [S!CancelStop(c) EXCEPT !.state = state]
         IN  /\ d \in Ctl /\ d.stop = S!MAX_TIME /\ d.onStop = "flowing"
             /\ d.notified = c.notified
             /\ d.startCookie = c.startCookie /\ d.stopCookie = 0
<1>1. S!MAX_TIME \in 0 .. S!MAX_TIME /\ 0 \in 0 .. MaxCommands
  BY Bounds
<1> QED
  BY <1>1 DEF Ctl, S!CancelStop

LEMMA StartIsCancelled ==
  ASSUME NEW c \in Ctl, NEW state \in {"flowing", "discarding"}
  PROVE  LET d == [S!CancelStart(c) EXCEPT !.state = state]
         IN  /\ d \in Ctl /\ d.stop = c.stop /\ d.onStop = c.onStop
             /\ d.notified = c.notified
             /\ d.startCookie = 0 /\ d.stopCookie = c.stopCookie
<1>1. S!MAX_TIME \in 0 .. S!MAX_TIME /\ 0 \in 0 .. MaxCommands
  BY Bounds
<1> QED
  BY <1>1 DEF Ctl, S!CancelStart

LEMMA StopAtKeepsInv ==
  ASSUME ControlInv, NEW t \in Times, NEW b \in BOOLEAN, S!StopAt(t, b)
  PROVE  ControlInv'
<1> DEFINE d == WithStop(S!Control, S!FromStopped(m_tStartTime > t, "flowing"), t, commands')
           lost == {m_dwStopCookie} \ {0}
<1>1. ControlFacts
  BY ControlFactsHold
<1>2. /\ S!Becomes(d) /\ dropped' = dropped \union lost /\ UNCHANGED <<S!streaming, now>>
      /\ commands' = commands + 1 /\ commands < MaxCommands
  BY DEF S!StopAt, S!Replaces, S!CancelStop, S!CancelStart, WithStop
<1>3. /\ d \in Ctl /\ Stated(d) /\ d.notified = notified
      /\ d.startCookie = m_dwStartCookie /\ d.stopCookie = commands + 1
  <2> DEFINE state == S!FromStopped(m_tStartTime > t, "flowing")
  <2>1. /\ S!Control \in Ctl /\ Stated(S!Control) /\ S!Control.notified = notified
        /\ S!Control.startCookie = m_dwStartCookie /\ S!Control.stopCookie = m_dwStopCookie
    BY <1>1 DEF ControlFacts, CtlTypes, S!Control, Ctl
  <2>2. state \in {"flowing", "discarding"}
    BY <1>1 DEF ControlFacts, CtlTypes, S!FromStopped
  <2>3. t \in 0 .. S!MAX_TIME /\ t # S!MAX_TIME /\ commands' \in 0 .. MaxCommands
    BY <1>1, <1>2, Bounds, StreamingAssumption DEF ControlFacts
  <2>4. /\ d \in Ctl /\ d.stop = t /\ d.onStop = "discarding"
        /\ d.notified = S!Control.notified
        /\ d.startCookie = S!Control.startCookie /\ d.stopCookie = commands'
    BY <2>1, <2>2, <2>3, StopIsSet
  <2> HIDE DEF d
  <2> QED
    BY <2>1, <2>2, <1>2, <2>3, <2>4 DEF Stated
<1> HIDE DEF d
<1>5. FlagTypes'
  BY <1>1 DEF ControlFacts, FlagTypes, S!StopAt, S!filter, S!extra
<1>6. commands' \in commands .. MaxCommands
  BY <1>1, <1>2, Bounds DEF ControlFacts
<1>7. d.startCookie = d.stopCookie => d.startCookie = 0
  BY <1>1, <1>3 DEF ControlFacts
<1>8. Open(d) \intersect lost = {}
  BY <1>1, <1>2, <1>3 DEF ControlFacts, Open
<1>9. Open(d) \union lost = (({m_dwStartCookie, m_dwStopCookie} \ {0})
                            \union (commands + 1 .. commands'))
  <2>1. commands + 1 .. commands' = {commands + 1}
    BY <1>1, <1>2 DEF ControlFacts
  <2> QED
    BY <1>1, <1>2, <1>3, <2>1 DEF ControlFacts, Open
<1> QED
  BY <1>2, <1>3, <1>5, <1>6, <1>7, <1>8, <1>9, CommandKeepsInv

LEMMA StopNowKeepsInv ==
  ASSUME ControlInv, S!StopNow
  PROVE  ControlInv'
<1> DEFINE d == [S!CancelStop(S!Control) EXCEPT !.state = "discarding"]
           lost == {m_dwStopCookie, commands'} \ {0}
<1>1. ControlFacts
  BY ControlFactsHold
<1>2. /\ S!Becomes(d) /\ dropped' = dropped \union lost /\ UNCHANGED <<S!streaming, now>>
      /\ commands' = commands + 1 /\ commands < MaxCommands
  BY DEF S!StopNow, S!Replaces, S!CancelStop, S!CancelStart
<1>3. /\ d \in Ctl /\ Stated(d) /\ d.notified = notified
      /\ d.startCookie = m_dwStartCookie /\ d.stopCookie = 0
  <2> DEFINE state == "discarding"
  <2>1. /\ S!Control \in Ctl /\ Stated(S!Control) /\ S!Control.notified = notified
        /\ S!Control.startCookie = m_dwStartCookie /\ S!Control.stopCookie = m_dwStopCookie
    BY <1>1 DEF ControlFacts, CtlTypes, S!Control, Ctl
  <2>2. state \in {"flowing", "discarding"}
    BY <1>1 DEF ControlFacts, CtlTypes, S!FromStopped
  <2> HIDE DEF state
  <2> QED
    BY <2>1, <2>2, <1>2, StopIsCancelled DEF Stated, state
<1> HIDE DEF d
<1>5. FlagTypes'
  BY <1>1 DEF ControlFacts, FlagTypes, S!StopNow, S!filter, S!extra
<1>6. commands' \in commands .. MaxCommands
  BY <1>1, <1>2, Bounds DEF ControlFacts
<1>7. d.startCookie = d.stopCookie => d.startCookie = 0
  BY <1>1, <1>3 DEF ControlFacts
<1>8. Open(d) \intersect lost = {}
  BY <1>1, <1>2, <1>3 DEF ControlFacts, Open
<1>9. Open(d) \union lost = (({m_dwStartCookie, m_dwStopCookie} \ {0})
                            \union (commands + 1 .. commands'))
  <2>1. commands + 1 .. commands' = {commands + 1}
    BY <1>1, <1>2 DEF ControlFacts
  <2> QED
    BY <1>1, <1>2, <1>3, <2>1 DEF ControlFacts, Open
<1> QED
  BY <1>2, <1>3, <1>5, <1>6, <1>7, <1>8, <1>9, CommandKeepsInv

LEMMA StopNeverKeepsInv ==
  ASSUME ControlInv, S!StopNever
  PROVE  ControlInv'
<1> DEFINE d == [S!CancelStop(S!Control) EXCEPT
                  !.state = S!FromStopped(m_tStartTime < S!MAX_TIME, "discarding")]
           lost == {m_dwStopCookie} \ {0}
<1>1. ControlFacts
  BY ControlFactsHold
<1>2. /\ S!Becomes(d) /\ dropped' = dropped \union lost /\ UNCHANGED <<S!streaming, now>>
      /\ commands' = commands
  BY DEF S!StopNever, S!Replaces, S!CancelStop, S!CancelStart
<1>3. /\ d \in Ctl /\ Stated(d) /\ d.notified = notified
      /\ d.startCookie = m_dwStartCookie /\ d.stopCookie = 0
  <2> DEFINE state == S!FromStopped(m_tStartTime < S!MAX_TIME, "discarding")
  <2>1. /\ S!Control \in Ctl /\ Stated(S!Control) /\ S!Control.notified = notified
        /\ S!Control.startCookie = m_dwStartCookie /\ S!Control.stopCookie = m_dwStopCookie
    BY <1>1 DEF ControlFacts, CtlTypes, S!Control, Ctl
  <2>2. state \in {"flowing", "discarding"}
    BY <1>1 DEF ControlFacts, CtlTypes, S!FromStopped
  <2> HIDE DEF state
  <2> QED
    BY <2>1, <2>2, <1>2, StopIsCancelled DEF Stated, state
<1> HIDE DEF d
<1>5. FlagTypes'
  BY <1>1 DEF ControlFacts, FlagTypes, S!StopNever, S!filter, S!extra
<1>6. commands' \in commands .. MaxCommands
  BY <1>1, <1>2, Bounds DEF ControlFacts
<1>7. d.startCookie = d.stopCookie => d.startCookie = 0
  BY <1>1, <1>3 DEF ControlFacts
<1>8. Open(d) \intersect lost = {}
  BY <1>1, <1>2, <1>3 DEF ControlFacts, Open
<1>9. Open(d) \union lost = (({m_dwStartCookie, m_dwStopCookie} \ {0})
                            \union (commands + 1 .. commands'))
  <2>1. commands + 1 .. commands' = {}
    BY <1>1, <1>2 DEF ControlFacts
  <2> QED
    BY <1>1, <1>2, <1>3, <2>1 DEF ControlFacts, Open
<1> QED
  BY <1>2, <1>3, <1>5, <1>6, <1>7, <1>8, <1>9, CommandKeepsInv

LEMMA StartAtKeepsInv ==
  ASSUME ControlInv, NEW t \in Times, S!StartAt(t)
  PROVE  ControlInv'
<1> DEFINE d == WithStart(S!Control, S!FromStopped(m_tStopTime >= t, "discarding"), t, commands')
           lost == {m_dwStartCookie} \ {0}
<1>1. ControlFacts
  BY ControlFactsHold
<1>2. /\ S!Becomes(d) /\ dropped' = dropped \union lost /\ UNCHANGED <<S!streaming, now>>
      /\ commands' = commands + 1 /\ commands < MaxCommands
  BY DEF S!StartAt, S!Replaces, S!CancelStop, S!CancelStart, WithStart
<1>3. /\ d \in Ctl /\ Stated(d) /\ d.notified = notified
      /\ d.startCookie = commands + 1 /\ d.stopCookie = m_dwStopCookie
  <2> DEFINE state == S!FromStopped(m_tStopTime >= t, "discarding")
  <2>1. /\ S!Control \in Ctl /\ Stated(S!Control) /\ S!Control.notified = notified
        /\ S!Control.startCookie = m_dwStartCookie /\ S!Control.stopCookie = m_dwStopCookie
    BY <1>1 DEF ControlFacts, CtlTypes, S!Control, Ctl
  <2>2. state \in {"flowing", "discarding"}
    BY <1>1 DEF ControlFacts, CtlTypes, S!FromStopped
  <2>3. t \in 0 .. S!MAX_TIME /\ t # S!MAX_TIME /\ commands' \in 0 .. MaxCommands
    BY <1>1, <1>2, Bounds, StreamingAssumption DEF ControlFacts
  <2>4. /\ d \in Ctl /\ d.stop = S!Control.stop /\ d.onStop = S!Control.onStop
        /\ d.notified = S!Control.notified
        /\ d.startCookie = commands' /\ d.stopCookie = S!Control.stopCookie
    BY <2>1, <2>2, <2>3, StartIsSet
  <2> HIDE DEF d
  <2> QED
    BY <2>1, <2>2, <1>2, <2>3, <2>4 DEF Stated
<1> HIDE DEF d
<1>5. FlagTypes'
  BY <1>1 DEF ControlFacts, FlagTypes, S!StartAt, S!filter, S!extra
<1>6. commands' \in commands .. MaxCommands
  BY <1>1, <1>2, Bounds DEF ControlFacts
<1>7. d.startCookie = d.stopCookie => d.startCookie = 0
  BY <1>1, <1>3 DEF ControlFacts
<1>8. Open(d) \intersect lost = {}
  BY <1>1, <1>2, <1>3 DEF ControlFacts, Open
<1>9. Open(d) \union lost = (({m_dwStartCookie, m_dwStopCookie} \ {0})
                            \union (commands + 1 .. commands'))
  <2>1. commands + 1 .. commands' = {commands + 1}
    BY <1>1, <1>2 DEF ControlFacts
  <2> QED
    BY <1>1, <1>2, <1>3, <2>1 DEF ControlFacts, Open
<1> QED
  BY <1>2, <1>3, <1>5, <1>6, <1>7, <1>8, <1>9, CommandKeepsInv

LEMMA StartNowKeepsInv ==
  ASSUME ControlInv, S!StartNow
  PROVE  ControlInv'
<1> DEFINE d == [S!CancelStart(S!Control) EXCEPT !.state = "flowing"]
           lost == {m_dwStartCookie, commands'} \ {0}
<1>1. ControlFacts
  BY ControlFactsHold
<1>2. /\ S!Becomes(d) /\ dropped' = dropped \union lost /\ UNCHANGED <<S!streaming, now>>
      /\ commands' = commands + 1 /\ commands < MaxCommands
  BY DEF S!StartNow, S!Replaces, S!CancelStop, S!CancelStart
<1>3. /\ d \in Ctl /\ Stated(d) /\ d.notified = notified
      /\ d.startCookie = 0 /\ d.stopCookie = m_dwStopCookie
  <2> DEFINE state == "flowing"
  <2>1. /\ S!Control \in Ctl /\ Stated(S!Control) /\ S!Control.notified = notified
        /\ S!Control.startCookie = m_dwStartCookie /\ S!Control.stopCookie = m_dwStopCookie
    BY <1>1 DEF ControlFacts, CtlTypes, S!Control, Ctl
  <2>2. state \in {"flowing", "discarding"}
    BY <1>1 DEF ControlFacts, CtlTypes, S!FromStopped
  <2> HIDE DEF state
  <2> QED
    BY <2>1, <2>2, <1>2, StartIsCancelled DEF Stated, state
<1> HIDE DEF d
<1>5. FlagTypes'
  BY <1>1 DEF ControlFacts, FlagTypes, S!StartNow, S!filter, S!extra
<1>6. commands' \in commands .. MaxCommands
  BY <1>1, <1>2, Bounds DEF ControlFacts
<1>7. d.startCookie = d.stopCookie => d.startCookie = 0
  BY <1>1, <1>3 DEF ControlFacts
<1>8. Open(d) \intersect lost = {}
  BY <1>1, <1>2, <1>3 DEF ControlFacts, Open
<1>9. Open(d) \union lost = (({m_dwStartCookie, m_dwStopCookie} \ {0})
                            \union (commands + 1 .. commands'))
  <2>1. commands + 1 .. commands' = {commands + 1}
    BY <1>1, <1>2 DEF ControlFacts
  <2> QED
    BY <1>1, <1>2, <1>3, <2>1 DEF ControlFacts, Open
<1> QED
  BY <1>2, <1>3, <1>5, <1>6, <1>7, <1>8, <1>9, CommandKeepsInv

LEMMA StartNeverKeepsInv ==
  ASSUME ControlInv, S!StartNever
  PROVE  ControlInv'
<1> DEFINE d == [S!CancelStart(S!Control) EXCEPT
                  !.state = S!FromStopped(m_tStopTime < S!MAX_TIME, "flowing")]
           lost == {m_dwStartCookie} \ {0}
<1>1. ControlFacts
  BY ControlFactsHold
<1>2. /\ S!Becomes(d) /\ dropped' = dropped \union lost /\ UNCHANGED <<S!streaming, now>>
      /\ commands' = commands
  BY DEF S!StartNever, S!Replaces, S!CancelStop, S!CancelStart
<1>3. /\ d \in Ctl /\ Stated(d) /\ d.notified = notified
      /\ d.startCookie = 0 /\ d.stopCookie = m_dwStopCookie
  <2> DEFINE state == S!FromStopped(m_tStopTime < S!MAX_TIME, "flowing")
  <2>1. /\ S!Control \in Ctl /\ Stated(S!Control) /\ S!Control.notified = notified
        /\ S!Control.startCookie = m_dwStartCookie /\ S!Control.stopCookie = m_dwStopCookie
    BY <1>1 DEF ControlFacts, CtlTypes, S!Control, Ctl
  <2>2. state \in {"flowing", "discarding"}
    BY <1>1 DEF ControlFacts, CtlTypes, S!FromStopped
  <2> HIDE DEF state
  <2> QED
    BY <2>1, <2>2, <1>2, StartIsCancelled DEF Stated, state
<1> HIDE DEF d
<1>5. FlagTypes'
  BY <1>1 DEF ControlFacts, FlagTypes, S!StartNever, S!filter, S!extra
<1>6. commands' \in commands .. MaxCommands
  BY <1>1, <1>2, Bounds DEF ControlFacts
<1>7. d.startCookie = d.stopCookie => d.startCookie = 0
  BY <1>1, <1>3 DEF ControlFacts
<1>8. Open(d) \intersect lost = {}
  BY <1>1, <1>2, <1>3 DEF ControlFacts, Open
<1>9. Open(d) \union lost = (({m_dwStartCookie, m_dwStopCookie} \ {0})
                            \union (commands + 1 .. commands'))
  <2>1. commands + 1 .. commands' = {}
    BY <1>1, <1>2 DEF ControlFacts
  <2> QED
    BY <1>1, <1>2, <1>3, <2>1 DEF ControlFacts, Open
<1> QED
  BY <1>2, <1>3, <1>5, <1>6, <1>7, <1>8, <1>9, CommandKeepsInv

-----------------------------------------------------------------------------
(* The filter and the streaming thread.                                    *)

(* Steps that leave the commands alone.                                    *)
LEMMA QuietKeepsInv ==
  ASSUME ControlInv, UNCHANGED S!commandState, UNCHANGED <<commands, dropped>>,
         FlagTypes', PlaceInv'
  PROVE  ControlInv'
<1>1. S!Control' = S!Control /\ CtlTypes'
  BY InvInParts, SameControl
<1>2. Kept(S!Control', commands', dropped') /\ Stated(S!Control') /\ HistoryTypes'
  BY <1>1, InvInParts DEF HistoryTypes
<1> QED
  BY <1>1, <1>2, InvInPartsNext

(* Steps by which pending commands take effect.                            *)
LEMMA EffectKeepsInv ==
  ASSUME ControlInv, NEW c \in Ctl, S!Becomes(c), Kept(c, commands, dropped), Stated(c),
         UNCHANGED <<commands, dropped>>, FlagTypes', PlaceInv'
  PROVE  ControlInv'
<1>1. S!Control' = c /\ CtlTypes'
  BY BecomesIs
<1>2. Kept(S!Control', commands', dropped') /\ Stated(S!Control') /\ HistoryTypes'
  BY <1>1, InvInParts DEF HistoryTypes
<1> QED
  BY <1>1, <1>2, InvInPartsNext

LEMMA NotifyStoppedKeepsInv ==
  ASSUME ControlInv, S!NotifyStopped
  PROVE  ControlInv'
<1> DEFINE d == S!PendingDone(S!Control)
           c == [d EXCEPT !.state = "flowing"]
<1>1. d \in Ctl /\ Kept(d, commands, dropped) /\ Stated(d)
  BY InvInParts, TypesOfControl, ControlIsTyped, PendingKeeps DEF ControlInv, HistoryTypes
<1>2. S!Becomes(c) /\ UNCHANGED <<commands, dropped>>
  BY DEF S!NotifyStopped
<1> HIDE DEF d
<1>3. c \in Ctl /\ Kept(c, commands, dropped) /\ Stated(c)
  BY <1>1 DEF Ctl, Kept, Stated
<1>4. FlagTypes'
  BY InvInParts DEF FlagTypes, S!NotifyStopped, S!extra
<1>5. PlaceInv'
  BY InvInParts, SamePlace DEF S!NotifyStopped
<1> HIDE DEF c
<1> QED
  BY <1>2, <1>3, <1>4, <1>5, EffectKeepsInv

LEMMA FilterStateKeepsInv ==
  ASSUME ControlInv, NEW state \in {"Paused", "Running"}, S!NotifyFilterState(state)
  PROVE  ControlInv'
<1>1. UNCHANGED S!commandState /\ UNCHANGED <<commands, dropped>>
  BY DEF S!NotifyFilterState, S!history
<1>2. FlagTypes'
  BY InvInParts DEF FlagTypes, S!NotifyFilterState, S!extra, S!history
<1>3. PlaceInv'
  <2>1. /\ PlaceInv /\ at' = at /\ waitUntil' = waitUntil
        /\ m_FilterState = "Stopped" => at = "out"
        /\ now' = (IF m_FilterState = "Stopped" THEN 0 ELSE now)
        /\ sample' = (IF m_FilterState = "Stopped" THEN 0 ELSE sample)
    BY InvInParts DEF S!NotifyFilterState
  <2> QED
    BY <2>1, StreamingAssumption DEF PlaceInv, PlaceTypes, S!First
<1> QED
  BY <1>1, <1>2, <1>3, QuietKeepsInv

LEMMA FlushingKeepsInv ==
  ASSUME ControlInv, NEW b \in BOOLEAN, S!Flushing(b)
  PROVE  ControlInv'
<1>1. UNCHANGED S!commandState /\ UNCHANGED <<commands, dropped>>
  BY DEF S!Flushing, S!history
<1>2. FlagTypes'
  BY InvInParts DEF FlagTypes, S!Flushing, S!extra, S!history
<1>3. PlaceInv'
  BY InvInParts, SamePlace DEF S!Flushing
<1> QED
  BY <1>1, <1>2, <1>3, QuietKeepsInv

LEMMA SyncSourceKeepsInv ==
  ASSUME ControlInv, S!SetSyncSource
  PROVE  ControlInv'
<1>1. UNCHANGED S!commandState /\ UNCHANGED <<commands, dropped>>
  BY DEF S!SetSyncSource, S!history
<1>2. FlagTypes'
  BY InvInParts DEF FlagTypes, S!SetSyncSource, S!extra, S!history
<1>3. PlaceInv'
  BY InvInParts, SamePlace DEF S!SetSyncSource
<1> QED
  BY <1>1, <1>2, <1>3, QuietKeepsInv

LEMMA ReceiveKeepsControl ==
  ASSUME ControlInv, S!Receive
  PROVE  ControlInv'
<1>1. UNCHANGED S!commandState /\ UNCHANGED <<commands, dropped>>
  BY DEF S!Receive, S!history
<1>2. FlagTypes'
  BY InvInParts DEF FlagTypes, S!Receive, S!extra, S!filter, S!history
<1>3. PlaceInv'
  BY InvInParts DEF PlaceInv, PlaceTypes, S!Receive
<1> QED
  BY <1>1, <1>2, <1>3, QuietKeepsInv

LEMMA FlagsKeepInv ==
  ASSUME ControlInv, S!LookAtFlags
  PROVE  ControlInv'
<1>1. UNCHANGED S!commandState /\ UNCHANGED <<commands, dropped>>
  BY DEF S!LookAtFlags, S!history
<1>2. FlagTypes'
  BY InvInParts DEF FlagTypes, S!LookAtFlags, S!extra, S!filter, S!history
<1>3. PlaceInv'
  <2>1. PlaceInv /\ at # "out" /\ UNCHANGED now
    BY InvInParts DEF S!LookAtFlags
  <2>2. \/ S!Answer
        \/ at' = "times" /\ UNCHANGED <<sample, waitUntil>>
    BY DEF S!LookAtFlags
  <2> QED
    BY <2>1, <2>2, AnswerKeepsPlace, GoesOn
<1> QED
  BY <1>1, <1>2, <1>3, QuietKeepsInv

LEMMA TimesKeepInv ==
  ASSUME ControlInv, S!LookAtTimes
  PROVE  ControlInv'
<1> DEFINE c == S!CheckSampleTimes(S!Control, S!First, S!Last)
<1>1. c \in Ctl /\ Kept(c, commands, dropped) /\ Stated(c)
  BY InvInParts, TypesOfControl, ControlIsTyped, TimesKeep DEF ControlInv, HistoryTypes
<1>2. S!Becomes(c) /\ UNCHANGED <<commands, dropped>>
  BY DEF S!LookAtTimes
<1>3. FlagTypes'
  BY InvInParts DEF FlagTypes, S!LookAtTimes, S!extra, S!filter
<1>4. PlaceInv'
  <2>1. PlaceInv /\ at # "out" /\ UNCHANGED now
    BY InvInParts DEF S!LookAtTimes
  <2>2. \/ S!Answer
        \/ at' = "extra" /\ UNCHANGED <<sample, waitUntil>>
    BY DEF S!LookAtTimes
  <2> QED
    BY <2>1, <2>2, AnswerKeepsPlace, GoesOn
<1> HIDE DEF c
<1> QED
  BY <1>1, <1>2, <1>3, <1>4, EffectKeepsInv

LEMMA ExtraKeepsInv ==
  ASSUME ControlInv, S!LookAtExtra
  PROVE  ControlInv'
<1>1. UNCHANGED S!commandState /\ UNCHANGED <<commands, dropped>>
  BY DEF S!LookAtExtra, S!history
<1>2. FlagTypes'
  BY InvInParts DEF FlagTypes, S!LookAtExtra, S!filter, S!history
<1>3. PlaceInv'
  <2>1. PlaceInv /\ at # "out" /\ UNCHANGED now
    BY InvInParts DEF S!LookAtExtra
  <2>2. \/ S!Answer
        \/ at' = "wait" /\ UNCHANGED <<sample, waitUntil>>
    BY DEF S!LookAtExtra
  <2> QED
    BY <2>1, <2>2, AnswerKeepsPlace, GoesOn
<1> QED
  BY <1>1, <1>2, <1>3, QuietKeepsInv

LEMMA WaitKeepsInv ==
  ASSUME ControlInv, S!BeginWait
  PROVE  ControlInv'
<1>1. UNCHANGED S!commandState /\ UNCHANGED <<commands, dropped>>
  BY DEF S!BeginWait, S!history
<1>2. FlagTypes'
  BY InvInParts DEF FlagTypes, S!BeginWait, S!extra, S!filter, S!history
<1>3. PlaceInv'
  <2>1. PlaceInv /\ at # "out" /\ UNCHANGED now
    BY InvInParts DEF S!BeginWait
  <2>2. \/ S!Answer
        \/ at' = "blocked" /\ waitUntil' = S!WaitTime /\ UNCHANGED sample
    BY DEF S!BeginWait
  <2>3. CASE at' = "blocked" /\ waitUntil' = S!WaitTime /\ UNCHANGED sample
    <3>1. S!WaitTime \in {S!Forever, S!First} /\ S!First' = S!First
      BY <2>3 DEF S!WaitTime, S!First
    <3>2. S!First \in 0 .. S!Forever
      BY <2>1, FirstIsInTime, Bounds, StreamingAssumption
    <3> QED
      BY <2>1, <2>3, <3>1, <3>2, Bounds DEF PlaceInv, PlaceTypes
  <2> QED
    BY <2>1, <2>2, <2>3, AnswerKeepsPlace
<1> QED
  BY <1>1, <1>2, <1>3, QuietKeepsInv

LEMMA WakeKeepsInv ==
  ASSUME ControlInv, S!WokenUp \/ S!TimedOut
  PROVE  ControlInv'
<1>1. UNCHANGED S!commandState /\ UNCHANGED <<commands, dropped>>
  BY DEF S!WokenUp, S!TimedOut, S!history
<1>2. FlagTypes'
  BY InvInParts DEF FlagTypes, S!WokenUp, S!TimedOut, S!extra, S!filter, S!history
<1>3. PlaceInv'
  <2>1. PlaceInv /\ at # "out" /\ UNCHANGED now
    BY InvInParts DEF S!WokenUp, S!TimedOut
  <2>2. \/ S!Answer
        \/ at' = "flags" /\ waitUntil' = 0 /\ UNCHANGED sample
    BY DEF S!WokenUp, S!TimedOut
  <2> QED
    BY <2>1, <2>2, AnswerKeepsPlace, GoesOn
<1> QED
  BY <1>1, <1>2, <1>3, QuietKeepsInv

LEMMA TickKeepsInv ==
  ASSUME ControlInv, S!Tick
  PROVE  ControlInv'
<1>1. UNCHANGED S!commandState /\ UNCHANGED <<commands, dropped>>
  BY DEF S!Tick, S!history
<1>2. FlagTypes'
  BY InvInParts DEF FlagTypes, S!Tick, S!extra, S!filter, S!history
<1>3. PlaceInv'
  <2>1. PlaceInv /\ UNCHANGED <<at, sample, waitUntil>> /\ now' = now + 1 /\ now < MaxNow
    BY InvInParts DEF S!Tick, S!streaming
  <2> QED
    BY <2>1, StreamingAssumption DEF PlaceInv, PlaceTypes, S!First
<1> QED
  BY <1>1, <1>2, <1>3, QuietKeepsInv

LEMMA ControlStepKeepsInv ==
  ASSUME ControlInv, [S!ControlNext]_controlVars
  PROVE  ControlInv'
<1>1. CASE S!Application
  BY <1>1, StartAtKeepsInv, StopAtKeepsInv, StartNowKeepsInv, StartNeverKeepsInv,
     StopNowKeepsInv, StopNeverKeepsInv DEF S!Application
<1>2. CASE S!Filter
  BY <1>2, FilterStateKeepsInv, NotifyStoppedKeepsInv, SyncSourceKeepsInv, FlushingKeepsInv
  DEF S!Filter
<1>3. CASE S!Receive \/ S!CheckStreamState \/ S!Tick
  BY <1>3, ReceiveKeepsControl, FlagsKeepInv, TimesKeepInv, ExtraKeepsInv, WaitKeepsInv,
     WakeKeepsInv, TickKeepsInv DEF S!CheckStreamState
<1>4. CASE UNCHANGED controlVars
  <2>1. /\ UNCHANGED S!commandState /\ UNCHANGED <<commands, dropped>>
        /\ UNCHANGED <<S!streaming, now>>
    BY <1>4 DEF controlVars, S!commandState, S!streaming
  <2>2. FlagTypes'
    BY <1>4, InvInParts DEF FlagTypes, controlVars
  <2>3. PlaceInv'
    BY <2>1, InvInParts, SamePlace
  <2> QED
    BY <2>1, <2>2, <2>3, QuietKeepsInv
<1> QED
  BY <1>1, <1>2, <1>3, <1>4 DEF S!ControlNext

LEMMA ControlInitially == S!Init => ControlInv
<1> SUFFICES ASSUME S!Init PROVE ControlInv
  OBVIOUS
<1>1. CtlTypes /\ FlagTypes /\ HistoryTypes /\ PlaceInv
  <2>1. FlagTypes
    BY DEF S!Init, FlagTypes
  <2>2. CtlTypes /\ HistoryTypes
    BY Bounds DEF S!Init, CtlTypes, HistoryTypes
  <2>3. PlaceInv
    BY Bounds, StreamingAssumption DEF S!Init, PlaceInv, PlaceTypes
  <2> QED
    BY <2>1, <2>2, <2>3
<1>2. Stated(S!Control)
  BY DEF S!Init, S!Control, Stated
<1>3. Kept(S!Control, commands, dropped)
  <2>1. /\ S!Control.startCookie = 0 /\ S!Control.stopCookie = 0
        /\ S!Control.notified = [k \in S!Cookies |-> 0] /\ commands = 0 /\ dropped = {}
    BY DEF S!Init, S!Control
  <2>2. \A k \in S!Cookies : k \in Nat /\ k # 0
    BY Bounds
  <2> QED
    BY <2>1, <2>2 DEF Kept, Told
<1> QED
  BY <1>1, <1>2, <1>3, InvInParts

LEMMA ControlInvHolds == StreamingSpec => []ControlInv
<1>1. StreamingInit => ControlInv
  BY ControlInitially DEF StreamingInit
<1>2. ControlInv /\ [StreamingNext]_allVars => ControlInv'
  <2> SUFFICES ASSUME ControlInv, [StreamingNext]_allVars PROVE ControlInv'
    OBVIOUS
  <2>1. [S!ControlNext]_controlVars
    BY DEF StreamingNext, Pull, Control, ButThread, ButPull, ButControl, allVars
  <2> QED
    BY <2>1, ControlStepKeepsInv
<1> QED
  BY <1>1, <1>2, PTL DEF StreamingSpec

(* Whoever waits for a command of stream control (StartAt, StopAt with a   *)
(* cookie) is told once, or the command was taken back; a pending stop has *)
(* a state to go to and nothing else has: however commands, samples,       *)
(* flushes and changes of the filter's state are mixed.                    *)
THEOREM ControlIsSafe == StreamingSpec => []ControlSafety
<1>1. ControlInv => ControlSafety
  <2> SUFFICES ASSUME ControlInv PROVE ControlSafety
    OBVIOUS
  <2>1. S!TypeOK
    BY DEF ControlInv
  <2>2. S!EveryCookieAccountedFor
    <3>1. /\ commands \in 0 .. MaxCommands /\ Kept(S!Control, commands, dropped)
          /\ S!Control.startCookie = m_dwStartCookie /\ S!Control.stopCookie = m_dwStopCookie
          /\ S!Control.notified = notified
      BY InvInParts DEF HistoryTypes, S!Control
    <3> SUFFICES ASSUME NEW k \in 1 .. commands
                 PROVE  \/ /\ k \in {m_dwStartCookie, m_dwStopCookie}
                           /\ notified[k] = 0 /\ k \notin dropped
                        \/ /\ k \notin {m_dwStartCookie, m_dwStopCookie}
                           /\ notified[k] + (IF k \in dropped THEN 1 ELSE 0) = 1
      BY DEF S!EveryCookieAccountedFor
    <3>2. k \in S!Cookies /\ k <= commands
      BY <3>1, Bounds
    <3>3. /\ Told(notified[k], k \in {m_dwStartCookie, m_dwStopCookie}, k <= commands,
                  k \in dropped)
          /\ k \in {m_dwStartCookie, m_dwStopCookie} => k \notin dropped
      BY <3>1, <3>2 DEF Kept
    <3> QED
      BY <3>2, <3>3 DEF Told
  <2>3. S!StopHasAState
    <3>1. m_tStopTime = S!MAX_TIME <=> m_StreamStateOnStop = "flowing"
      BY InvInParts DEF Stated, S!Control
    <3> QED
      BY <3>1 DEF S!StopHasAState
  <2> QED
    BY <2>1, <2>2, <2>3 DEF ControlSafety, S!ControlSafety
<1> QED
  BY <1>1, ControlInvHolds, PTL

(* With a clock, and unless the filter stops or flushes, a sample is not   *)
(* discarded before its time, whatever wakes the streaming thread.         *)
THEOREM DiscardsNeverEarly == StreamingSpec => DiscardsInTime
<1>1. ControlInv /\ [StreamingNext]_allVars =>
        [(at \in {"wait", "blocked"} /\ at' = "out" /\ m_pRefClock)
           => (now + 1 > S!First)]_S!controlVars
  <2> SUFFICES ASSUME ControlInv, StreamingNext, at \in {"wait", "blocked"}, at' = "out",
                      m_pRefClock
               PROVE  now + 1 > S!First
    BY DEF allVars, controlVars, S!controlVars, S!commandState, S!extra, S!filter, S!streaming,
           S!history
  <2>1. S!ControlNext
    <3>1. at' # at
      OBVIOUS
    <3>2. ~Pull /\ ~ButThread
      BY <3>1 DEF Pull, ButPull, ButThread, controlVars
    <3> QED
      BY <3>2 DEF StreamingNext, Control
  <2>2. PlaceInv /\ S!First \in Nat /\ now \in Nat /\ now <= MaxNow /\ MaxNow \in Nat
    BY InvInParts, FirstIsInTime, StreamingAssumption
  <2>3. CASE S!BeginWait
    <3>1. S!WaitTime < now + 1
      BY <2>3 DEF S!BeginWait
    <3>2. S!WaitTime # S!Forever
      BY <2>2, <3>1 DEF S!Forever
    <3>3. S!WaitTime = S!First
      BY <3>2 DEF S!WaitTime
    <3> QED
      BY <2>2, <3>1, <3>3
  <2>4. CASE S!TimedOut
    <3>1. at = "blocked" /\ waitUntil <= now
      BY <2>4 DEF S!TimedOut
    <3>2. waitUntil \in {S!Forever, S!First}
      BY <2>2, <3>1 DEF PlaceInv
    <3> QED
      BY <2>2, <3>1, <3>2 DEF S!Forever
  <2>5. S!BeginWait \/ S!TimedOut
    <3>1. ~S!Application
      BY DEF S!Application, S!StartAt, S!StopAt, S!StartNow, S!StartNever, S!StopNow, S!StopNever,
             S!streaming
    <3>2. ~S!Filter
      BY DEF S!Filter, S!NotifyFilterState, S!NotifyStopped, S!SetSyncSource, S!Flushing,
             S!streaming
    <3>3. ~S!Receive /\ ~S!Tick
      BY DEF S!Receive, S!Tick, S!streaming
    <3>4. ~S!LookAtFlags /\ ~S!LookAtTimes /\ ~S!LookAtExtra /\ ~S!WokenUp
      BY DEF S!LookAtFlags, S!LookAtTimes, S!LookAtExtra, S!WokenUp
    <3> QED
      BY <2>1, <3>1, <3>2, <3>3, <3>4 DEF S!ControlNext, S!CheckStreamState
  <2> QED
    BY <2>3, <2>4, <2>5
<1> QED
  BY <1>1, ControlInvHolds, PTL DEF StreamingSpec, DiscardsInTime, S!DiscardsInTime

(* The table of strmctl.cpp 211-231, read event by event: a start takes    *)
(* effect if it lies before the end of the sample; a stop if it lies       *)
(* before the beginning, or inside and before a start that is inside too.  *)
Pending(start, stop, state) ==
  [state |-> state, onStop |-> IF stop = S!MAX_TIME THEN "flowing" ELSE "discarding",
   start |-> start, stop |-> stop, startCookie |-> 0, stopCookie |-> 0, notified |-> <<>>]

ByTheTable(c, first, last) ==
  LET started == c.start < last
      stops == c.stop < first \/ (c.stop < last /\ started /\ c.stop < c.start)
  IN  CASE started /\ stops   -> IF c.start <= c.stop THEN "discarding" ELSE "flowing"
        [] started /\ ~stops  -> "flowing"
        [] ~started /\ stops  -> "discarding"
        [] ~started /\ ~stops -> c.state

(* What the comment says of every sample, whatever is pending.             *)
FollowsTheTable ==
  \A start, stop \in 0 .. S!MAX_TIME, first \in 0 .. MaxNow, state \in {"flowing", "discarding"} :
    \A last \in (first + 1) .. MaxNow :
      LET c == Pending(start, stop, state)
      IN  S!CheckSampleTimes(c, first, last).state = ByTheTable(c, first, last)

(* What the table looks at.                                                *)
Views(N) == [state : {"flowing", "discarding"}, onStop : {"flowing", "discarding"},
             start : Nat, stop : Nat, startCookie : Nat, stopCookie : Nat, notified : N]

LEMMA StartInView ==
  ASSUME NEW N, NEW c \in Views(N), S!MAX_TIME \in Nat
  PROVE  LET e == S!ExecuteStart(c) IN
           /\ e \in Views({e.notified}) /\ e.state = "flowing" /\ e.onStop = c.onStop
           /\ e.start = S!MAX_TIME /\ e.stop = c.stop
BY DEF Views, S!ExecuteStart, S!CancelStart, S!Notify

LEMMA StopInView ==
  ASSUME NEW N, NEW c \in Views(N), S!MAX_TIME \in Nat
  PROVE  LET e == S!ExecuteStop(c) IN
           /\ e \in Views({e.notified}) /\ e.state = c.onStop /\ e.onStop = "flowing"
           /\ e.stop = S!MAX_TIME /\ e.start = c.start
BY DEF Views, S!ExecuteStop, S!CancelStop, S!Notify

(* CheckSampleTimes decides each of the 19 cases of the table in its       *)
(* comment as the table says, wherever a start, a stop and a sample lie.   *)
THEOREM TableIsFollowed == FollowsTheTable
<1> SUFFICES ASSUME NEW start \in 0 .. S!MAX_TIME, NEW stop \in 0 .. S!MAX_TIME,
                    NEW first \in 0 .. MaxNow, NEW state \in {"flowing", "discarding"},
                    NEW last \in (first + 1) .. MaxNow
             PROVE  S!CheckSampleTimes(Pending(start, stop, state), first, last).state
                      = ByTheTable(Pending(start, stop, state), first, last)
  BY DEF FollowsTheTable
<1> DEFINE c == Pending(start, stop, state)
<1>1. /\ c \in Views({<<>>}) /\ c.state = state /\ c.start = start /\ c.stop = stop
      /\ c.onStop = IF stop = S!MAX_TIME THEN "flowing" ELSE "discarding"
  BY StreamingAssumption DEF Pending, Views, S!MAX_TIME
<1>2. /\ S!MAX_TIME \in Nat /\ start \in Nat /\ stop \in Nat /\ first \in Nat /\ last \in Nat
      /\ first < last /\ last < S!MAX_TIME
  BY StreamingAssumption DEF S!MAX_TIME
<1> HIDE DEF c
<1>3. ByTheTable(c, first, last) =
        IF c.start < last
        THEN IF c.stop < first \/ (c.stop < last /\ c.stop < c.start)
             THEN IF c.start <= c.stop THEN "discarding" ELSE "flowing"
             ELSE "flowing"
        ELSE IF c.stop < first THEN "discarding" ELSE c.state
  BY DEF ByTheTable
<1>4. CASE c.stop >= first /\ c.start >= last
  <2>1. S!CheckSampleTimes(c, first, last) = c
    <3>1. ~(c.stop < first) /\ ~(c.start < last)
      BY <1>1, <1>2, <1>4
    <3> QED
      BY <1>4, <3>1 DEF S!CheckSampleTimes
  <2> QED
    BY <1>1, <1>2, <1>3, <1>4, <2>1 DEF c
<1>5. CASE c.stop >= first /\ c.start < last
  <2>1. S!CheckSampleTimes(c, first, last)
          = S!ExecuteStart(IF c.stop < c.start THEN S!ExecuteStop(c) ELSE c)
    BY <1>1, <1>2, <1>5 DEF S!CheckSampleTimes
  <2>2. S!CheckSampleTimes(c, first, last).state = "flowing"
    <3> DEFINE d == S!ExecuteStop(c)
    <3>1. CASE c.stop < c.start
      <4>1. d \in Views({d.notified})
        BY <1>1, <1>2, StopInView
      <4> HIDE DEF d
      <4>2. S!ExecuteStart(d).state = "flowing"
        BY <1>2, <4>1, StartInView
      <4> QED
        BY <2>1, <3>1, <4>2 DEF d
    <3>2. CASE ~(c.stop < c.start)
      <4>1. S!ExecuteStart(c).state = "flowing"
        BY <1>1, <1>2, StartInView
      <4> QED
        BY <2>1, <3>2, <4>1
    <3> QED
      BY <3>1, <3>2
  <2>3. ByTheTable(c, first, last) = "flowing"
    BY <1>1, <1>2, <1>3, <1>5
  <2> QED
    BY <2>2, <2>3 DEF c
<1>6. CASE c.stop < first /\ c.start >= last
  <2>1. S!CheckSampleTimes(c, first, last) = S!ExecuteStop(c)
    BY <1>1, <1>2, <1>6 DEF S!CheckSampleTimes
  <2>2. c.onStop = "discarding"
    BY <1>1, <1>2, <1>6
  <2>3. S!ExecuteStop(c).state = "discarding"
    BY <1>1, <1>2, <2>2, StopInView
  <2>4. ByTheTable(c, first, last) = "discarding"
    BY <1>1, <1>2, <1>3, <1>6
  <2> QED
    BY <2>1, <2>3, <2>4 DEF c
<1>7. CASE c.stop < first /\ c.start < last
  <2>1. S!CheckSampleTimes(c, first, last) = S!ExecuteBoth(c)
    BY <1>1, <1>2, <1>7 DEF S!CheckSampleTimes
  <2>2. c.onStop = "discarding"
    BY <1>1, <1>2, <1>7
  <2>3. CASE c.start <= c.stop
    <3>1. S!ExecuteBoth(c) = S!ExecuteStop(S!ExecuteStart(c))
      BY <2>3 DEF S!ExecuteBoth
    <3>2. S!ExecuteStop(S!ExecuteStart(c)).state = "discarding"
      <4> DEFINE d == S!ExecuteStart(c)
      <4>1. d \in Views({d.notified}) /\ d.onStop = "discarding"
        BY <1>1, <1>2, <2>2, StartInView
      <4> HIDE DEF d
      <4>2. S!ExecuteStop(d).state = "discarding"
        BY <1>2, <4>1, StopInView
      <4> QED
        BY <4>2 DEF d
    <3>3. ByTheTable(c, first, last) = "discarding"
      BY <1>1, <1>2, <1>3, <1>7, <2>3
    <3> QED
      BY <2>1, <3>1, <3>2, <3>3 DEF c
  <2>4. CASE ~(c.start <= c.stop)
    <3>1. S!ExecuteBoth(c) = S!ExecuteStart(S!ExecuteStop(c))
      BY <2>4 DEF S!ExecuteBoth
    <3>2. S!ExecuteStart(S!ExecuteStop(c)).state = "flowing"
      <4> DEFINE d == S!ExecuteStop(c)
      <4>1. d \in Views({d.notified})
        BY <1>1, <1>2, StopInView
      <4> HIDE DEF d
      <4>2. S!ExecuteStart(d).state = "flowing"
        BY <1>2, <4>1, StartInView
      <4> QED
        BY <4>2 DEF d
    <3>3. ByTheTable(c, first, last) = "flowing"
      BY <1>1, <1>2, <1>3, <1>7, <2>4
    <3> QED
      BY <2>1, <3>1, <3>2, <3>3 DEF c
  <2> QED
    BY <2>3, <2>4
<1> QED
  BY <1>1, <1>2, <1>4, <1>5, <1>6, <1>7 DEF c

-----------------------------------------------------------------------------
(* The pull pin.                                                           *)

(* The application's call and what it knows of the worker.                 *)
ThreadInv ==
  /\ m_bSync \in BOOLEAN /\ connected \in BOOLEAN /\ threadExists \in BOOLEAN
  /\ committed \in BOOLEAN /\ flushing \in BOOLEAN /\ downFlushing \in BOOLEAN
  /\ isActive \in BOOLEAN /\ refused \in {"none", "inactive", "disconnect", "seek"}
  /\ m_State \in {"TM_Exit", "TM_Pause", "TM_Start"} /\ m_tStart \in Nat /\ m_tStop \in Nat
  /\ \/ op = "none" /\ step = "idle"
     \/ op = "active" /\ step \in {"start", "tell", "started"}
     \/ op \in {"inactive", "disconnect"} /\ step \in {"stop", "ask", "wait", "close", "release"}
     \/ op = "seek" /\ step \in {"flush", "stop", "ask", "wait", "unflush", "start", "tell",
                                 "started", "done"}
  /\ threadExists => (connected /\ committed) \/ refused = "disconnect"
  /\ refused = "disconnect" /\ connected => op = "disconnect" /\ step = "release"
  /\ op = "disconnect" /\ step = "release" /\ threadExists => refused = "disconnect"
  /\ step \in {"ask", "wait", "close", "tell", "started"} => threadExists
  /\ call \in {"none", "answered", "TM_Exit", "TM_Pause", "TM_Start"}
  /\ step \notin {"wait", "started"} => call = "none"
  /\ step = "wait" => call \in {P!Command, "answered"} /\ m_State = P!Command
  /\ step = "started" => call \in {"TM_Start", "answered"}

(* What the worker does for it: a worker that has answered a command to    *)
(* stop has nothing left at the reader and is on its way to rest.          *)
AnswerInv ==
  /\ pc # "none" => threadExists
  /\ step = "wait" /\ call = "answered" =>
       requests = <<>> /\ pc \in (IF op = "seek" THEN {"flush", "unflush", "request"}
                                               ELSE {"exit", "none"})
  /\ flushing => pc = "unflush" \/ step \in {"ask", "wait"}
  /\ pc = "unflush" => flushing \/ requests = <<>>

Pieces == [start : Nat, stop : Nat, disc : BOOLEAN, round : {0, 1}]
InHandAt == {"read", "queue", "deliver"}
Pulling == {"check", "first", "buffer", "read", "queue", "inner", "collect", "deliver"}
Hand == IF pc \in InHandAt THEN 1 ELSE 0

(* Where the samples are.                                                  *)
PoolInv ==
  /\ free \in Nat /\ kept \in Nat /\ requests \in Seq(Pieces)
  /\ free + kept + Len(requests) + Hand = cBuffers

HandInv ==
  /\ pc \in Pulling \union {"none", "request", "process", "end", "flush", "unflush", "cleanup",
                           "exit"}
  /\ pSample \in Pieces /\ (pc \in InHandAt <=> pSample.stop # 0)
  /\ pc \notin InHandAt => pSample = P!NoSample
  /\ pc \in {"none", "request", "process", "exit", "check", "end", "first"} => requests = <<>>
  /\ pc = "cleanup" => todo = "flush"
  /\ result \in {"none", "S_OK", "S_FALSE", "E_FAIL"} /\ ended \in BOOLEAN
  /\ bDiscontinuity \in BOOLEAN /\ round \in {0, 1}

(* How far the reader's queue runs ahead of the sample waited for.         *)
Ahead == IF cBuffers > 1 /\ ~m_bSync THEN 1 ELSE 0

QueueInv ==
  /\ pc = "first" => cBuffers > 1 /\ ~m_bSync
  /\ pc = "read" => m_bSync
  /\ pc \in {"queue", "inner", "collect"} => ~m_bSync
  /\ pc = "buffer" => Len(requests) = Ahead
  /\ pc = "read" => requests = <<>> /\ todo = "buffer"
  /\ pc = "queue" => \/ todo = "first" /\ requests = <<>> /\ cBuffers > 1
                     \/ todo = "buffer" /\ Len(requests) = Ahead
  /\ pc = "inner" => Len(requests) = Ahead /\ todo \in {"first", "buffer"}
  /\ pc = "collect" => \/ todo = "last" /\ Len(requests) = 1
                       \/ todo = "buffer" /\ Len(requests) = Ahead + 1
  /\ pc = "deliver" => \/ todo = "last" /\ requests = <<>> /\ ~m_bSync
                       \/ todo = "buffer" /\ Len(requests) = Ahead

(* A sample of the range, and several one after the other.                 *)
Piece(s, from, start, r) ==
  s.start = from /\ s.stop = from + 1 /\ s.round = r /\ (s.disc <=> from = start)

Line(q, from, start, r) == \A i \in DOMAIN q : Piece(q[i], from + i - 1, start, r)

(* The sample downstream is to have next, and the first one at the reader. *)
Due == tCurrent - Len(requests) - Hand
NextQueued == IF pc = "deliver" THEN Due + 1 ELSE Due

(* While the worker pulls, what is delivered, what it has in hand and what *)
(* is at the reader follow each other without a gap from tStart to         *)
(* tCurrent.                                                               *)
RangeInv ==
  /\ tStart \in Nat /\ tCurrent \in Nat /\ tAlignStop \in Nat /\ tStop \in Nat
  /\ tStop <= tAlignStop /\ tAlignStop < tStop + Align
  /\ tStart <= Due
  /\ tStart < tCurrent => tCurrent <= tAlignStop
  /\ pc \in {"first", "buffer"} => tCurrent < tAlignStop
  /\ bDiscontinuity <=> tCurrent = tStart

LineInv ==
  /\ Line(requests, NextQueued, tStart, round)
  /\ pc = "deliver" => Piece(pSample, Due, tStart, round)
  /\ pc \in {"read", "queue"} => Piece(pSample, tCurrent - 1, tStart, round)

(* What was delivered last.                                                *)
Reached == delivered[Len(delivered)].stop

ReachInv ==
  /\ Due = tStart <=> delivered = <<>>
  /\ delivered # <<>> => Reached = P!Least(Due, tStop) - tStart

FlowInv == pc \in Pulling => RangeInv /\ LineInv /\ ReachInv

DoneInv ==
  /\ ended => pc \in {"flush", "unflush", "request", "process", "exit", "none"}
  /\ ended \/ pc = "end" =>
       /\ requests = <<>>
       /\ delivered # <<>> => Reached = tStop - tStart

Deliveries == [start : Int, stop : Int, disc : BOOLEAN, round : {0, 1}]

OrderInv == delivered \in Seq(Deliveries) /\ P!PullsInOrder

WorkInv == PoolInv /\ HandInv /\ QueueInv /\ FlowInv /\ DoneInv /\ OrderInv
PullInv == ThreadInv /\ AnswerInv /\ WorkInv

workVars == <<m_bSync, requests, free, kept, pc, todo, tStart, tCurrent, tAlignStop, tStop,
              bDiscontinuity, pSample, round, result, delivered, ended>>
threadVars == <<m_bSync, connected, m_State, m_tStart, m_tStop, threadExists, committed,
                op, step, isActive, refused, downFlushing>>

LEMMA PullStarts == StreamingInit => PullInv
<1> SUFFICES ASSUME StreamingInit PROVE PullInv
  OBVIOUS
<1>1. ThreadInv
  BY StreamingAssumption DEF StreamingInit, P!Init, ThreadInv
<1>2. AnswerInv
  BY DEF StreamingInit, P!Init, AnswerInv
<1>3. PoolInv /\ HandInv
  <2>1. requests = <<>> /\ requests \in Seq(Pieces) /\ Len(requests) = 0
    BY DEF StreamingInit, P!Init
  <2>2. /\ pc = "none" /\ todo = "none" /\ free = cBuffers /\ kept = 0 /\ pSample = P!NoSample
        /\ result = "none" /\ ended = FALSE /\ bDiscontinuity = FALSE /\ round = 0
    BY DEF StreamingInit, P!Init
  <2>3. P!NoSample \in Pieces /\ P!NoSample.stop = 0
    BY DEF P!NoSample, Pieces
  <2>4. Hand = 0 /\ pc \notin InHandAt
    BY <2>2 DEF Hand, InHandAt
  <2>5. cBuffers \in Nat
    BY StreamingAssumption
  <2>6. PoolInv
    BY <2>1, <2>2, <2>4, <2>5 DEF PoolInv
  <2>7. HandInv
    BY <2>1, <2>2, <2>3, <2>4 DEF HandInv
  <2> QED
    BY <2>6, <2>7
<1>4. QueueInv /\ FlowInv /\ DoneInv
  BY DEF StreamingInit, P!Init, QueueInv, FlowInv, DoneInv, Pulling
<1>5. OrderInv
  <2>1. delivered = <<>>
    BY DEF StreamingInit, P!Init
  <2> QED
    BY <2>1 DEF OrderInv, P!PullsInOrder
<1> QED
  BY <1>1, <1>2, <1>3, <1>4, <1>5 DEF PullInv, WorkInv

-----------------------------------------------------------------------------
(* The application's steps leave the worker's state alone.                 *)
LEMMA SameFlow ==
  ASSUME FlowInv,
         UNCHANGED <<requests, pc, tStart, tCurrent, tAlignStop, tStop, bDiscontinuity, pSample,
                     round, delivered>>
  PROVE  FlowInv'
BY DEF FlowInv, RangeInv, LineInv, ReachInv, Reached, NextQueued, Due, Hand

LEMMA SameWork ==
  ASSUME WorkInv, UNCHANGED workVars
  PROVE  WorkInv'
<1>1. PoolInv' /\ HandInv'
  BY DEF WorkInv, workVars, PoolInv, HandInv, Hand
<1>2. QueueInv'
  BY DEF WorkInv, workVars, QueueInv, Ahead
<1>3. FlowInv'
  BY SameFlow DEF WorkInv, workVars
<1>4. DoneInv'
  BY DEF WorkInv, workVars, DoneInv, Reached
<1>5. OrderInv'
  BY DEF WorkInv, workVars, OrderInv, P!PullsInOrder
<1> QED
  BY <1>1, <1>2, <1>3, <1>4, <1>5 DEF WorkInv

LEMMA ConnectKeepsPull ==
  ASSUME PullInv, P!Connect
  PROVE  PullInv'
<1>1. UNCHANGED workVars
  BY DEF P!Connect, P!Idle, workVars, P!settings, P!application, P!reader, P!pool, P!worker,
         P!range, P!seen
<1>2. ThreadInv /\ AnswerInv
  BY DEF PullInv
<1>3. ThreadInv'
  BY <1>2, StreamingAssumption DEF ThreadInv, P!Command, AnswerInv, P!Connect, P!Idle, P!settings,
     P!application, P!reader, P!pool, P!worker, P!range, P!seen
<1>4. AnswerInv'
  BY <1>2 DEF ThreadInv, AnswerInv, P!Command, P!Connect, P!Idle, P!settings, P!application,
     P!reader, P!pool, P!worker, P!range, P!seen
<1> QED
  BY <1>1, <1>3, <1>4, SameWork DEF PullInv

LEMMA ActiveKeepsPull ==
  ASSUME PullInv, P!Active
  PROVE  PullInv'
<1>1. UNCHANGED workVars
  BY DEF P!Active, P!Begin, P!Idle, workVars, P!settings, P!application, P!reader, P!pool,
         P!worker, P!range, P!seen
<1>2. ThreadInv /\ AnswerInv
  BY DEF PullInv
<1>3. ThreadInv'
  BY <1>2, StreamingAssumption DEF ThreadInv, P!Command, AnswerInv, P!Active, P!Begin, P!Idle,
     P!settings, P!application, P!reader, P!pool, P!worker, P!range, P!seen
<1>4. AnswerInv'
  BY <1>2 DEF ThreadInv, AnswerInv, P!Command, P!Active, P!Begin, P!Idle, P!settings,
     P!application, P!reader, P!pool, P!worker, P!range, P!seen
<1> QED
  BY <1>1, <1>3, <1>4, SameWork DEF PullInv

LEMMA InactiveKeepsPull ==
  ASSUME PullInv, P!Inactive
  PROVE  PullInv'
<1>1. UNCHANGED workVars
  BY DEF P!Inactive, P!Begin, P!Idle, workVars, P!settings, P!application, P!reader, P!pool,
         P!worker, P!range, P!seen
<1>2. ThreadInv /\ AnswerInv
  BY DEF PullInv
<1>3. ThreadInv'
  BY <1>2, StreamingAssumption DEF ThreadInv, P!Command, AnswerInv, P!Inactive, P!Begin, P!Idle,
     P!settings, P!application, P!reader, P!pool, P!worker, P!range, P!seen
<1>4. AnswerInv'
  BY <1>2 DEF ThreadInv, AnswerInv, P!Command, P!Inactive, P!Begin, P!Idle, P!settings,
     P!application, P!reader, P!pool, P!worker, P!range, P!seen
<1> QED
  BY <1>1, <1>3, <1>4, SameWork DEF PullInv

LEMMA DisconnectKeepsPull ==
  ASSUME PullInv, P!Disconnect
  PROVE  PullInv'
<1>1. UNCHANGED workVars
  BY DEF P!Disconnect, P!Begin, P!Idle, workVars, P!settings, P!application, P!reader, P!pool,
         P!worker, P!range, P!seen
<1>2. ThreadInv /\ AnswerInv
  BY DEF PullInv
<1>3. ThreadInv'
  BY <1>2, StreamingAssumption DEF ThreadInv, P!Command, AnswerInv, P!Disconnect, P!Begin, P!Idle,
     P!settings, P!application, P!reader, P!pool, P!worker, P!range, P!seen
<1>4. AnswerInv'
  BY <1>2 DEF ThreadInv, AnswerInv, P!Command, P!Disconnect, P!Begin, P!Idle, P!settings,
     P!application, P!reader, P!pool, P!worker, P!range, P!seen
<1> QED
  BY <1>1, <1>3, <1>4, SameWork DEF PullInv

LEMMA SeekKeepsPull ==
  ASSUME NEW a \in Nat, NEW b \in Nat, PullInv, P!Seek(a, b)
  PROVE  PullInv'
<1>1. UNCHANGED workVars
  BY DEF P!Seek, P!Idle, workVars, P!settings, P!application, P!reader, P!pool, P!worker, P!range,
         P!seen
<1>2. ThreadInv /\ AnswerInv
  BY DEF PullInv
<1>3. ThreadInv'
  BY <1>2, StreamingAssumption DEF ThreadInv, P!Command, AnswerInv, P!Seek, P!Idle, P!settings,
     P!application, P!reader, P!pool, P!worker, P!range, P!seen
<1>4. AnswerInv'
  BY <1>2 DEF ThreadInv, AnswerInv, P!Command, P!Seek, P!Idle, P!settings, P!application,
     P!reader, P!pool, P!worker, P!range, P!seen
<1> QED
  BY <1>1, <1>3, <1>4, SameWork DEF PullInv

LEMMA SeekBeginKeepsPull ==
  ASSUME PullInv, P!SeekBeginFlush
  PROVE  PullInv'
<1>1. UNCHANGED workVars
  BY DEF P!SeekBeginFlush, P!At, P!GoTo, workVars, P!settings, P!application, P!reader, P!pool,
         P!worker, P!range, P!seen
<1>2. ThreadInv /\ AnswerInv
  BY DEF PullInv
<1>3. ThreadInv'
  BY <1>2, StreamingAssumption DEF ThreadInv, P!Command, AnswerInv, P!SeekBeginFlush, P!At,
     P!GoTo, P!settings, P!application, P!reader, P!pool, P!worker, P!range, P!seen
<1>4. AnswerInv'
  BY <1>2 DEF ThreadInv, AnswerInv, P!Command, P!SeekBeginFlush, P!At, P!GoTo, P!settings,
     P!application, P!reader, P!pool, P!worker, P!range, P!seen
<1> QED
  BY <1>1, <1>3, <1>4, SameWork DEF PullInv

LEMMA NoThreadKeepsPull ==
  ASSUME PullInv, P!NoThread
  PROVE  PullInv'
<1>1. UNCHANGED workVars
  BY DEF P!NoThread, P!GoTo, workVars, P!settings, P!application, P!reader, P!pool, P!worker,
         P!range, P!seen
<1>2. ThreadInv /\ AnswerInv
  BY DEF PullInv
<1>3. ThreadInv'
  BY <1>2, StreamingAssumption DEF ThreadInv, P!Command, AnswerInv, P!NoThread, P!GoTo,
     P!settings, P!application, P!reader, P!pool, P!worker, P!range, P!seen
<1>4. AnswerInv'
  BY <1>2 DEF ThreadInv, AnswerInv, P!Command, P!NoThread, P!GoTo, P!settings, P!application,
     P!reader, P!pool, P!worker, P!range, P!seen
<1> QED
  BY <1>1, <1>3, <1>4, SameWork DEF PullInv

LEMMA BeginFlushKeepsPull ==
  ASSUME PullInv, P!BeginFlushReader
  PROVE  PullInv'
<1>1. UNCHANGED workVars
  BY DEF P!BeginFlushReader, P!FlushReader, P!GoTo, workVars, P!settings, P!application, P!reader,
         P!pool, P!worker, P!range, P!seen
<1>2. ThreadInv /\ AnswerInv
  BY DEF PullInv
<1>3. ThreadInv'
  BY <1>2, StreamingAssumption DEF ThreadInv, P!Command, AnswerInv, P!BeginFlushReader,
     P!FlushReader, P!GoTo, P!settings, P!application, P!reader, P!pool, P!worker, P!range, P!seen
<1>4. AnswerInv'
  BY <1>2 DEF ThreadInv, AnswerInv, P!Command, P!BeginFlushReader, P!FlushReader, P!GoTo,
     P!settings, P!application, P!reader, P!pool, P!worker, P!range, P!seen
<1> QED
  BY <1>1, <1>3, <1>4, SameWork DEF PullInv

LEMMA TellKeepsPull ==
  ASSUME PullInv, P!TellToStop
  PROVE  PullInv'
<1>1. UNCHANGED workVars
  BY DEF P!TellToStop, P!Command, P!GoTo, workVars, P!settings, P!application, P!reader, P!pool,
         P!worker, P!range, P!seen
<1>2. ThreadInv /\ AnswerInv
  BY DEF PullInv
<1>3. ThreadInv'
  BY <1>2, StreamingAssumption DEF ThreadInv, P!Command, AnswerInv, P!TellToStop, P!Command,
     P!GoTo, P!settings, P!application, P!reader, P!pool, P!worker, P!range, P!seen
<1>4. AnswerInv'
  BY <1>2 DEF ThreadInv, AnswerInv, P!Command, P!TellToStop, P!Command, P!GoTo, P!settings,
     P!application, P!reader, P!pool, P!worker, P!range, P!seen
<1> QED
  BY <1>1, <1>3, <1>4, SameWork DEF PullInv

LEMMA RefusalKeepsPull ==
  ASSUME PullInv, P!ReaderRefuses
  PROVE  PullInv'
<1>1. UNCHANGED workVars
  BY DEF P!ReaderRefuses, P!GoTo, workVars, P!settings, P!application, P!reader, P!pool, P!worker,
         P!range, P!seen
<1>2. ThreadInv /\ AnswerInv
  BY DEF PullInv
<1>3. ThreadInv'
  BY <1>2, StreamingAssumption DEF ThreadInv, P!Command, AnswerInv, P!ReaderRefuses, P!GoTo,
     P!settings, P!application, P!reader, P!pool, P!worker, P!range, P!seen
<1>4. AnswerInv'
  BY <1>2 DEF ThreadInv, AnswerInv, P!Command, P!ReaderRefuses, P!GoTo, P!settings, P!application,
     P!reader, P!pool, P!worker, P!range, P!seen
<1> QED
  BY <1>1, <1>3, <1>4, SameWork DEF PullInv

LEMMA EndFlushKeepsPull ==
  ASSUME PullInv, P!EndFlushReader
  PROVE  PullInv'
<1>1. UNCHANGED workVars
  BY DEF P!EndFlushReader, P!At, P!GoTo, P!Command, workVars, P!settings, P!application, P!reader,
         P!pool, P!worker, P!range, P!seen
<1>2. ThreadInv /\ AnswerInv
  BY DEF PullInv
<1>3. ThreadInv'
  BY <1>2, StreamingAssumption DEF ThreadInv, P!Command, AnswerInv, P!EndFlushReader, P!At,
     P!GoTo, P!Command, P!settings, P!application, P!reader, P!pool, P!worker, P!range, P!seen
<1>4. AnswerInv'
  BY <1>2 DEF ThreadInv, AnswerInv, P!Command, P!EndFlushReader, P!At, P!GoTo, P!Command,
     P!settings, P!application, P!reader, P!pool, P!worker, P!range, P!seen
<1> QED
  BY <1>1, <1>3, <1>4, SameWork DEF PullInv

LEMMA CloseKeepsPull ==
  ASSUME PullInv, P!Close
  PROVE  PullInv'
<1>1. UNCHANGED workVars
  BY DEF P!Close, P!ThreadGone, P!GoTo, workVars, P!settings, P!application, P!reader, P!pool,
         P!worker, P!range, P!seen
<1>2. ThreadInv /\ AnswerInv
  BY DEF PullInv
<1>3. ThreadInv'
  BY <1>2, StreamingAssumption DEF ThreadInv, P!Command, AnswerInv, P!Close, P!ThreadGone, P!GoTo,
     P!settings, P!application, P!reader, P!pool, P!worker, P!range, P!seen
<1>4. AnswerInv'
  BY <1>2 DEF ThreadInv, AnswerInv, P!Command, P!Close, P!ThreadGone, P!GoTo, P!settings,
     P!application, P!reader, P!pool, P!worker, P!range, P!seen
<1> QED
  BY <1>1, <1>3, <1>4, SameWork DEF PullInv

LEMMA ReleaseKeepsPull ==
  ASSUME PullInv, P!Release
  PROVE  PullInv'
<1>1. UNCHANGED workVars
  BY DEF P!Release, P!Return, workVars, P!settings, P!application, P!reader, P!pool, P!worker,
         P!range, P!seen
<1>2. ThreadInv /\ AnswerInv
  BY DEF PullInv
<1>3. ThreadInv'
  BY <1>2, StreamingAssumption DEF ThreadInv, P!Command, AnswerInv, P!Release, P!Return,
     P!settings, P!application, P!reader, P!pool, P!worker, P!range, P!seen
<1>4. AnswerInv'
  BY <1>2 DEF ThreadInv, AnswerInv, P!Command, P!Release, P!Return, P!settings, P!application,
     P!reader, P!pool, P!worker, P!range, P!seen
<1> QED
  BY <1>1, <1>3, <1>4, SameWork DEF PullInv

LEMMA SeekEndKeepsPull ==
  ASSUME NEW a \in Nat, NEW b \in Nat, PullInv, P!SeekEndFlush(a, b)
  PROVE  PullInv'
<1>1. UNCHANGED workVars
  BY DEF P!SeekEndFlush, P!At, P!GoTo, workVars, P!settings, P!application, P!reader, P!pool,
         P!worker, P!range, P!seen
<1>2. ThreadInv /\ AnswerInv
  BY DEF PullInv
<1>3. ThreadInv'
  BY <1>2, StreamingAssumption DEF ThreadInv, P!Command, AnswerInv, P!SeekEndFlush, P!At, P!GoTo,
     P!settings, P!application, P!reader, P!pool, P!worker, P!range, P!seen
<1>4. AnswerInv'
  BY <1>2 DEF ThreadInv, AnswerInv, P!Command, P!SeekEndFlush, P!At, P!GoTo, P!settings,
     P!application, P!reader, P!pool, P!worker, P!range, P!seen
<1> QED
  BY <1>1, <1>3, <1>4, SameWork DEF PullInv

LEMMA StartFailsKeepsPull ==
  ASSUME PullInv, P!StartFails
  PROVE  PullInv'
<1>1. UNCHANGED workVars
  BY DEF P!StartFails, P!Return, workVars, P!settings, P!application, P!reader, P!pool, P!worker,
         P!range, P!seen
<1>2. ThreadInv /\ AnswerInv
  BY DEF PullInv
<1>3. ThreadInv'
  <2>1. committed' \in BOOLEAN /\ (committed => committed')
    BY <1>2 DEF ThreadInv, P!StartFails
  <2> QED
    BY <1>2, <2>1 DEF ThreadInv, P!Command, P!StartFails, P!Return, P!reader, P!pool, P!worker,
       P!range, P!seen
<1>4. AnswerInv'
  BY <1>2 DEF ThreadInv, AnswerInv, P!Command, P!StartFails, P!Return, P!settings, P!application,
     P!reader, P!pool, P!worker, P!range, P!seen
<1> QED
  BY <1>1, <1>3, <1>4, SameWork DEF PullInv

LEMMA TellStartKeepsPull ==
  ASSUME PullInv, P!TellStart
  PROVE  PullInv'
<1>1. UNCHANGED workVars
  BY DEF P!TellStart, P!GoTo, workVars, P!settings, P!application, P!reader, P!pool, P!worker,
         P!range, P!seen
<1>2. ThreadInv /\ AnswerInv
  BY DEF PullInv
<1>3. ThreadInv'
  BY <1>2, StreamingAssumption DEF ThreadInv, P!Command, AnswerInv, P!TellStart, P!GoTo,
     P!settings, P!application, P!reader, P!pool, P!worker, P!range, P!seen
<1>4. AnswerInv'
  BY <1>2 DEF ThreadInv, AnswerInv, P!Command, P!TellStart, P!GoTo, P!settings, P!application,
     P!reader, P!pool, P!worker, P!range, P!seen
<1> QED
  BY <1>1, <1>3, <1>4, SameWork DEF PullInv

LEMMA StartedKeepsPull ==
  ASSUME PullInv, P!Started
  PROVE  PullInv'
<1>1. UNCHANGED workVars
  BY DEF P!Started, P!Return, workVars, P!settings, P!application, P!reader, P!pool, P!worker,
         P!range, P!seen
<1>2. ThreadInv /\ AnswerInv
  BY DEF PullInv
<1>3. ThreadInv'
  BY <1>2, StreamingAssumption DEF ThreadInv, P!Command, AnswerInv, P!Started, P!Return,
     P!settings, P!application, P!reader, P!pool, P!worker, P!range, P!seen
<1>4. AnswerInv'
  BY <1>2 DEF ThreadInv, AnswerInv, P!Command, P!Started, P!Return, P!settings, P!application,
     P!reader, P!pool, P!worker, P!range, P!seen
<1> QED
  BY <1>1, <1>3, <1>4, SameWork DEF PullInv

LEMMA CreateKeepsPull ==
  ASSUME PullInv, P!CreateThread
  PROVE  PullInv'
<1>1. /\ pc = "none" /\ pc' = "request" /\ step = "start" /\ step' = "tell" /\ op' = op
      /\ threadExists' /\ committed' /\ ~threadExists /\ connected
      /\ UNCHANGED <<m_bSync, connected, m_State, m_tStart, m_tStop, isActive, refused, call, flushing,
                     requests, free, kept, downFlushing, todo, tStart, tCurrent, tAlignStop,
                     tStop, bDiscontinuity, pSample, round, result, delivered, ended>>
  BY DEF PullInv, AnswerInv, P!CreateThread, P!GoTo, P!reader, P!pool, P!range, P!seen
<1>2. ThreadInv /\ AnswerInv /\ PoolInv /\ HandInv /\ QueueInv /\ DoneInv /\ OrderInv
  BY DEF PullInv, WorkInv
<1>3. threadExists' \in BOOLEAN /\ committed' \in BOOLEAN /\ connected'
  <2>1. threadExists' = TRUE /\ committed' = TRUE
    BY DEF P!CreateThread
  <2> QED
    BY <1>1, <1>2, <2>1 DEF ThreadInv
<1>4. ThreadInv'
  BY <1>1, <1>2, <1>3 DEF ThreadInv, P!Command
<1>5. AnswerInv'
  BY <1>1, <1>2 DEF ThreadInv, AnswerInv
<1>6. PoolInv' /\ HandInv'
  BY <1>1, <1>2 DEF PoolInv, HandInv, Hand, InHandAt, Pulling
<1>7. QueueInv' /\ FlowInv'
  BY <1>1 DEF QueueInv, FlowInv, Pulling
<1>8. DoneInv'
  BY <1>1, <1>2 DEF DoneInv, Reached
<1>9. OrderInv'
  BY <1>1, <1>2 DEF OrderInv, P!PullsInOrder
<1> QED
  BY <1>4, <1>5, <1>6, <1>7, <1>8, <1>9 DEF PullInv, WorkInv

-----------------------------------------------------------------------------
(* The worker.                                                             *)

(* Its steps leave the application's call alone.                           *)
LEMMA WorkerKeepsThread ==
  ASSUME ThreadInv, UNCHANGED threadVars, call' = call, flushing' \in BOOLEAN
  PROVE  ThreadInv'
BY DEF ThreadInv, threadVars, P!Command

(* While it pulls, no call to stop it has been answered.                   *)
LEMMA PullingIsUnanswered ==
  ASSUME AnswerInv, UNCHANGED threadVars, UNCHANGED <<call, flushing>>,
         pc \in Pulling \union {"cleanup", "process", "end"}, pc' \notin {"none", "unflush"}
  PROVE  AnswerInv'
BY DEF AnswerInv, threadVars, Pulling

LEMMA GiveBackKeepsPull ==
  ASSUME PullInv, P!GiveBack
  PROVE  PullInv'
<1>1. /\ kept > 0 /\ kept' = kept - 1 /\ free' = free + 1 /\ UNCHANGED threadVars
      /\ UNCHANGED <<call, flushing, requests, pc, todo, tStart, tCurrent, tAlignStop,
                     tStop, bDiscontinuity, pSample, round, result, delivered, ended>>
  BY DEF P!GiveBack, threadVars, P!settings, P!application, P!reader, P!worker, P!range, P!seen
<1>2. ThreadInv /\ AnswerInv /\ PoolInv /\ HandInv /\ QueueInv /\ FlowInv /\ DoneInv /\ OrderInv
  BY DEF PullInv, WorkInv
<1>3. ThreadInv' /\ AnswerInv'
  BY <1>1, <1>2 DEF ThreadInv, threadVars, P!Command, AnswerInv
<1>4. PoolInv' /\ HandInv'
  BY <1>1, <1>2 DEF PoolInv, HandInv, Hand
<1>5. QueueInv' /\ FlowInv' /\ DoneInv'
  BY <1>1, <1>2, SameFlow DEF threadVars, QueueInv, Ahead, DoneInv, Reached
<1>6. OrderInv'
  BY <1>1, <1>2 DEF OrderInv, P!PullsInOrder
<1> QED
  BY <1>3, <1>4, <1>5, <1>6 DEF PullInv, WorkInv

LEMMA GetRequestKeepsPull ==
  ASSUME PullInv, P!GetRequest
  PROVE  PullInv'
<1>1. /\ pc = "request" /\ call \in {"TM_Start", "TM_Pause", "TM_Exit"}
      /\ call' = "answered"
      /\ pc' = (CASE call = "TM_Start" -> "process"
                  [] call = "TM_Pause" -> "flush"
                  [] call = "TM_Exit"  -> "exit")
      /\ UNCHANGED threadVars
      /\ UNCHANGED <<flushing, requests, free, kept, todo, tStart, tCurrent, tAlignStop,
                     tStop, bDiscontinuity, pSample, round, result, delivered, ended>>
  BY DEF P!GetRequest, threadVars, P!settings, P!application, P!reader, P!pool, P!range, P!seen
<1>2. ThreadInv /\ AnswerInv /\ PoolInv /\ HandInv /\ DoneInv /\ OrderInv
  BY DEF PullInv, WorkInv
<1>3. ThreadInv'
  BY <1>1, <1>2 DEF ThreadInv, threadVars, P!Command
<1>4. AnswerInv'
  BY <1>1, <1>2 DEF ThreadInv, threadVars, P!Command, AnswerInv, HandInv
<1>5. PoolInv' /\ HandInv'
  BY <1>1, <1>2 DEF PoolInv, HandInv, Hand, InHandAt, Pulling
<1>6. QueueInv' /\ FlowInv'
  BY <1>1 DEF QueueInv, FlowInv, Pulling
<1>7. DoneInv'
  BY <1>1, <1>2 DEF DoneInv, Reached
<1>8. OrderInv'
  BY <1>1, <1>2 DEF OrderInv, P!PullsInOrder
<1> QED
  BY <1>3, <1>4, <1>5, <1>6, <1>7, <1>8 DEF PullInv, WorkInv

LEMMA ThreadEndsKeepsPull ==
  ASSUME PullInv, P!ThreadEnds
  PROVE  PullInv'
<1>1. /\ pc = "exit" /\ pc' = "none" /\ UNCHANGED threadVars
      /\ UNCHANGED <<call, flushing, requests, free, kept, todo, tStart, tCurrent, tAlignStop,
                     tStop, bDiscontinuity, pSample, round, result, delivered, ended>>
  BY DEF P!ThreadEnds, P!Work, threadVars, P!settings, P!application, P!reader, P!pool, P!range,
         P!seen
<1>2. ThreadInv /\ AnswerInv /\ PoolInv /\ HandInv /\ DoneInv /\ OrderInv
  BY DEF PullInv, WorkInv
<1>3. ThreadInv' /\ AnswerInv'
  BY <1>1, <1>2 DEF ThreadInv, threadVars, P!Command, AnswerInv
<1>4. PoolInv' /\ HandInv'
  BY <1>1, <1>2 DEF PoolInv, HandInv, Hand, InHandAt, Pulling
<1>5. QueueInv' /\ FlowInv' /\ DoneInv'
  BY <1>1, <1>2 DEF QueueInv, FlowInv, Pulling, DoneInv, Reached
<1>6. OrderInv'
  BY <1>1, <1>2 DEF OrderInv, P!PullsInOrder
<1> QED
  BY <1>3, <1>4, <1>5, <1>6 DEF PullInv, WorkInv

LEMMA EndOfStreamKeepsPull ==
  ASSUME PullInv, P!EndOfStream
  PROVE  PullInv'
<1>1. /\ pc = "end" /\ pc' = "flush" /\ ended' = TRUE /\ UNCHANGED threadVars
      /\ UNCHANGED <<call, flushing, requests, free, kept, todo, tStart, tCurrent, tAlignStop,
                     tStop, bDiscontinuity, pSample, round, result, delivered>>
  BY DEF P!EndOfStream, P!Work, threadVars, P!settings, P!application, P!reader, P!pool, P!range
<1>2. ThreadInv /\ AnswerInv /\ PoolInv /\ HandInv /\ DoneInv /\ OrderInv
  BY DEF PullInv, WorkInv
<1>3. ThreadInv' /\ AnswerInv'
  BY <1>1, <1>2, WorkerKeepsThread, PullingIsUnanswered DEF ThreadInv
<1>4. PoolInv' /\ HandInv'
  BY <1>1, <1>2 DEF PoolInv, HandInv, Hand, InHandAt, Pulling
<1>5. QueueInv' /\ FlowInv' /\ DoneInv'
  BY <1>1, <1>2 DEF QueueInv, FlowInv, Pulling, DoneInv, Reached
<1>6. OrderInv'
  BY <1>1, <1>2 DEF OrderInv, P!PullsInOrder
<1> QED
  BY <1>3, <1>4, <1>5, <1>6 DEF PullInv, WorkInv

LEMMA ForceFlushKeepsPull ==
  ASSUME PullInv, P!ForceFlush
  PROVE  PullInv'
<1>1. /\ pc = "flush" /\ pc' = "unflush" /\ flushing' = TRUE /\ UNCHANGED threadVars
      /\ UNCHANGED <<call, requests, free, kept, todo, tStart, tCurrent, tAlignStop,
                     tStop, bDiscontinuity, pSample, round, result, delivered, ended>>
  BY DEF P!ForceFlush, P!CancelRequests, P!Work, threadVars, P!settings, P!application, P!pool,
         P!range, P!seen
<1>2. ThreadInv /\ AnswerInv /\ PoolInv /\ HandInv /\ DoneInv /\ OrderInv
  BY DEF PullInv, WorkInv
<1>3. ThreadInv'
  BY <1>1, <1>2, WorkerKeepsThread
<1>4. AnswerInv'
  BY <1>1, <1>2 DEF AnswerInv, threadVars
<1>5. PoolInv' /\ HandInv'
  BY <1>1, <1>2 DEF PoolInv, HandInv, Hand, InHandAt, Pulling
<1>6. QueueInv' /\ FlowInv' /\ DoneInv'
  BY <1>1, <1>2 DEF QueueInv, FlowInv, Pulling, DoneInv, Reached
<1>7. OrderInv'
  BY <1>1, <1>2 DEF OrderInv, P!PullsInOrder
<1> QED
  BY <1>3, <1>4, <1>5, <1>6, <1>7 DEF PullInv, WorkInv

(* What CleanupCancelled leaves of the requests.                           *)
LEMMA RestOfRequests ==
  ASSUME NEW s \in Seq(Pieces), NEW n \in 0 .. Len(s)
  PROVE  /\ SubSeq(s, n + 1, Len(s)) \in Seq(Pieces)
         /\ Len(SubSeq(s, n + 1, Len(s))) = Len(s) - n
         /\ n = Len(s) => SubSeq(s, n + 1, Len(s)) = <<>>
         /\ s = <<>> => SubSeq(s, n + 1, Len(s)) = <<>>
<1>1. Len(s) \in Nat /\ n + 1 \in 1 .. Len(s) + 1
  OBVIOUS
<1>2. \A i \in n + 1 .. Len(s) : s[i] \in Pieces
  OBVIOUS
<1>3. /\ SubSeq(s, n + 1, Len(s)) \in Seq(Pieces)
      /\ Len(SubSeq(s, n + 1, Len(s))) = Len(s) - n
  BY <1>1, <1>2, SubSeqProperties
<1> QED
  BY <1>3

LEMMA CleanupKeepsPull ==
  ASSUME PullInv, P!CleanupCancelled
  PROVE  PullInv'
<1>1. PICK n \in (IF flushing THEN {Len(requests)} ELSE 0 .. Len(requests)) :
        /\ requests' = SubSeq(requests, n + 1, Len(requests)) /\ free' = free + n
  BY DEF P!CleanupCancelled
<1>2. /\ pc \in {"cleanup", "unflush"}
      /\ pc = "unflush" => pc' = "request" /\ flushing' = FALSE
      /\ pc = "cleanup" => pc' = todo /\ flushing' = flushing
      /\ UNCHANGED threadVars
      /\ UNCHANGED <<call, kept, todo, tStart, tCurrent, tAlignStop,
                     tStop, bDiscontinuity, pSample, round, result, delivered, ended>>
  BY DEF P!CleanupCancelled, P!Work, threadVars, P!settings, P!application, P!range, P!seen
<1>3. ThreadInv /\ AnswerInv /\ PoolInv /\ HandInv /\ DoneInv /\ OrderInv
  BY DEF PullInv, WorkInv
<1>4. pc = "cleanup" => pc' = "flush"
  BY <1>2, <1>3 DEF HandInv
<1>5. n \in 0 .. Len(requests) /\ requests \in Seq(Pieces) /\ n \in Nat /\ Len(requests) \in Nat
  BY <1>1, <1>3 DEF PoolInv
<1>6. /\ requests' \in Seq(Pieces) /\ Len(requests') = Len(requests) - n
      /\ n = Len(requests) => requests' = <<>>
      /\ requests = <<>> => requests' = <<>>
  BY <1>1, <1>5, RestOfRequests
<1>7. pc = "unflush" => requests' = <<>>
  BY <1>1, <1>3, <1>6 DEF AnswerInv
<1>8. ThreadInv'
  BY <1>2, <1>3, WorkerKeepsThread DEF ThreadInv
<1>9. AnswerInv'
  BY <1>2, <1>3, <1>4, <1>6, <1>7 DEF AnswerInv, threadVars
<1>10. PoolInv' /\ HandInv'
  <2>1. Hand = 0 /\ Hand' = 0 /\ kept' = kept /\ free' = free + n
    BY <1>1, <1>2, <1>4 DEF Hand, InHandAt
  <2>2. PoolInv'
    BY <1>3, <1>5, <1>6, <2>1 DEF PoolInv
  <2>3. HandInv'
    BY <1>2, <1>3, <1>4, <1>6, <1>7 DEF HandInv, InHandAt, Pulling
  <2> QED
    BY <2>2, <2>3
<1>11. QueueInv' /\ FlowInv' /\ DoneInv'
  BY <1>2, <1>3, <1>4, <1>6, <1>7 DEF QueueInv, FlowInv, Pulling, DoneInv, Reached
<1>12. OrderInv'
  BY <1>2, <1>3 DEF OrderInv, P!PullsInOrder
<1> QED
  BY <1>8, <1>9, <1>10, <1>11, <1>12 DEF PullInv, WorkInv

LEMMA AlignedUp ==
  ASSUME NEW x \in Nat
  PROVE  /\ P!AlignDown(x) \in Nat /\ P!AlignUp(x) \in Nat
         /\ x <= P!AlignUp(x) /\ P!AlignUp(x) < x + Align
<1>1. Align \in Nat /\ Align > 0
  BY StreamingAssumption
<1> DEFINE y == x + Align - 1
<1>2. \A n \in Nat : P!AlignDown(n) \in Nat /\ P!AlignDown(n) <= n /\ n < P!AlignDown(n) + Align
  <2> SUFFICES ASSUME NEW n \in Nat
               PROVE  P!AlignDown(n) \in Nat /\ P!AlignDown(n) <= n /\ n < P!AlignDown(n) + Align
    OBVIOUS
  <2> DEFINE q == n \div Align
  <2>1. q \in Nat /\ q * Align <= n /\ n < q * Align + Align
    BY <1>1
  <2>2. q * Align \in Nat
    BY <1>1, <2>1
  <2>3. P!AlignDown(n) = q * Align
    BY DEF P!AlignDown
  <2> HIDE DEF q
  <2> QED
    BY <2>1, <2>2, <2>3
<1>3. y \in Nat /\ P!AlignUp(x) = P!AlignDown(y)
  BY <1>1 DEF P!AlignUp
<1> HIDE DEF y
<1>4. P!AlignDown(y) \in Nat /\ P!AlignDown(y) <= y /\ y < P!AlignDown(y) + Align
  BY <1>2, <1>3
<1>5. y = x + Align - 1
  BY DEF y
<1> QED
  BY <1>1, <1>2, <1>3, <1>4, <1>5

LEMMA DueNext == Due' = tCurrent' - Len(requests') - Hand'
BY DEF Due

LEMMA EmptyLine == \A from, start, r : Line(<<>>, from, start, r)
BY DEF Line

LEMMA LongerLine ==
  ASSUME NEW q \in Seq(Pieces), NEW e \in Pieces, NEW from \in Int, NEW start, NEW r,
         Line(q, from, start, r), Piece(e, from + Len(q), start, r)
  PROVE  Line(Append(q, e), from, start, r)
<1>1. SUFFICES ASSUME NEW i \in DOMAIN Append(q, e)
               PROVE  Piece(Append(q, e)[i], from + i - 1, start, r)
  BY DEF Line
<1>2. i \in 1 .. Len(q) + 1 /\ Len(q) \in Nat
  BY <1>1
<1>3. CASE i = Len(q) + 1
  <2>1. Append(q, e)[i] = e /\ from + i - 1 = from + Len(q)
    BY <1>2, <1>3
  <2> QED
    BY <2>1
<1>4. CASE i \in 1 .. Len(q)
  BY <1>4 DEF Line
<1> QED
  BY <1>2, <1>3, <1>4

LEMMA ShorterLine ==
  ASSUME NEW q \in Seq(Pieces), NEW from \in Int, NEW start, NEW r, q # <<>>,
         Line(q, from, start, r)
  PROVE  /\ Head(q) \in Pieces /\ Piece(Head(q), from, start, r)
         /\ Tail(q) \in Seq(Pieces) /\ Len(Tail(q)) = Len(q) - 1
         /\ Line(Tail(q), from + 1, start, r)
<1>1. Len(q) \in Nat /\ 1 \in DOMAIN q /\ Head(q) = q[1] /\ Tail(q) \in Seq(Pieces)
      /\ Len(Tail(q)) = Len(q) - 1
  OBVIOUS
<1>2. Piece(Head(q), from, start, r)
  <2>1. Piece(q[1], from + 1 - 1, start, r) /\ from + 1 - 1 = from
    BY <1>1 DEF Line
  <2> QED
    BY <1>1, <2>1
<1>3. ASSUME NEW i \in DOMAIN Tail(q)
      PROVE  Piece(Tail(q)[i], from + 1 + i - 1, start, r)
  <2>1. i \in 1 .. Len(q) - 1 /\ Tail(q)[i] = q[i + 1] /\ i + 1 \in DOMAIN q
    BY <1>1, <1>3
  <2>2. Piece(q[i + 1], from + (i + 1) - 1, start, r) /\ from + (i + 1) - 1 = from + 1 + i - 1
    BY <2>1 DEF Line
  <2> QED
    BY <2>1, <2>2
<1> QED
  BY <1>1, <1>2, <1>3 DEF Line

LEMMA ProcessKeepsPull ==
  ASSUME PullInv, P!Process
  PROVE  PullInv'
<1>1. /\ pc = "process" /\ pc' \in {"end", "check"}
      /\ round' = 1 - round /\ result' = "none" /\ delivered' = <<>> /\ ended' = FALSE
      /\ UNCHANGED threadVars
      /\ UNCHANGED <<call, flushing, requests, free, kept, todo, pSample>>
  BY DEF P!Process, P!Work, threadVars, P!settings, P!application, P!reader, P!pool
<1>2. ThreadInv /\ AnswerInv /\ PoolInv /\ HandInv /\ DoneInv /\ OrderInv
  BY DEF PullInv, WorkInv
<1>3. \/ /\ pc' = "end" /\ UNCHANGED <<tStart, tCurrent, tAlignStop, tStop, bDiscontinuity>>
      \/ /\ pc' = "check" /\ m_tStart < m_tStop
         /\ tStart' = P!AlignDown(m_tStart) /\ tCurrent' = tStart'
         /\ tStop' = P!Least(m_tStop, Duration) /\ tAlignStop' = P!AlignUp(tStop')
         /\ bDiscontinuity' = TRUE
  BY <1>2 DEF P!Process, P!Work, P!range, ThreadInv
<1>4. ThreadInv' /\ AnswerInv'
  BY <1>1, <1>2, WorkerKeepsThread, PullingIsUnanswered DEF ThreadInv
<1>5. requests' = <<>> /\ Len(requests') = 0 /\ Hand' = 0 /\ Hand = 0
  <2>1. requests' = <<>> /\ Hand' = 0 /\ Hand = 0
    BY <1>1, <1>2 DEF HandInv, Hand, InHandAt
  <2> QED
    BY <2>1
<1>6. PoolInv'
  BY <1>1, <1>2, <1>5 DEF PoolInv
<1>7. round' \in {0, 1} /\ bDiscontinuity' \in BOOLEAN
  <2>1. round \in {0, 1} /\ bDiscontinuity \in BOOLEAN
    BY <1>2 DEF HandInv
  <2>2. round' = 1 - round
    BY <1>1
  <2>3. round' \in {0, 1}
    BY <2>1, <2>2
  <2>4. bDiscontinuity' \in BOOLEAN
    BY <1>3, <2>1
  <2> QED
    BY <2>3, <2>4
<1>8. HandInv'
  BY <1>1, <1>2, <1>5, <1>7 DEF HandInv, InHandAt, Pulling
<1>9. QueueInv' /\ DoneInv'
  BY <1>1, <1>2, <1>5 DEF QueueInv, DoneInv
<1>10. FlowInv'
  <2>1. CASE pc' = "end"
    BY <2>1 DEF FlowInv, Pulling
  <2>2. CASE pc' = "check"
    <3>1. tStart' \in Nat /\ tStop' \in Nat /\ tCurrent' = tStart'
      <4>1. m_tStart \in Nat /\ m_tStop \in Nat /\ Duration \in Nat
        BY <1>2, StreamingAssumption DEF ThreadInv
      <4> QED
        BY <1>3, <2>2, <4>1, AlignedUp DEF P!Least
    <3>2. tAlignStop' \in Nat /\ tStop' <= tAlignStop' /\ tAlignStop' < tStop' + Align
      BY <1>3, <2>2, <3>1, AlignedUp
    <3>3. Due' = tStart'
      <4>1. Due' = tCurrent' - 0 - 0 /\ tCurrent' \in Nat
        BY <1>5, <3>1, DueNext
      <4>2. \A x \in Nat : x - 0 - 0 = x
        OBVIOUS
      <4>3. tCurrent' - 0 - 0 = tCurrent'
        BY <4>1, <4>2
      <4> QED
        BY <3>1, <4>1, <4>3
    <3>4. bDiscontinuity'
      BY <1>3, <2>2
    <3>5. RangeInv'
      BY <2>2, <3>1, <3>2, <3>3, <3>4 DEF RangeInv
    <3>6. LineInv'
      BY <1>5, <2>2, EmptyLine DEF LineInv
    <3>7. ReachInv'
      BY <1>1, <3>3 DEF ReachInv
    <3> QED
      BY <3>5, <3>6, <3>7 DEF FlowInv
  <2> QED
    BY <1>1, <2>1, <2>2
<1>11. OrderInv'
  BY <1>1 DEF OrderInv, P!PullsInOrder
<1> QED
  BY <1>4, <1>6, <1>8, <1>9, <1>10, <1>11 DEF PullInv, WorkInv

LEMMA CheckKeepsPull ==
  ASSUME PullInv, P!CheckRequest
  PROVE  PullInv'
<1>1. /\ pc = "check" /\ UNCHANGED threadVars
      /\ UNCHANGED <<call, flushing, requests, free, kept, todo, tStart, tCurrent, tAlignStop,
                     tStop, bDiscontinuity, pSample, round, result, delivered, ended>>
  BY DEF P!CheckRequest, P!Work, threadVars, P!settings, P!application, P!reader, P!pool, P!range,
         P!seen
<1>2. ThreadInv /\ AnswerInv /\ PoolInv /\ HandInv /\ FlowInv /\ DoneInv /\ OrderInv
  BY DEF PullInv, WorkInv
<1>3. \/ pc' = "end" /\ tCurrent >= tAlignStop
      \/ pc' = "flush"
      \/ pc' = "buffer" /\ (m_bSync \/ ~(cBuffers > 1)) /\ ~(tCurrent >= tAlignStop)
      \/ pc' = "first" /\ ~m_bSync /\ cBuffers > 1 /\ ~(tCurrent >= tAlignStop)
  BY DEF P!CheckRequest, P!Work
<1>4. /\ requests = <<>> /\ Hand = 0 /\ Hand' = 0 /\ Len(requests) = 0
      /\ ~ended /\ RangeInv /\ LineInv /\ ReachInv
  <2>1. requests = <<>> /\ Hand = 0 /\ Hand' = 0
    BY <1>1, <1>2, <1>3 DEF HandInv, Hand, InHandAt
  <2>2. ~ended /\ RangeInv /\ LineInv /\ ReachInv
    BY <1>1, <1>2 DEF DoneInv, FlowInv, Pulling
  <2> QED
    BY <2>1, <2>2
<1>5. ThreadInv' /\ AnswerInv'
  BY <1>1, <1>2, <1>3, WorkerKeepsThread, PullingIsUnanswered DEF ThreadInv, Pulling
<1>6. PoolInv' /\ HandInv'
  BY <1>1, <1>2, <1>3, <1>4 DEF PoolInv, HandInv, InHandAt, Pulling
<1>7. QueueInv'
  BY <1>1, <1>3, <1>4 DEF QueueInv, Ahead, threadVars
<1>8. Due = tCurrent /\ Due' = Due
  <2>1. tCurrent \in Nat
    BY <1>4 DEF RangeInv
  <2> QED
    BY <1>1, <1>4, <2>1, DueNext DEF Due
<1>9. DoneInv'
  BY <1>1, <1>3, <1>4, <1>8 DEF DoneInv, Reached, RangeInv, ReachInv, P!Least
<1>10. FlowInv'
  <2>1. RangeInv'
    BY <1>1, <1>3, <1>4, <1>8 DEF RangeInv
  <2>2. LineInv'
    BY <1>1, <1>3, <1>4, EmptyLine DEF LineInv
  <2>3. ReachInv'
    BY <1>1, <1>4, <1>8 DEF ReachInv, Reached
  <2> QED
    BY <2>1, <2>2, <2>3 DEF FlowInv
<1>11. OrderInv'
  BY <1>1, <1>2 DEF OrderInv, P!PullsInOrder
<1> QED
  BY <1>5, <1>6, <1>7, <1>9, <1>10, <1>11 DEF PullInv, WorkInv

LEMMA GetBufferKeepsPull ==
  ASSUME PullInv, P!GetBuffer
  PROVE  PullInv'
<1>1. /\ pc \in {"first", "buffer"} /\ free > 0 /\ free' = free - 1
      /\ pSample' = P!NewSample /\ tCurrent' = P!NewSample.stop /\ ~bDiscontinuity'
      /\ bDiscontinuity' \in BOOLEAN
      /\ todo' = pc /\ pc' = (IF m_bSync THEN "read" ELSE "queue")
      /\ UNCHANGED threadVars
      /\ UNCHANGED <<call, flushing, requests, kept, tStart, tAlignStop,
                     tStop, round, result, delivered, ended>>
  BY DEF P!GetBuffer, P!Work, threadVars, P!settings, P!application, P!reader, P!seen
<1>2. ThreadInv /\ AnswerInv /\ PoolInv /\ HandInv /\ QueueInv /\ FlowInv /\ DoneInv /\ OrderInv
  BY DEF PullInv, WorkInv
<1>3. /\ RangeInv /\ LineInv /\ ReachInv /\ Hand = 0 /\ Hand' = 1
      /\ requests \in Seq(Pieces) /\ Len(requests) \in Nat
      /\ pc \notin InHandAt /\ pc' \in {"read", "queue"}
  BY <1>1, <1>2 DEF FlowInv, Pulling, Hand, InHandAt, PoolInv
<1>4. /\ tStart \in Nat /\ tCurrent \in Nat /\ tAlignStop \in Nat /\ tStop \in Nat
      /\ tCurrent < tAlignStop /\ (bDiscontinuity <=> tCurrent = tStart) /\ tStart <= Due
      /\ Due = tCurrent - Len(requests)
  BY <1>1, <1>3 DEF RangeInv, Due
<1>5. tCurrent' = tCurrent + 1 /\ Piece(pSample', tCurrent, tStart, round)
  <2>1. tCurrent' = tCurrent + 1
    BY <1>1, <1>4 DEF P!NewSample, P!Least
  <2> QED
    BY <1>1, <1>4, <2>1 DEF P!NewSample, Piece
<1>6. Due' = Due /\ NextQueued' = NextQueued
  <2>1. Due' = Due
    BY <1>1, <1>3, <1>4, <1>5, DueNext
  <2> QED
    BY <1>1, <1>3, <2>1 DEF NextQueued
<1>7. ThreadInv' /\ AnswerInv'
  BY <1>1, <1>2, WorkerKeepsThread, PullingIsUnanswered DEF ThreadInv, Pulling
<1>8. PoolInv'
  BY <1>1, <1>2, <1>3 DEF PoolInv
<1>9. pSample' \in Pieces /\ pSample'.stop # 0
  <2>1. pSample'.stop = tCurrent + 1 /\ pSample' = P!NewSample
    BY <1>1, <1>5
  <2>2. bDiscontinuity \in BOOLEAN /\ round \in {0, 1}
    BY <1>2 DEF HandInv
  <2>3. P!Least(tCurrent + 1, tAlignStop) \in Nat
    BY <1>4 DEF P!Least
  <2>4. P!NewSample \in Pieces
    BY <1>4, <2>2, <2>3 DEF P!NewSample, Pieces
  <2> QED
    BY <1>4, <2>1, <2>4
<1>10. HandInv'
  BY <1>1, <1>2, <1>9 DEF HandInv, InHandAt, Pulling
<1>11. QueueInv'
  <2>1. /\ pc = "first" => requests = <<>> /\ cBuffers > 1 /\ ~m_bSync
        /\ pc = "buffer" => Len(requests) = Ahead
    BY <1>1, <1>2 DEF HandInv, QueueInv
  <2>2. m_bSync => pc = "buffer" /\ requests = <<>>
    BY <1>1, <1>3, <2>1 DEF Ahead
  <2> QED
    BY <1>1, <2>1, <2>2 DEF QueueInv, Ahead, threadVars
<1>12. FlowInv'
  <2>1. RangeInv'
    BY <1>1, <1>3, <1>4, <1>5, <1>6 DEF RangeInv
  <2>2. LineInv'
    <3>1. tCurrent' - 1 = tCurrent
      BY <1>4, <1>5
    <3>2. pc' # "deliver"
      BY <1>3
    <3> QED
      BY <1>1, <1>3, <1>5, <1>6, <3>1, <3>2 DEF LineInv
  <2>3. ReachInv'
    BY <1>1, <1>3, <1>6 DEF ReachInv, Reached
  <2> QED
    BY <2>1, <2>2, <2>3 DEF FlowInv
<1>13. DoneInv'
  BY <1>1, <1>2 DEF DoneInv
<1>14. OrderInv'
  BY <1>1, <1>2 DEF OrderInv, P!PullsInOrder
<1> QED
  BY <1>7, <1>8, <1>10, <1>11, <1>12, <1>13, <1>14 DEF PullInv, WorkInv

LEMMA QueueKeepsPull ==
  ASSUME PullInv, P!Queue
  PROVE  PullInv'
<1>1. /\ pc = "queue" /\ pSample' = P!NoSample /\ UNCHANGED threadVars
      /\ UNCHANGED <<call, flushing, kept, tStart, tCurrent, tAlignStop, tStop,
                     bDiscontinuity, round, result, delivered, ended>>
  BY DEF P!Queue, P!Work, threadVars, P!settings, P!application, P!range, P!seen
<1>2. \/ /\ free' = free + 1 /\ todo' = "flush" /\ pc' = "cleanup" /\ requests' = requests
      \/ /\ requests' = Append(requests, pSample) /\ free' = free /\ todo' = todo
         /\ pc' = (IF todo = "first" THEN "inner" ELSE "collect")
  BY DEF P!Queue, P!Work
<1>3. ThreadInv /\ AnswerInv /\ PoolInv /\ HandInv /\ QueueInv /\ FlowInv /\ DoneInv /\ OrderInv
  BY DEF PullInv, WorkInv
<1>4. /\ RangeInv /\ LineInv /\ ReachInv /\ Hand = 1 /\ Hand' = 0 /\ ~ended
      /\ requests \in Seq(Pieces) /\ Len(requests) \in Nat /\ pSample \in Pieces
      /\ free \in Nat /\ kept \in Nat /\ free + kept + Len(requests) + 1 = cBuffers
      /\ pc' \in {"cleanup", "inner", "collect"}
  <2>1. pc' \in {"cleanup", "inner", "collect"}
    BY <1>2
  <2>2. Hand = 1 /\ Hand' = 0
    BY <1>1, <2>1 DEF Hand, InHandAt
  <2>3. RangeInv /\ LineInv /\ ReachInv /\ ~ended /\ pSample \in Pieces
    BY <1>1, <1>3 DEF FlowInv, Pulling, DoneInv, HandInv
  <2> QED
    BY <1>3, <2>1, <2>2, <2>3 DEF PoolInv
<1>5. ThreadInv' /\ AnswerInv'
  BY <1>1, <1>3, <1>4, WorkerKeepsThread, PullingIsUnanswered DEF ThreadInv, Pulling
<1>6. P!NoSample \in Pieces /\ P!NoSample.stop = 0
  BY DEF P!NoSample, Pieces
<1>7. HandInv'
  BY <1>1, <1>2, <1>3, <1>4, <1>6 DEF HandInv, InHandAt, Pulling
<1>8. DoneInv'
  BY <1>1, <1>4 DEF DoneInv
<1>9. OrderInv'
  BY <1>1, <1>3 DEF OrderInv, P!PullsInOrder
<1>10. PoolInv' /\ QueueInv' /\ FlowInv'
  <2>1. CASE pc' = "cleanup"
    <3>1. free' = free + 1 /\ requests' = requests
      BY <1>2, <2>1
    <3> QED
      BY <1>1, <1>4, <2>1, <3>1 DEF PoolInv, QueueInv, FlowInv, Pulling
  <2>2. CASE pc' # "cleanup"
    <3>1. /\ requests' = Append(requests, pSample) /\ free' = free /\ todo' = todo
          /\ pc' = (IF todo = "first" THEN "inner" ELSE "collect")
      BY <1>2, <2>2
    <3>2. requests' \in Seq(Pieces) /\ Len(requests') = Len(requests) + 1
      BY <1>4, <3>1
    <3>3. PoolInv'
      BY <1>1, <1>4, <3>1, <3>2 DEF PoolInv
    <3>4. QueueInv'
      <4>1. /\ ~m_bSync /\ ~m_bSync'
            /\ \/ todo = "first" /\ Len(requests) = 0 /\ Ahead = 1
               \/ todo = "buffer" /\ Len(requests) = Ahead
        <5>1. /\ ~m_bSync /\ m_bSync' = m_bSync
              /\ \/ todo = "first" /\ requests = <<>> /\ cBuffers > 1
                 \/ todo = "buffer" /\ Len(requests) = Ahead
          BY <1>1, <1>3 DEF QueueInv, threadVars
        <5> QED
          BY <5>1 DEF Ahead
      <4>2. Ahead' = Ahead
        BY <1>1 DEF Ahead, threadVars
      <4> QED
        BY <3>1, <3>2, <4>1, <4>2 DEF QueueInv
    <3>5. /\ tStart \in Nat /\ tCurrent \in Nat /\ Due = tCurrent - Len(requests) - 1
          /\ Due \in Int /\ NextQueued = Due
      BY <1>1, <1>4 DEF RangeInv, Due, NextQueued
    <3>6. Due' = Due /\ NextQueued' = Due
      <4>1. Due' = Due
        BY <1>1, <1>4, <3>2, <3>5, DueNext
      <4> QED
        BY <1>4, <3>5, <4>1 DEF NextQueued
    <3>7. RangeInv'
      BY <1>1, <1>4, <3>6 DEF RangeInv
    <3>8. LineInv'
      <4>1. Due + Len(requests) = tCurrent - 1
        BY <1>4, <3>5
      <4>2. Line(requests, Due, tStart, round) /\ Piece(pSample, Due + Len(requests), tStart, round)
        BY <1>1, <1>4, <3>5, <4>1 DEF LineInv
      <4>3. Line(requests', Due, tStart, round)
        BY <1>4, <3>1, <3>5, <4>2, LongerLine
      <4> QED
        BY <1>1, <1>4, <3>6, <4>3 DEF LineInv
    <3>9. ReachInv'
      BY <1>1, <1>4, <3>6 DEF ReachInv, Reached
    <3> QED
      BY <3>3, <3>4, <3>7, <3>8, <3>9 DEF FlowInv
  <2> QED
    BY <2>1, <2>2
<1> QED
  BY <1>5, <1>7, <1>8, <1>9, <1>10 DEF PullInv, WorkInv

LEMMA InnerKeepsPull ==
  ASSUME PullInv, P!Inner
  PROVE  PullInv'
<1>1. /\ pc = "inner" /\ UNCHANGED threadVars
      /\ UNCHANGED <<call, flushing, requests, free, kept, tStart, tCurrent, tAlignStop, tStop,
                     bDiscontinuity, pSample, round, result, delivered, ended>>
  BY DEF P!Inner, P!Work, threadVars, P!settings, P!application, P!reader, P!pool, P!range, P!seen
<1>2. \/ tCurrent < tAlignStop /\ pc' = "buffer" /\ todo' = todo
      \/ cBuffers > 1 /\ pc' = "collect" /\ todo' = "last"
      \/ ~(cBuffers > 1) /\ pc' = "check" /\ todo' = todo
  BY DEF P!Inner, P!Work
<1>3. ThreadInv /\ AnswerInv /\ PoolInv /\ HandInv /\ QueueInv /\ FlowInv /\ DoneInv /\ OrderInv
  BY DEF PullInv, WorkInv
<1>4. /\ RangeInv /\ LineInv /\ ReachInv /\ Hand = 0 /\ Hand' = 0 /\ ~ended
      /\ requests \in Seq(Pieces) /\ Len(requests) \in Nat
      /\ pc' \in {"buffer", "collect", "check"}
      /\ ~m_bSync /\ ~m_bSync' /\ Len(requests) = Ahead /\ Ahead' = Ahead
  <2>1. pc' \in {"buffer", "collect", "check"}
    BY <1>2
  <2>2. Hand = 0 /\ Hand' = 0
    BY <1>1, <2>1 DEF Hand, InHandAt
  <2>3. RangeInv /\ LineInv /\ ReachInv /\ ~ended
    BY <1>1, <1>3 DEF FlowInv, Pulling, DoneInv
  <2>4. ~m_bSync /\ Len(requests) = Ahead /\ m_bSync' = m_bSync
    BY <1>1, <1>3 DEF QueueInv, threadVars
  <2>5. Ahead' = Ahead
    BY <2>4 DEF Ahead
  <2> QED
    BY <1>3, <2>1, <2>2, <2>3, <2>4, <2>5 DEF PoolInv
<1>5. pc' = "check" => requests = <<>>
  BY <1>2, <1>4 DEF Ahead
<1>6. ThreadInv' /\ AnswerInv'
  BY <1>1, <1>3, <1>4, WorkerKeepsThread, PullingIsUnanswered DEF ThreadInv, Pulling
<1>7. PoolInv'
  BY <1>1, <1>3, <1>4 DEF PoolInv
<1>8. HandInv'
  BY <1>1, <1>3, <1>4, <1>5 DEF HandInv, InHandAt, Pulling
<1>9. QueueInv'
  BY <1>1, <1>2, <1>4 DEF QueueInv, Ahead
<1>10. DoneInv'
  BY <1>1, <1>4 DEF DoneInv
<1>11. OrderInv'
  BY <1>1, <1>3 DEF OrderInv, P!PullsInOrder
<1>12. FlowInv'
  <2>1. Due' = Due /\ NextQueued' = NextQueued
    <3>1. Due' = Due
      BY <1>1, <1>4, DueNext DEF Due
    <3> QED
      BY <1>1, <1>4, <3>1 DEF NextQueued
  <2>2. RangeInv'
    BY <1>1, <1>2, <1>4, <2>1 DEF RangeInv
  <2>3. LineInv'
    BY <1>1, <1>4, <2>1 DEF LineInv
  <2>4. ReachInv'
    BY <1>1, <1>4, <2>1 DEF ReachInv, Reached
  <2> QED
    BY <2>2, <2>3, <2>4 DEF FlowInv
<1> QED
  BY <1>6, <1>7, <1>8, <1>9, <1>10, <1>11, <1>12 DEF PullInv, WorkInv

LEMMA CollectKeepsPull ==
  ASSUME PullInv, P!Collect
  PROVE  PullInv'
<1>1. /\ pc = "collect" /\ pc' = "deliver" /\ requests # <<>> /\ UNCHANGED threadVars
      /\ pSample' = Head(requests) /\ requests' = Tail(requests)
      /\ UNCHANGED <<call, flushing, free, kept, todo, tStart, tCurrent, tAlignStop, tStop,
                     bDiscontinuity, round, result, delivered, ended>>
  BY DEF P!Collect, P!Work, threadVars, P!settings, P!application, P!pool, P!range, P!seen
<1>2. ThreadInv /\ AnswerInv /\ PoolInv /\ HandInv /\ QueueInv /\ FlowInv /\ DoneInv /\ OrderInv
  BY DEF PullInv, WorkInv
<1>3. /\ RangeInv /\ LineInv /\ ReachInv /\ Hand = 0 /\ Hand' = 1 /\ ~ended
      /\ requests \in Seq(Pieces) /\ Len(requests) \in Nat
  BY <1>1, <1>2 DEF FlowInv, Pulling, DoneInv, PoolInv, Hand, InHandAt
<1>4. /\ tStart \in Nat /\ tCurrent \in Nat /\ Due = tCurrent - Len(requests)
      /\ Due \in Nat /\ tStart <= Due /\ NextQueued = Due
  BY <1>1, <1>3 DEF RangeInv, Due, NextQueued
<1>5. /\ pSample' \in Pieces /\ Piece(pSample', Due, tStart, round)
      /\ requests' \in Seq(Pieces) /\ Len(requests') = Len(requests) - 1
      /\ Line(requests', Due + 1, tStart, round)
  <2>1. Line(requests, Due, tStart, round)
    BY <1>3, <1>4 DEF LineInv
  <2> QED
    BY <1>1, <1>3, <1>4, <2>1, ShorterLine
<1>6. pSample'.stop # 0
  BY <1>4, <1>5 DEF Piece
<1>7. ThreadInv' /\ AnswerInv'
  BY <1>1, <1>2, WorkerKeepsThread, PullingIsUnanswered DEF ThreadInv, Pulling
<1>8. PoolInv'
  BY <1>1, <1>2, <1>3, <1>5 DEF PoolInv
<1>9. HandInv'
  BY <1>1, <1>2, <1>5, <1>6 DEF HandInv, InHandAt, Pulling
<1>10. QueueInv'
  <2>1. /\ ~m_bSync /\ m_bSync' = m_bSync
        /\ \/ todo = "last" /\ Len(requests) = 1
           \/ todo = "buffer" /\ Len(requests) = Ahead + 1
    BY <1>1, <1>2 DEF QueueInv, threadVars
  <2>2. Ahead' = Ahead /\ Ahead \in Nat
    BY <2>1 DEF Ahead
  <2>3. Len(requests') = 0 => requests' = <<>>
    BY <1>5
  <2>4. \/ todo' = "last" /\ requests' = <<>>
        \/ todo' = "buffer" /\ Len(requests') = Ahead'
    <3>1. CASE todo = "last" /\ Len(requests) = 1
      BY <1>1, <1>5, <2>3, <3>1
    <3>2. CASE todo = "buffer" /\ Len(requests) = Ahead + 1
      BY <1>1, <1>5, <2>2, <3>2
    <3> QED
      BY <2>1, <3>1, <3>2
  <2>5. ~m_bSync'
    BY <2>1
  <2> QED
    BY <1>1, <2>4, <2>5 DEF QueueInv
<1>11. DoneInv'
  BY <1>1, <1>3 DEF DoneInv
<1>12. OrderInv'
  BY <1>1, <1>2 DEF OrderInv, P!PullsInOrder
<1>13. FlowInv'
  <2>1. Due' = Due /\ NextQueued' = Due + 1
    <3>1. Due' = Due
      BY <1>1, <1>3, <1>4, <1>5, DueNext
    <3> QED
      BY <1>1, <3>1 DEF NextQueued
  <2>2. RangeInv'
    BY <1>1, <1>3, <2>1 DEF RangeInv
  <2>3. LineInv'
    BY <1>1, <1>5, <2>1 DEF LineInv
  <2>4. ReachInv'
    BY <1>1, <1>3, <2>1 DEF ReachInv, Reached
  <2> QED
    BY <2>2, <2>3, <2>4 DEF FlowInv
<1> QED
  BY <1>7, <1>8, <1>9, <1>10, <1>11, <1>12, <1>13 DEF PullInv, WorkInv

LEMMA CollectCancelledKeepsPull ==
  ASSUME PullInv, P!CollectCancelled
  PROVE  PullInv'
<1>1. /\ pc = "collect" /\ pc' = "cleanup" /\ todo' = "flush" /\ UNCHANGED threadVars
      /\ requests' = (IF requests = <<>> THEN <<>> ELSE Tail(requests))
      /\ free' = (IF requests = <<>> THEN free ELSE free + 1)
      /\ UNCHANGED <<call, flushing, kept, tStart, tCurrent, tAlignStop, tStop,
                     bDiscontinuity, pSample, round, result, delivered, ended>>
  BY DEF P!CollectCancelled, P!Work, threadVars, P!settings, P!application, P!range, P!seen
<1>2. ThreadInv /\ AnswerInv /\ PoolInv /\ HandInv /\ DoneInv /\ OrderInv
  BY DEF PullInv, WorkInv
<1>3. Hand = 0 /\ Hand' = 0 /\ ~ended
  BY <1>1, <1>2 DEF Hand, InHandAt, DoneInv
<1>4. ThreadInv' /\ AnswerInv'
  BY <1>1, <1>2, WorkerKeepsThread, PullingIsUnanswered DEF ThreadInv, Pulling
<1>5. PoolInv'
  <2>1. /\ requests \in Seq(Pieces) /\ Len(requests) \in Nat /\ free \in Nat /\ kept \in Nat
        /\ free + kept + Len(requests) = cBuffers
    BY <1>2, <1>3 DEF PoolInv
  <2>2. CASE requests = <<>>
    BY <1>1, <1>3, <2>1, <2>2 DEF PoolInv
  <2>3. CASE requests # <<>>
    <3>1. Tail(requests) \in Seq(Pieces) /\ Len(Tail(requests)) = Len(requests) - 1
      BY <2>1, <2>3
    <3> QED
      BY <1>1, <1>3, <2>1, <2>3, <3>1 DEF PoolInv
  <2> QED
    BY <2>2, <2>3
<1>6. HandInv'
  BY <1>1, <1>2 DEF HandInv, InHandAt, Pulling
<1>7. QueueInv' /\ FlowInv' /\ DoneInv'
  BY <1>1, <1>3 DEF QueueInv, FlowInv, Pulling, DoneInv
<1>8. OrderInv'
  BY <1>1, <1>2 DEF OrderInv, P!PullsInOrder
<1> QED
  BY <1>4, <1>5, <1>6, <1>7, <1>8 DEF PullInv, WorkInv

LEMMA ReadKeepsPull ==
  ASSUME PullInv, P!Read
  PROVE  PullInv'
<1>1. /\ pc = "read" /\ UNCHANGED threadVars
      /\ UNCHANGED <<call, flushing, requests, kept, todo, tStart, tCurrent, tAlignStop, tStop,
                     bDiscontinuity, round, result, delivered, ended>>
      /\ \/ pc' = "flush" /\ free' = free + 1 /\ pSample' = P!NoSample
         \/ pc' = "deliver" /\ free' = free /\ pSample' = pSample
  BY DEF P!Read, P!Work, threadVars, P!settings, P!application, P!reader, P!range, P!seen
<1>2. ThreadInv /\ AnswerInv /\ PoolInv /\ HandInv /\ QueueInv /\ FlowInv /\ DoneInv /\ OrderInv
  BY DEF PullInv, WorkInv
<1>3. /\ RangeInv /\ LineInv /\ ReachInv /\ Hand = 1 /\ ~ended /\ pc' \in {"flush", "deliver"}
      /\ m_bSync /\ m_bSync' /\ requests = <<>> /\ todo = "buffer" /\ Len(requests) = 0
  <2>1. m_bSync /\ m_bSync' = m_bSync /\ requests = <<>> /\ todo = "buffer"
    BY <1>1, <1>2 DEF QueueInv, threadVars
  <2>2. RangeInv /\ LineInv /\ ReachInv /\ Hand = 1 /\ ~ended
    BY <1>1, <1>2 DEF FlowInv, Pulling, DoneInv, Hand, InHandAt
  <2>3. pc' \in {"flush", "deliver"}
    BY <1>1
  <2> QED
    BY <2>1, <2>2, <2>3
<1>4. ThreadInv' /\ AnswerInv'
  BY <1>1, <1>2, <1>3, WorkerKeepsThread, PullingIsUnanswered DEF ThreadInv, Pulling
<1>5. P!NoSample \in Pieces /\ P!NoSample.stop = 0
  BY DEF P!NoSample, Pieces
<1>6. HandInv'
  BY <1>1, <1>2, <1>3, <1>5 DEF HandInv, InHandAt, Pulling
<1>7. DoneInv'
  BY <1>1, <1>3 DEF DoneInv
<1>8. OrderInv'
  BY <1>1, <1>2 DEF OrderInv, P!PullsInOrder
<1>9. PoolInv' /\ QueueInv' /\ FlowInv'
  <2>1. CASE pc' = "flush"
    <3>1. free' = free + 1 /\ Hand' = 0
      BY <1>1, <2>1 DEF Hand, InHandAt
    <3> QED
      BY <1>1, <1>2, <1>3, <2>1, <3>1 DEF PoolInv, QueueInv, FlowInv, Pulling
  <2>2. CASE pc' = "deliver"
    <3>1. free' = free /\ pSample' = pSample /\ Hand' = 1
      BY <1>1, <2>2 DEF Hand, InHandAt
    <3>2. PoolInv'
      BY <1>1, <1>2, <1>3, <3>1 DEF PoolInv
    <3>3. QueueInv'
      BY <1>1, <1>3, <2>2 DEF QueueInv, Ahead
    <3>4. tCurrent \in Nat /\ Due = tCurrent - 1 /\ Due' = Due
      <4>1. tCurrent \in Nat
        BY <1>3 DEF RangeInv
      <4> QED
        BY <1>1, <1>3, <3>1, <4>1, DueNext DEF Due
    <3>5. RangeInv'
      BY <1>1, <1>3, <2>2, <3>4 DEF RangeInv
    <3>6. LineInv'
      BY <1>1, <1>3, <2>2, <3>1, <3>4, EmptyLine DEF LineInv
    <3>7. ReachInv'
      BY <1>1, <1>3, <3>4 DEF ReachInv, Reached
    <3> QED
      BY <3>2, <3>3, <3>5, <3>6, <3>7 DEF FlowInv
  <2> QED
    BY <1>3, <2>1, <2>2
<1> QED
  BY <1>4, <1>6, <1>7, <1>8, <1>9 DEF PullInv, WorkInv

(* What is delivered goes on where the last sample ended, which needs the  *)
(* last sample of the range to begin before the range ends.                *)
LEMMA ReceiveKeepsPull ==
  ASSUME Align <= 2, PullInv, NEW r \in {"S_OK", "S_FALSE", "E_FAIL"}, P!Receive(r)
  PROVE  PullInv'
<1>1. /\ pc = "deliver" /\ delivered' = Append(delivered, P!Relative(pSample)) /\ result' = r
      /\ pSample' = P!NoSample /\ UNCHANGED threadVars
      /\ todo' = (IF r = "E_FAIL" THEN "flush" ELSE todo) /\ pc' = P!AfterReceive(r)
      /\ UNCHANGED <<call, flushing, requests, tStart, tCurrent, tAlignStop, tStop,
                     bDiscontinuity, round, ended>>
  BY DEF P!Receive, P!Work, threadVars, P!settings, P!application, P!reader, P!range
<1>2. \/ free' = free + 1 /\ kept' = kept
      \/ kept' = kept + 1 /\ free' = free
  BY DEF P!Receive
<1>3. ThreadInv /\ AnswerInv /\ PoolInv /\ HandInv /\ QueueInv /\ FlowInv /\ DoneInv /\ OrderInv
  BY DEF PullInv, WorkInv
<1>4. pc' \in {"flush", "check", "cleanup", "inner"}
  BY <1>1 DEF P!AfterReceive
<1>5. /\ RangeInv /\ LineInv /\ ReachInv /\ Hand = 1 /\ Hand' = 0 /\ ~ended
      /\ requests \in Seq(Pieces) /\ Len(requests) \in Nat
      /\ free \in Nat /\ kept \in Nat /\ free + kept + Len(requests) + 1 = cBuffers
  <2>1. Hand = 1 /\ Hand' = 0
    BY <1>1, <1>4 DEF Hand, InHandAt
  <2>2. RangeInv /\ LineInv /\ ReachInv /\ ~ended
    BY <1>1, <1>3 DEF FlowInv, Pulling, DoneInv
  <2> QED
    BY <1>3, <2>1, <2>2 DEF PoolInv
<1>6. /\ Ahead' = Ahead /\ m_bSync' = m_bSync /\ m_bSync \in BOOLEAN
      /\ \/ todo = "last" /\ requests = <<>> /\ ~m_bSync
         \/ todo = "buffer" /\ Len(requests) = Ahead
  BY <1>1, <1>3 DEF QueueInv, Ahead, threadVars, ThreadInv
<1>7. /\ pc' = "cleanup" => todo' = "flush"
      /\ pc' = "inner" => ~m_bSync' /\ todo' = "buffer" /\ Len(requests') = Ahead'
      /\ pc' = "check" => requests' = <<>>
  <2>1. /\ pc' = "cleanup" => r = "E_FAIL"
        /\ pc' = "inner" => ~m_bSync /\ r # "E_FAIL" /\ todo # "last"
        /\ pc' = "check" => m_bSync \/ todo = "last"
    BY <1>1 DEF P!AfterReceive
  <2>2. m_bSync => requests = <<>>
    BY <1>5, <1>6 DEF Ahead
  <2> QED
    BY <1>1, <1>6, <2>1, <2>2
<1>8. ThreadInv' /\ AnswerInv'
  BY <1>1, <1>3, <1>4, WorkerKeepsThread, PullingIsUnanswered DEF ThreadInv, Pulling
<1>9. PoolInv'
  BY <1>1, <1>2, <1>5 DEF PoolInv
<1>10. P!NoSample \in Pieces /\ P!NoSample.stop = 0
  BY DEF P!NoSample, Pieces
<1>11. HandInv'
  BY <1>1, <1>3, <1>4, <1>7, <1>10 DEF HandInv, InHandAt, Pulling
<1>12. QueueInv'
  BY <1>4, <1>7 DEF QueueInv
<1>13. DoneInv'
  BY <1>1, <1>4, <1>5 DEF DoneInv
<1>14. /\ tStart \in Nat /\ tCurrent \in Nat /\ tAlignStop \in Nat /\ tStop \in Nat /\ Align \in Nat
       /\ Due = tCurrent - Len(requests) - 1 /\ Due \in Nat /\ tStart <= Due /\ Due < tCurrent
       /\ Due <= tStop
  <2>1. /\ tStart \in Nat /\ tCurrent \in Nat /\ tAlignStop \in Nat /\ tStop \in Nat
        /\ Due = tCurrent - Len(requests) - 1 /\ tStart <= Due
        /\ tStart < tCurrent => tCurrent <= tAlignStop
        /\ tAlignStop < tStop + Align
    BY <1>5 DEF RangeInv, Due
  <2>2. Align \in Nat
    BY StreamingAssumption
  <2> QED
    BY <1>5, <2>1, <2>2
<1>15. Due' = Due + 1
  <2>1. Due' = tCurrent - Len(requests) - 0
    BY <1>1, <1>5, DueNext
  <2> QED
    BY <1>5, <1>14, <2>1
<1>16. /\ pSample \in Pieces /\ pSample.start = Due /\ pSample.stop = Due + 1
       /\ pSample.round = round /\ (pSample.disc <=> Due = tStart)
  BY <1>1, <1>3, <1>5 DEF HandInv, LineInv, Piece
<1>17. /\ P!Relative(pSample) \in Deliveries
       /\ P!Relative(pSample).start = Due - tStart
       /\ P!Relative(pSample).stop = P!Least(Due + 1, tStop) - tStart
       /\ P!Relative(pSample).round = round /\ (P!Relative(pSample).disc <=> Due = tStart)
  <2>1. P!Least(Due + 1, tStop) \in Int
    BY <1>14 DEF P!Least
  <2>2. pSample.disc \in BOOLEAN /\ pSample.round \in {0, 1}
    BY <1>16 DEF Pieces
  <2> QED
    BY <1>14, <1>16, <2>1, <2>2 DEF P!Relative, Deliveries
<1> DEFINE n == Len(delivered)
<1>18. /\ delivered \in Seq(Deliveries) /\ n \in Nat /\ delivered' \in Seq(Deliveries)
       /\ Len(delivered') = n + 1 /\ delivered'[n + 1] = P!Relative(pSample)
       /\ \A i \in 1 .. n : delivered'[i] = delivered[i]
       /\ delivered' # <<>> /\ (n = 0 <=> delivered = <<>>)
  <2>1. delivered \in Seq(Deliveries)
    BY <1>3 DEF OrderInv
  <2> QED
    BY <1>1, <1>17, <2>1
<1>19. FlowInv'
  <2>1. RangeInv'
    BY <1>1, <1>4, <1>5, <1>14, <1>15 DEF RangeInv
  <2>2. LineInv'
    <3>1. Line(requests, Due + 1, tStart, round)
      BY <1>1, <1>5 DEF LineInv, NextQueued
    <3>2. NextQueued' = Due + 1
      BY <1>4, <1>15 DEF NextQueued
    <3> QED
      BY <1>1, <1>4, <3>1, <3>2 DEF LineInv
  <2>3. ReachInv'
    <3>1. Reached' = P!Least(Due + 1, tStop) - tStart
      BY <1>17, <1>18 DEF Reached
    <3>2. Due' # tStart'
      BY <1>1, <1>14, <1>15
    <3> QED
      BY <1>1, <1>15, <1>18, <3>1, <3>2 DEF ReachInv
  <2> QED
    BY <2>1, <2>2, <2>3 DEF FlowInv
<1>20. OrderInv'
  <2>1. ASSUME NEW i \in DOMAIN delivered'
        PROVE  /\ delivered'[i].round = round'
               /\ delivered'[i].disc = (i = 1)
               /\ delivered'[i].start = IF i = 1 THEN 0 ELSE delivered'[i - 1].stop
    <3>1. i \in 1 .. n + 1
      BY <1>18, <2>1
    <3>2. CASE i \in 1 .. n
      <4>1. /\ delivered[i].round = round
            /\ delivered[i].disc = (i = 1)
            /\ delivered[i].start = IF i = 1 THEN 0 ELSE delivered[i - 1].stop
        BY <1>3, <1>18, <3>2 DEF OrderInv, P!PullsInOrder
      <4>2. i # 1 => i - 1 \in 1 .. n
        BY <1>18, <3>2
      <4> QED
        BY <1>1, <1>18, <3>2, <4>1, <4>2
    <3>3. CASE i = n + 1
      <4>1. delivered'[i] = P!Relative(pSample)
        BY <1>18, <3>3
      <4>2. Due = tStart <=> i = 1
        BY <1>5, <1>18, <3>3 DEF ReachInv
      <4>3. delivered'[i].disc = (i = 1)
        BY <1>17, <4>1, <4>2 DEF Deliveries
      <4>4. CASE i = 1
        <5>1. Due - tStart = 0
          BY <1>14, <4>2, <4>4
        <5> QED
          BY <1>1, <1>17, <4>1, <4>3, <4>4, <5>1
      <4>5. CASE i # 1
        <5>1. delivered # <<>> /\ n \in 1 .. n /\ i - 1 = n
          BY <1>18, <3>3, <4>5
        <5>2. delivered'[i - 1].stop = P!Least(Due, tStop) - tStart
          BY <1>5, <1>18, <5>1 DEF ReachInv, Reached
        <5>3. P!Least(Due, tStop) = Due
          BY <1>14 DEF P!Least
        <5> QED
          BY <1>1, <1>17, <4>1, <4>3, <4>5, <5>2, <5>3
      <4> QED
        BY <4>4, <4>5
    <3> QED
      BY <3>1, <3>2, <3>3
  <2> QED
    BY <1>18, <2>1 DEF OrderInv, P!PullsInOrder
<1> QED
  BY <1>8, <1>9, <1>11, <1>12, <1>13, <1>19, <1>20 DEF PullInv, WorkInv

-----------------------------------------------------------------------------
LEMMA PullKeepsInv ==
  ASSUME Align <= 2, PullInv, P!PullNext
  PROVE  PullInv'
<1>1. ASSUME NEW q \in Ranges, P!Seek(q[1], q[2]) \/ P!SeekEndFlush(q[1], q[2])
      PROVE  PullInv'
  <2>1. q[1] \in Nat /\ q[2] \in Nat
    BY StreamingAssumption
  <2> QED
    BY <1>1, <2>1, SeekKeepsPull, SeekEndKeepsPull
<1>2. CASE P!Application
  BY <1>1, <1>2, ConnectKeepsPull, ActiveKeepsPull, InactiveKeepsPull, DisconnectKeepsPull
  DEF P!Application
<1>3. CASE P!Caller
  BY <1>1, <1>3, SeekBeginKeepsPull, NoThreadKeepsPull, BeginFlushKeepsPull, TellKeepsPull,
     RefusalKeepsPull, EndFlushKeepsPull, CloseKeepsPull, ReleaseKeepsPull, CreateKeepsPull,
     StartFailsKeepsPull, TellStartKeepsPull, StartedKeepsPull
  DEF P!Caller
<1>4. CASE P!Worker
  BY <1>4, GetRequestKeepsPull, ThreadEndsKeepsPull, ProcessKeepsPull, CheckKeepsPull,
     GetBufferKeepsPull, QueueKeepsPull, InnerKeepsPull, CollectCancelledKeepsPull, ReadKeepsPull,
     EndOfStreamKeepsPull, CleanupKeepsPull, ForceFlushKeepsPull
  DEF P!Worker
<1>5. CASE P!Collect \/ P!Delivers \/ P!GiveBack
  BY <1>5, CollectKeepsPull, ReceiveKeepsPull, GiveBackKeepsPull DEF P!Delivers
<1> QED
  BY <1>2, <1>3, <1>4, <1>5 DEF P!PullNext

LEMMA PullStutters ==
  ASSUME PullInv, UNCHANGED pullVars
  PROVE  PullInv'
<1>1. UNCHANGED workVars
  BY DEF pullVars, workVars
<1>2. ThreadInv' /\ AnswerInv'
  BY DEF PullInv, pullVars, ThreadInv, AnswerInv, P!Command
<1> QED
  BY <1>1, <1>2, SameWork DEF PullInv

LEMMA InvIsSafe == PullInv => PullSafety
<1> SUFFICES ASSUME PullInv PROVE PullSafety
  OBVIOUS
<1>1. ThreadInv /\ AnswerInv /\ PoolInv /\ HandInv /\ FlowInv /\ DoneInv /\ OrderInv
  BY DEF PullInv, WorkInv
<1>2. Hand \in {0, 1} /\ cBuffers \in Nat /\ Len(requests) \in Nat
  BY <1>1, StreamingAssumption DEF Hand, PoolInv
<1>3. P!InHand = Hand
  <2>1. P!NoSample.stop = 0
    BY DEF P!NoSample
  <2> QED
    BY <1>1, <2>1 DEF HandInv, P!InHand, Hand
<1>4. P!SamplesConserved
  BY <1>1, <1>3 DEF P!SamplesConserved, PoolInv
<1>5. P!TypeOK
  <2>1. {free, kept} \subseteq 0 .. cBuffers /\ Len(requests) <= cBuffers
    BY <1>1, <1>2 DEF PoolInv
  <2>2. op \in {"none", "active", "inactive", "disconnect", "seek"}
    BY <1>1 DEF ThreadInv
  <2> QED
    BY <1>1, <2>1, <2>2 DEF P!TypeOK, ThreadInv, HandInv
<1>6. P!IdleIsClean
  BY <1>1 DEF P!IdleIsClean, AnswerInv, HandInv
<1>7. P!WorkerHasReader
  BY <1>1 DEF P!WorkerHasReader, AnswerInv, ThreadInv
<1>8. P!PullsTheRange
  BY <1>1 DEF P!PullsTheRange, P!EndIsTheEnd, OrderInv, DoneInv, Reached
<1> QED
  BY <1>4, <1>5, <1>6, <1>7, <1>8 DEF PullSafety, P!PullSafety

(* Of a reader whose samples hold what it aligns to (in units of a sample, *)
(* an alignment of at most two): no sample of the allocator is lost or in  *)
(* two places, an idle worker has nothing out, and what is delivered is    *)
(* the range, in order, without a gap and once, before its end; and no     *)
(* worker is left without its reader, unless that refused to be flushed    *)
(* when the pin was disconnected.                                          *)
THEOREM PullIsSafe == ASSUME Align <= 2 PROVE StreamingSpec => []PullSafety
<1>1. StreamingInit => PullInv
  BY PullStarts
<1>2. PullInv /\ [StreamingNext]_allVars => PullInv'
  <2> SUFFICES ASSUME PullInv, [StreamingNext]_allVars PROVE PullInv'
    OBVIOUS
  <2>1. CASE P!PullNext
    BY <2>1, PullKeepsInv
  <2>2. CASE UNCHANGED pullVars
    BY <2>2, PullStutters
  <2>3. P!PullNext \/ UNCHANGED pullVars
    BY DEF StreamingNext, Pull, Control, ButThread, ButPull, ButControl, allVars
  <2> QED
    BY <2>1, <2>2, <2>3
<1> QED
  BY <1>1, <1>2, InvIsSafe, PTL DEF StreamingSpec
=============================================================================
