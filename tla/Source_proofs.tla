--------------------------- MODULE Source_proofs ---------------------------
(***************************************************************************)
(* Proofs about SourceFilter, for any number of pins and buffers, any      *)
(* derived class and any faults: types, the samples of the allocators, the *)
(* order of the frames, and what a start and a stop leave behind.          *)
(***************************************************************************)
EXTENDS SourceFilter, TLAPS

Labels == {"none", "expectInit", "getRequest", "checkRequest", "getBuffer", "fillBuffer",
           "deliver", "deliverEos", "exiting", "exited"}

(* What the proofs need to know of the variables they are about.           *)
PoolTypes ==
  /\ worker \in [Pins -> Labels]
  /\ free \in [Pins -> Nat] /\ kept \in [Pins -> Nat]
  /\ m_nCount \in [Pins -> Int] /\ pSample \in [Pins -> Int] /\ received \in [Pins -> Int]

(* A pin without a thread handle has no worker, and so no sample.          *)
HandleInv == \A p \in Pins : worker[p] # "none" => p \in m_hThread

(* The next frame is the one after the frame in the worker's sample or, if *)
(* there is none, after the last one downstream received; the frame in the *)
(* sample is the one after that.                                           *)
FrameInv ==
  \A p \in Pins :
    IF worker[p] = "deliver"
    THEN /\ pSample[p] = (received[p] + 1) % CountMod
         /\ m_nCount[p] = (pSample[p] + 1) % CountMod
    ELSE m_nCount[p] = (received[p] + 1) % CountMod

PoolInv == PoolTypes /\ HandleInv /\ AllPathsReleaseTheSample /\ FrameInv

LEMMA PoolInitially == Init => PoolInv
<1> SUFFICES ASSUME Init PROVE PoolInv
  OBVIOUS
<1> USE SizesArePositive, CountModPositive DEF Init
<1>1. PoolTypes
  BY DEF PoolTypes, Labels
<1>2. HandleInv
  BY DEF HandleInv
<1>3. AllPathsReleaseTheSample
  BY DEF AllPathsReleaseTheSample, HasSample
<1>4. FrameInv
  <2>1. \A p \in Pins : m_nCount[p] = 0 /\ received[p] + 1 = 0 /\ worker[p] # "deliver"
    OBVIOUS
  <2>2. 0 = 0 % CountMod
    OBVIOUS
  <2> QED
    BY <2>1, <2>2 DEF FrameInv
<1> QED
  BY <1>1, <1>2, <1>3, <1>4 DEF PoolInv

(* What the application does inside the filter: it starts and buries       *)
(* workers, none of which has a sample then.                               *)
LEMMA AppKeeps ==
  ASSUME PoolInv, AppCall \/ AppStep PROVE PoolInv'
<1> USE DEF PoolInv, PoolTypes, Labels, HandleInv, AllPathsReleaseTheSample, HasSample, FrameInv
<1>1. ASSUME UNCHANGED <<free, kept, frames, m_hThread, worker>> PROVE PoolInv'
  BY <1>1 DEF frames
<1>2. CASE AppCall
  <2>1. UNCHANGED <<free, kept, frames, m_hThread, worker>>
    BY <1>2 DEF AppCall, Pause, Run, Stop, Destroy, PinCall, Begin, SetState, poolState, workState
  <2> QED
    BY <2>1, <1>1
<1>3. CASE SkipPin \/ ActiveCommit \/ InactiveDecommit \/ Send \/ Answered
  <2>1. UNCHANGED <<free, kept, frames, m_hThread, worker>>
    BY <1>3 DEF SkipPin, ActiveCommit, InactiveDecommit, Send, Answered, poolState, workState
  <2> QED
    BY <2>1, <1>1
<1>4. CASE ActiveCreate
  <2>1. UNCHANGED <<free, kept, frames>>
    BY <1>4 DEF ActiveCreate, poolState
  <2>2. CASE UNCHANGED <<m_hThread, worker>>
    BY <2>1, <2>2, <1>1
  <2>3. CASE /\ c \notin m_hThread /\ m_hThread' = m_hThread \union {c}
             /\ worker' = [worker EXCEPT ![c] = "expectInit"]
    <3>1. \A p \in Pins : worker'[p] # worker[p] =>
            worker[p] = "none" /\ worker'[p] = "expectInit"
      BY <2>3
    <3> QED
      BY <2>1, <2>3, <3>1 DEF frames
  <2> QED
    BY <1>4, <2>2, <2>3 DEF ActiveCreate
<1>5. CASE Close
  <2>1. UNCHANGED <<free, kept, frames>>
    BY <1>5 DEF Close, poolState
  <2>2. \A p \in Pins : /\ worker'[p] # worker[p] => worker[p] = "exited" /\ worker'[p] = "none"
                        /\ p \in m_hThread /\ p \notin m_hThread' => worker'[p] = "none"
    BY <1>5 DEF Close
  <2> QED
    BY <1>5, <2>1, <2>2 DEF Close, frames
<1> QED
  BY <1>2, <1>3, <1>4, <1>5 DEF AppStep

(* What the worker of pin p does.                                          *)
LEMMA WorkerKeeps ==
  ASSUME PoolInv, NEW p \in Pins, WorkerStep(p) \/ DownstreamRelease(p) PROVE PoolInv'
<1> USE DEF PoolInv, PoolTypes, Labels, HandleInv, AllPathsReleaseTheSample, HasSample, FrameInv,
        WorkerGoTo, workerFrame, loopFrame, poolState, frames
<1>1. CASE ExpectInit(p) \/ GetRequest(p) \/ ExitThread(p) \/ CheckRequest(p) \/ DeliverEndOfStream(p)
  <2>1. /\ UNCHANGED <<free, kept, frames, m_hThread>>
        /\ worker[p] \notin {"none", "fillBuffer", "deliver"}
        /\ \/ worker' = worker
           \/ \E l \in Labels \ {"none", "fillBuffer", "deliver"} : worker' = [worker EXCEPT ![p] = l]
    BY <1>1 DEF ExpectInit, GetRequest, ExitThread, CheckRequest, DeliverEndOfStream
  <2> QED
    BY <2>1
<1>2. CASE GetBuffer(p)
  BY <1>2 DEF GetBuffer
<1>3. CASE FillBuffer(p)
  BY <1>3, CountModPositive DEF FillBuffer, FillFrame, ReleaseSample
<1>4. CASE Deliver(p)
  <2>1. PICK keeps \in BOOLEAN, l \in {"checkRequest", "getRequest"} :
          /\ free' = IF keeps THEN free ELSE [free EXCEPT ![p] = @ + 1]
          /\ kept' = IF keeps THEN [kept EXCEPT ![p] = @ + 1] ELSE kept
          /\ pSample' = [pSample EXCEPT ![p] = -1]
          /\ worker' = [worker EXCEPT ![p] = l]
    BY <1>4 DEF Deliver, ReleaseDelivered
  <2>2. /\ worker[p] = "deliver" /\ received' = [received EXCEPT ![p] = pSample[p]]
        /\ UNCHANGED <<m_nCount, m_hThread>>
    BY <1>4 DEF Deliver
  <2>3. PoolTypes' /\ HandleInv'
    BY <2>1, <2>2
  <2>4. AllPathsReleaseTheSample'
    <3>1. CASE keeps
      BY <2>1, <2>2, <3>1
    <3>2. CASE ~keeps
      BY <2>1, <2>2, <3>2
    <3> QED
      BY <3>1, <3>2
  <2>5. FrameInv'
    BY <2>1, <2>2
  <2> QED
    BY <2>3, <2>4, <2>5
<1>5. CASE DownstreamRelease(p)
  BY <1>5 DEF DownstreamRelease, workState
<1> QED
  BY <1>1, <1>2, <1>3, <1>4, <1>5 DEF WorkerStep

LEMMA PoolKept == PoolInv /\ [Next]_vars => PoolInv'
<1> SUFFICES ASSUME PoolInv, [Next]_vars PROVE PoolInv'
  OBVIOUS
<1>1. CASE UNCHANGED vars
  BY <1>1 DEF vars, poolState, workState, frames, PoolInv, PoolTypes, HandleInv,
     AllPathsReleaseTheSample, HasSample, FrameInv
<1>2. CASE Terminated
  BY <1>1, <1>2 DEF Terminated
<1> QED
  BY <1>1, <1>2, AppKeeps, WorkerKeeps DEF Next

LEMMA PoolInvariance == Spec => []PoolInv
BY PoolInitially, PoolKept, PTL DEF Spec

(* Whichever way the worker's loop is left, and whatever state change goes *)
(* on meanwhile, each sample is in the allocator, in the worker's hands or *)
(* kept by downstream.                                                     *)
THEOREM SamplesAlwaysReleased == Spec => []AllPathsReleaseTheSample
<1>1. PoolInv => AllPathsReleaseTheSample
  BY DEF PoolInv
<1> QED
  BY <1>1, PoolInvariance, PTL

(* Each pin delivers the frames in order, without a gap or a repetition,   *)
(* across stops, errors and restarts, for every derived class: what is     *)
(* true of ImplementsFrameSource also when Pause fails half way.           *)
FramesInOrder ==
  [][\A p \in Pins : received'[p] # received[p] =>
                       received'[p] = (received[p] + 1) % CountMod]_vars

THEOREM FramesStayInOrder == Spec => FramesInOrder
<1>1. PoolInv /\ [Next]_vars =>
        [\A p \in Pins : received'[p] # received[p] =>
                            received'[p] = (received[p] + 1) % CountMod]_vars
  <2> SUFFICES ASSUME PoolInv, Next
               PROVE  \A p \in Pins : received'[p] # received[p] =>
                                          received'[p] = (received[p] + 1) % CountMod
    OBVIOUS
  <2>1. CASE received' = received
    BY <2>1
  <2>2. CASE \E p \in Pins : Deliver(p)
    BY <2>2 DEF Deliver, PoolInv, PoolTypes, FrameInv
  <2>3. received' = received \/ \E p \in Pins : Deliver(p)
    <3>1. CASE AppCall \/ AppStep \/ Terminated
      BY <3>1 DEF AppCall, Pause, Run, Stop, Destroy, PinCall, Begin, SetState, AppStep, SkipPin,
         ActiveCommit, ActiveCreate, InactiveDecommit, Close, Send, Answered, Terminated,
         vars, workState, frames
    <3>2. ASSUME NEW p \in Pins, WorkerStep(p) \/ DownstreamRelease(p), ~Deliver(p)
          PROVE  received' = received
      BY <3>2 DEF WorkerStep, DownstreamRelease, ExpectInit, GetRequest, ExitThread, CheckRequest,
         GetBuffer, FillBuffer, DeliverEndOfStream, workState, frames
    <3> QED
      BY <3>1, <3>2 DEF Next
  <2> QED
    BY <2>1, <2>2, <2>3
<1> QED
  BY <1>1, PoolInvariance, PTL DEF Spec, FramesInOrder

(***************************************************************************)
(* Types                                                                   *)
(***************************************************************************)
LEMMA NextPinTypes ==
  ASSUME AppTypeOK, NextPin
  PROVE  /\ c' \in Pins /\ step' \in {"idle", "commit", "decommit", "close"}
         /\ m_State' \in {"Stopped", "Paused", "Running"}
         /\ op' \in {"none", "Pause", "Run", "Stop", "PinCall", "Destroy", "destroyed"}
<1> USE SizesArePositive DEF AppTypeOK, NextPin, Pins, LastPin, FirstStep, Target
<1>1. c' \in Pins
  OBVIOUS
<1>2. step' \in {"idle", "commit", "decommit", "close"}
  OBVIOUS
<1>3. /\ m_State' \in {"Stopped", "Paused", "Running"}
      /\ op' \in {"none", "Pause", "Run", "Stop", "PinCall", "Destroy", "destroyed"}
  OBVIOUS
<1> QED
  BY <1>1, <1>2, <1>3

LEMMA AppTypes == ASSUME TypeOK, AppCall PROVE AppTypeOK' /\ CallTypeOK'
<1> USE SizesArePositive DEF TypeOK, AppTypeOK, CallTypeOK, callState, workState, Pins, Commands
<1>1. CASE Pause
  BY <1>1 DEF Pause, Begin, SetState
<1>2. CASE Run
  BY <1>2 DEF Run, Begin, SetState
<1>3. CASE Stop
  BY <1>3 DEF Stop, Begin
<1>4. CASE Destroy
  BY <1>4 DEF Destroy
<1>5. ASSUME NEW p \in Pins, NEW com \in PinCalls, PinCall(p, com)
      PROVE  AppTypeOK' /\ CallTypeOK'
  BY <1>5, PinCallsAreKnown DEF PinCall
<1> QED
  BY <1>1, <1>2, <1>3, <1>4, <1>5 DEF AppCall

LEMMA AppStepTypes == ASSUME TypeOK, AppStep PROVE AppTypeOK' /\ CallTypeOK'
<1> USE DEF TypeOK, AppTypeOK, CallTypeOK, Commands, callState, workState
<1>1. CASE SkipPin
  BY <1>1, NextPinTypes DEF SkipPin
<1>2. CASE ActiveCommit
  BY <1>2 DEF ActiveCommit, ReturnFailure, CallDone
<1>3. CASE ActiveCreate
  BY <1>3 DEF ActiveCreate, ReturnFailure, CallDone
<1>4. CASE InactiveDecommit
  BY <1>4, NextPinTypes DEF InactiveDecommit, DecommitThenStop
<1>5. CASE Close
  BY <1>5, NextPinTypes DEF Close
<1>6. CASE Send
  BY <1>6 DEF Send
<1>7. CASE Answered
  BY <1>7, NextPinTypes DEF Answered, AfterAnswer, ReturnFailure, CallDone
<1> QED
  BY <1>1, <1>2, <1>3, <1>4, <1>5, <1>6, <1>7 DEF AppStep

(* The sets of pins, and the frame numbers; the application touches no     *)
(* sample.                                                                 *)
LEMMA AppPinTypes == ASSUME TypeOK, AppCall \/ AppStep PROVE PinTypeOK'
<1> USE DEF TypeOK, AppTypeOK, PinTypeOK, poolState, workState, frames
<1>1. CASE AppCall
  BY <1>1 DEF AppCall, Pause, Run, Stop, Destroy, PinCall, Begin, SetState
<1>2. CASE AppStep
  BY <1>2 DEF AppStep, SkipPin, ActiveCommit, ActiveCreate, InactiveDecommit, DecommitThenStop,
     Close, Send, Answered
<1> QED
  BY <1>1, <1>2

LEMMA ModTyped == \A n \in Int : n % CountMod \in 0..CountMod - 1
BY CountModPositive

LEMMA WorkerTypes ==
  ASSUME TypeOK, PoolInv', NEW p \in Pins, WorkerStep(p) \/ DownstreamRelease(p) PROVE TypeOK'
<1> USE DEF TypeOK
<1>1. AppTypeOK'
  BY DEF AppTypeOK, WorkerStep, DownstreamRelease, ExpectInit, GetRequest, ExitThread, CheckRequest,
     GetBuffer, FillBuffer, DeliverEndOfStream, Deliver, loopFrame, workerFrame, appState
<1>2. CallTypeOK'
  <2>1. worker' \in [Pins -> Labels]
    BY DEF PoolInv, PoolTypes
  <2>2. /\ callPhase' \in [Pins -> {"none", "asked", "answered"}]
        /\ callAnswer' \in [Pins -> Results \union {NoCommand}]
    BY DEF CallTypeOK, Results, Reply, ReplyInLoop, WorkerStep, DownstreamRelease, ExpectInit,
       GetRequest, ExitThread, CheckRequest, GetBuffer, FillBuffer, DeliverEndOfStream, Deliver,
       loopFrame, callState
  <2>3. callCommand' = callCommand
    BY DEF WorkerStep, DownstreamRelease, ExpectInit, GetRequest, ExitThread, CheckRequest,
       GetBuffer, FillBuffer, DeliverEndOfStream, Deliver, loopFrame, workerFrame, callState
  <2> QED
    BY <2>1, <2>2, <2>3 DEF CallTypeOK, Labels
<1>3. PinTypeOK'
  <2>1. UNCHANGED <<m_Connected, m_bCommitted, m_hThread>>
    BY DEF WorkerStep, DownstreamRelease, ExpectInit, GetRequest, ExitThread, CheckRequest,
       GetBuffer, FillBuffer, DeliverEndOfStream, Deliver, loopFrame, workerFrame, poolState
  <2>2. free' \in [Pins -> 0..NBuffers] /\ kept' \in [Pins -> 0..NBuffers]
    BY SizesArePositive DEF PoolInv, PoolTypes, AllPathsReleaseTheSample
  <2>3. /\ m_nCount' \in [Pins -> 0..CountMod - 1]
        /\ pSample' \in [Pins -> -1..CountMod - 1]
        /\ received' \in [Pins -> -1..CountMod - 1]
    <3>1. /\ m_nCount \in [Pins -> 0..CountMod - 1]
          /\ pSample \in [Pins -> -1..CountMod - 1]
          /\ received \in [Pins -> -1..CountMod - 1]
      BY DEF PinTypeOK
    <3>2. -1 \in -1..CountMod - 1 /\ 0..CountMod - 1 \subseteq -1..CountMod - 1
      BY CountModPositive
    <3>3. CASE FillBuffer(p)
      BY <3>1, <3>2, <3>3, ModTyped DEF FillBuffer, FillFrame, ReleaseSample
    <3>4. CASE Deliver(p)
      <4>1. /\ pSample' = [pSample EXCEPT ![p] = -1] /\ m_nCount' = m_nCount
            /\ received' = [received EXCEPT ![p] = pSample[p]]
        BY <3>4 DEF Deliver, ReleaseDelivered
      <4> QED
        BY <3>1, <3>2, <4>1
    <3>5. CASE ~FillBuffer(p) /\ ~Deliver(p)
      <4>1. UNCHANGED frames
        BY <3>5 DEF WorkerStep, DownstreamRelease, ExpectInit, GetRequest, ExitThread, CheckRequest,
           GetBuffer, DeliverEndOfStream, workState
      <4> QED
        BY <3>1, <4>1 DEF frames
    <3> QED
      BY <3>3, <3>4, <3>5
  <2> QED
    BY <2>1, <2>2, <2>3 DEF PinTypeOK
<1> QED
  BY <1>1, <1>2, <1>3

(* Every variable has its type; the allocators never have more samples     *)
(* than they were given, however the worker's loop is left.                *)
THEOREM TypeCorrect == Spec => []TypeOK
<1>1. Init => TypeOK
  BY SizesArePositive, CountModPositive DEF Init, TypeOK, AppTypeOK, PinTypeOK, CallTypeOK, Pins
<1>2. TypeOK /\ PoolInv' /\ [Next]_vars => TypeOK'
  <2> SUFFICES ASSUME TypeOK, PoolInv', [Next]_vars PROVE TypeOK'
    OBVIOUS
  <2>1. CASE UNCHANGED vars
    BY <2>1 DEF vars, appState, callState, poolState, workState, frames, TypeOK, AppTypeOK,
       PinTypeOK, CallTypeOK
  <2>2. CASE AppCall \/ AppStep
    BY <2>2, AppTypes, AppStepTypes, AppPinTypes DEF TypeOK
  <2> QED
    BY <2>1, <2>2, WorkerTypes DEF Next, Terminated
<1> QED
  BY <1>1, <1>2, PoolInvariance, PTL DEF Spec

(***************************************************************************)
(* Starting and stopping                                                   *)
(***************************************************************************)

(* A worker that passed CMD_INIT and was not told to exit.                 *)
LiveLabels == Labels \ {"none", "expectInit", "exiting", "exited"}
Live(p) == p \in m_hThread /\ worker[p] \in LiveLabels
Active(p) == Live(p) /\ p \in m_bCommitted

Waits(p, phase, com) == step = "await" /\ callPhase[p] = phase /\ callCommand[p] = com

(* Which step belongs to which call, and in which state the call is made.  *)
StepInv ==
  /\ step = "idle" <=> op \in {"none", "destroyed"}
  /\ step \in {"commit", "create"} => op \in {"Pause", "Run"}
  /\ step = "decommit" => op = "Stop"
  /\ step = "close" => op \in {"Stop", "Destroy"}
  /\ step \in {"send", "await"} => op \in {"Pause", "Run", "Stop", "PinCall"}
  /\ op \in {"Pause", "Run", "Destroy", "destroyed"} => m_State = "Stopped"
  /\ op \in {"Stop", "PinCall"} => m_State # "Stopped"

(* A command is under way to the pin the call is at and to no other.       *)
CallInv ==
  /\ step = "await" => callPhase[c] # "none"
  /\ \A p \in Pins : callPhase[p] # "none" => step = "await" /\ p = c

(* Pause and Run from a stopped filter: the pins before c are active, and  *)
(* the worker of c is as far as the command it has been sent.              *)
StartInv ==
  op \in {"Pause", "Run"} =>
    /\ \A p \in m_Connected : p < c => Active(p)
    /\ step \in {"create", "send", "await"} => c \in m_Connected \cap m_bCommitted
    /\ step \in {"send", "await"} => c \in m_hThread
    /\ step = "send" => \/ toSend = "CMD_INIT" /\ worker[c] = "expectInit"
                        \/ toSend = "CMD_PAUSE" /\ Live(c)
    /\ step = "await" => \/ Waits(c, "asked", "CMD_INIT") /\ worker[c] = "expectInit"
                         \/ Waits(c, "asked", "CMD_PAUSE") /\ Live(c)
                         \/ /\ Waits(c, "answered", "CMD_INIT")
                            /\ callAnswer[c] = "NOERROR" => Live(c)
                            /\ "init" \notin Faults => callAnswer[c] = "NOERROR"
                         \/ /\ Waits(c, "answered", "CMD_PAUSE")
                            /\ callAnswer[c] = "NOERROR" /\ Live(c)

(* A filter that is not stopped has active pins, and its derived class     *)
(* sends no CMD_EXIT.                                                      *)
ActiveInv ==
  /\ op \in {"none", "PinCall"} /\ m_State # "Stopped" => \A p \in m_Connected : Active(p)
  /\ op = "PinCall" => /\ step = "send" => toSend # "CMD_EXIT"
                       /\ step = "await" => callCommand[c] # "CMD_EXIT"

(* Stop: the pins behind c are still live, and the worker of c obeys.      *)
StopInv ==
  op = "Stop" =>
    /\ \A p \in m_Connected : p > c => Live(p)
    /\ step = "decommit" => (c \in m_Connected => Live(c))
    /\ step = "send" => \/ toSend = "CMD_STOP" /\ Live(c)
                        \/ toSend = "CMD_EXIT" /\ worker[c] = "getRequest"
    /\ step = "await" => \/ Waits(c, "asked", "CMD_STOP") /\ Live(c)
                         \/ Waits(c, "asked", "CMD_EXIT") /\ worker[c] = "getRequest"
                         \/ /\ Waits(c, "answered", "CMD_STOP") /\ callAnswer[c] = "NOERROR"
                            /\ worker[c] = "getRequest"
                         \/ /\ Waits(c, "answered", "CMD_EXIT") /\ callAnswer[c] = "NOERROR"
                            /\ worker[c] \in {"exiting", "exited"}
    /\ step = "close" => worker[c] \in {"exiting", "exited"}

StreamInv == StepInv /\ CallInv /\ StartInv /\ ActiveInv /\ StopInv

(* What a step of the worker of p, or of downstream, does to the call.     *)
Untouched(p) == UNCHANGED <<callPhase[p], callAnswer[p], worker[p]>>
Streams(p) == /\ UNCHANGED <<callPhase[p], callAnswer[p]>>
              /\ worker[p] \in LiveLabels \ {"getRequest"} /\ worker'[p] \in LiveLabels
Exits(p) == /\ UNCHANGED <<callPhase[p], callAnswer[p]>>
            /\ worker[p] = "exiting" /\ worker'[p] = "exited"
Answers(p) ==
  /\ callPhase[p] = "asked" /\ callPhase'[p] = "answered"
  /\ \/ /\ worker[p] = "expectInit" /\ callCommand[p] = "CMD_INIT"
        /\ \/ callAnswer'[p] = "NOERROR" /\ worker'[p] = "getRequest"
           \/ callAnswer'[p] = "E_FAIL" /\ "init" \in Faults /\ worker'[p] = "exited"
     \/ /\ worker[p] = "expectInit" /\ callCommand[p] # "CMD_INIT" /\ worker'[p] = worker[p]
     \/ /\ worker[p] = "getRequest" /\ callCommand[p] = "CMD_EXIT"
        /\ callAnswer'[p] = "NOERROR" /\ worker'[p] = "exiting"
     \/ /\ worker[p] \in LiveLabels /\ worker'[p] \in LiveLabels
        /\ callCommand[p] = "CMD_PAUSE" => callAnswer'[p] = "NOERROR"
        /\ callCommand[p] = "CMD_STOP" => callAnswer'[p] = "NOERROR" /\ worker'[p] = "getRequest"
        /\ callCommand[p] = "CMD_EXIT" => worker[p] # "getRequest"

LEMMA WorkerEffect ==
  ASSUME TypeOK, NEW p \in Pins, WorkerStep(p) \/ DownstreamRelease(p)
  PROVE  /\ UNCHANGED <<appState, m_Connected, m_bCommitted, m_hThread, callCommand>>
         /\ \A q \in Pins \ {p} : Untouched(q)
         /\ Untouched(p) \/ Streams(p) \/ Exits(p) \/ Answers(p)
<1> USE DEF TypeOK, CallTypeOK, Untouched, Streams, Exits, Answers, LiveLabels, Labels,
        WorkerGoTo, workerFrame, loopFrame, poolState, Reply, Asked, Commands
<1>1. CASE ExpectInit(p)
  BY <1>1 DEF ExpectInit
<1>2. CASE GetRequest(p)
  BY <1>2 DEF GetRequest
<1>3. CASE CheckRequest(p)
  BY <1>3 DEF CheckRequest, ReplyInLoop
<1>4. CASE ExitThread(p)
  BY <1>4 DEF ExitThread
<1>5. CASE GetBuffer(p) \/ FillBuffer(p) \/ DeliverEndOfStream(p) \/ Deliver(p)
  BY <1>5 DEF GetBuffer, FillBuffer, DeliverEndOfStream, Deliver
<1>6. CASE DownstreamRelease(p)
  BY <1>6 DEF DownstreamRelease, callState, workState
<1> QED
  BY <1>1, <1>2, <1>3, <1>4, <1>5, <1>6 DEF WorkerStep

LEMMA WorkerStreams ==
  ASSUME TypeOK, StreamInv, NEW p \in Pins, WorkerStep(p) \/ DownstreamRelease(p)
  PROVE  StreamInv'
<1>1. /\ UNCHANGED <<appState, m_Connected, m_bCommitted, m_hThread, callCommand>>
      /\ \A q \in Pins \ {p} : Untouched(q)
      /\ Untouched(p) \/ Streams(p) \/ Exits(p) \/ Answers(p)
  BY WorkerEffect
<1>2. c \in Pins /\ m_Connected \subseteq Pins
  BY DEF TypeOK, AppTypeOK, PinTypeOK
<1> USE DEF StreamInv, appState
<1>3. StepInv'
  BY <1>1 DEF StepInv
<1>4. CallInv'
  BY <1>1, <1>2 DEF CallInv, Untouched, Streams, Exits, Answers
<1>5. ASSUME NEW q \in Pins, Live(q), ~Live(q)'
      PROVE  q = c /\ Waits(q, "asked", "CMD_EXIT")
  BY <1>1, <1>5 DEF Live, LiveLabels, Labels, Untouched, Streams, Exits, Answers, CallInv, Waits
<1>6. StartInv'
  <2> SUFFICES ASSUME op \in {"Pause", "Run"} PROVE StartInv'
    BY <1>1 DEF StartInv
  <2>1. \A q \in Pins : Live(q) => Live(q)'
    BY <1>5 DEF StartInv, Waits
  <2>2. \A q \in Pins : Active(q) => Active(q)'
    BY <1>1, <2>1 DEF Active
  <2>3. CASE step # "await"
    BY <1>1, <1>2, <2>1, <2>2, <2>3 DEF StartInv, CallInv, Untouched, Streams, Exits, Answers,
       LiveLabels, Labels
  <2>4. CASE step = "await"
    BY <1>1, <1>2, <2>1, <2>2, <2>4 DEF StartInv, Waits, Untouched, Streams, Exits, Answers,
       Live, LiveLabels, Labels
  <2> QED
    BY <2>3, <2>4
<1>7. ActiveInv'
  BY <1>1, <1>2, <1>5 DEF ActiveInv, Active, StepInv, Waits
<1>8. StopInv'
  <2> SUFFICES ASSUME op = "Stop" PROVE StopInv'
    BY <1>1 DEF StopInv
  <2>1. \A q \in Pins : q > c /\ Live(q) => Live(q)'
    BY <1>5, <1>2 DEF Pins
  <2>2. CASE step # "await"
    <3>1. \A q \in Pins : Live(q) => Live(q)'
      BY <2>2, <1>5 DEF Waits
    <3> QED
      BY <1>1, <1>2, <2>2, <3>1 DEF StopInv, CallInv, Untouched, Streams, Exits, Answers,
         LiveLabels, Labels
  <2>3. CASE step = "await"
    BY <1>1, <1>2, <2>1, <2>3 DEF StopInv, Waits, Untouched, Streams, Exits, Answers,
       Live, LiveLabels, Labels
  <2> QED
    BY <2>2, <2>3
<1> QED
  BY <1>3, <1>4, <1>6, <1>7, <1>8

(* The loop goes on to the next pin or out of the call: the pin it leaves  *)
(* is active, or Stop is done with it, or it is not connected.             *)
LEMMA NextPinStreams ==
  ASSUME TypeOK, StreamInv, NextPin, op \in {"Pause", "Run", "Stop", "Destroy"}, step # "idle",
         \A p \in Pins : callPhase'[p] = "none",
         \A p \in m_Connected : op \in {"Pause", "Run"} /\ p = c => Active(p)',
         \A p \in Pins : Active(p) /\ p # c => Active(p)',
         \A p \in Pins : Live(p) /\ p # c => Live(p)',
         UNCHANGED m_Connected
  PROVE  StreamInv'
<1> USE SizesArePositive DEF StreamInv, NextPin, FirstStep, LastPin
<1>1. c \in 1..NPins /\ m_Connected \subseteq 1..NPins
  BY DEF TypeOK, AppTypeOK, PinTypeOK, Pins
<1>2. StepInv'
  BY DEF StepInv, Target
<1>3. CallInv'
  BY DEF CallInv
<1>4. StartInv'
  BY <1>1 DEF StartInv, Pins
<1>5. ActiveInv'
  BY <1>1 DEF ActiveInv, StartInv, Target, Pins
<1>6. StopInv'
  BY <1>1 DEF StopInv, Pins
<1> QED
  BY <1>2, <1>3, <1>4, <1>5, <1>6

LEMMA AppCallStreams == ASSUME TypeOK, StreamInv, AppCall PROVE StreamInv'
<1> USE DEF StreamInv, StepInv, CallInv, StartInv, ActiveInv, StopInv, Idle, poolState, callState,
        workState
<1>1. /\ \A p \in Pins : callPhase[p] = "none"
      /\ c \in 1..NPins /\ m_Connected \subseteq 1..NPins
  BY DEF AppCall, Pause, Run, Stop, Destroy, PinCall, Begin, SetState, TypeOK, AppTypeOK, PinTypeOK,
     CallTypeOK, Pins
<1> USE DEF Active, Live
<1>2. CASE Pause \/ Run
  <2>1. CASE m_State = "Stopped"
    <3>1. op' \in {"Pause", "Run"} /\ c' = 1 /\ step' = "commit" /\ UNCHANGED m_State
      BY <1>2, <2>1 DEF Pause, Run, Begin
    <3>2. UNCHANGED <<m_Connected, callPhase>>
      BY <1>2, <2>1 DEF Pause, Run, Begin
    <3> QED
      BY <1>1, <2>1, <3>1, <3>2
  <2>2. CASE m_State # "Stopped"
    <3>1. /\ Idle /\ m_State' \in {"Paused", "Running"}
          /\ UNCHANGED <<op, c, step, m_Connected, callPhase, m_hThread, m_bCommitted, worker>>
      BY <1>2, <2>2 DEF Pause, Run, SetState
    <3> QED
      BY <1>1, <2>2, <3>1
  <2> QED
    BY <2>1, <2>2
<1>3. CASE Stop
  BY <1>1, <1>3 DEF Stop, Begin
<1>4. CASE Destroy
  BY <1>1, <1>4 DEF Destroy
<1>5. ASSUME NEW p \in Pins, NEW com \in PinCalls, PinCall(p, com)
      PROVE  StreamInv'
  BY <1>1, <1>5, PinCallsAreKnown DEF PinCall
<1> QED
  BY <1>2, <1>3, <1>4, <1>5 DEF AppCall

LEMMA AppStepStreams == ASSUME TypeOK, PoolInv, StreamInv, AppStep PROVE StreamInv'
<1> USE DEF Live, Active
<1>1. /\ c \in 1..NPins /\ m_Connected \subseteq 1..NPins
      /\ callPhase \in [Pins -> {"none", "asked", "answered"}]
      /\ callCommand \in [Pins -> Commands \union {NoCommand}]
      /\ callAnswer \in [Pins -> Results \union {NoCommand}]
      /\ worker \in [Pins -> Labels]
  BY DEF TypeOK, AppTypeOK, PinTypeOK, CallTypeOK, Pins, Labels
<1>2. step # "await" => \A p \in Pins : callPhase[p] = "none"
  BY <1>1 DEF StreamInv, CallInv
<1> USE DEF poolState, callState, workState
<1>3. CASE SkipPin
  <2>1. op \in {"Pause", "Run", "Stop"} /\ step # "await"
    BY <1>3 DEF SkipPin, StreamInv, StepInv
  <2> QED
    BY <1>1, <1>2, <1>3, <2>1, NextPinStreams DEF SkipPin
<1>4. CASE ActiveCommit
  BY <1>1, <1>2, <1>4 DEF ActiveCommit, ReturnFailure, CallDone, StreamInv, StepInv, CallInv,
     StartInv, ActiveInv, StopInv
<1>5. CASE ActiveCreate
  BY <1>1, <1>2, <1>5 DEF ActiveCreate, ReturnFailure, CallDone, StreamInv, StepInv, CallInv,
     StartInv, ActiveInv, StopInv, Pins
<1>6. CASE InactiveDecommit
  <2>1. CASE c \in m_hThread
    BY <1>1, <1>2, <1>6, <2>1 DEF InactiveDecommit, DecommitThenStop, StreamInv, StepInv, CallInv,
       StartInv, ActiveInv, StopInv, Pins
  <2>2. CASE c \notin m_hThread
    BY <1>1, <1>2, <1>6, <2>2, NextPinStreams DEF InactiveDecommit, DecommitThenStop, StreamInv,
       StepInv
  <2> QED
    BY <2>1, <2>2
<1>7. CASE Close
  <2>1. op \in {"Stop", "Destroy"} /\ step = "close"
    BY <1>7 DEF Close, StreamInv, StepInv
  <2>2. \A p \in Pins : p # c => (Live(p) => Live(p)') /\ (Active(p) => Active(p)')
    BY <1>1, <1>7 DEF Close
  <2> QED
    BY <1>1, <1>2, <1>7, <2>1, <2>2, NextPinStreams DEF Close
<1>8. CASE Send
  BY <1>1, <1>2, <1>8 DEF Send, StreamInv, StepInv, CallInv, StartInv, ActiveInv, StopInv, Waits,
     Pins
<1>9. CASE Answered
  <2>1. /\ step = "await" /\ callPhase[c] = "answered" /\ callPhase'[c] = "none"
        /\ \A p \in Pins : callPhase'[p] = "none"
        /\ UNCHANGED <<m_Connected, m_bCommitted, m_hThread, worker>>
        /\ AfterAnswer(callCommand[c], callAnswer[c])
    BY <1>1, <1>9 DEF Answered, StreamInv, CallInv, Pins
  <2> DEFINE GoesOn(s, com) == step' = s /\ toSend' = com /\ UNCHANGED <<op, c, m_State>>
  <2>2. /\ op \in {"Pause", "Run", "Stop", "PinCall"}
        /\ op \in {"Pause", "Run"} =>
              \/ Waits(c, "answered", "CMD_INIT") /\ (callAnswer[c] = "NOERROR" => Live(c))
              \/ Waits(c, "answered", "CMD_PAUSE") /\ callAnswer[c] = "NOERROR" /\ Active(c)
        /\ op = "Stop" =>
              /\ callAnswer[c] = "NOERROR"
              /\ \/ Waits(c, "answered", "CMD_STOP") /\ worker[c] = "getRequest"
                 \/ Waits(c, "answered", "CMD_EXIT") /\ worker[c] \in {"exiting", "exited"}
    BY <2>1 DEF StreamInv, StepInv, StartInv, StopInv, Waits
  <2>3. CASE op = "PinCall" \/ (op \in {"Pause", "Run"} /\ callAnswer[c] # "NOERROR")
    <3>1. CallDone
      <4>1. CASE op = "PinCall"
        BY <2>1, <4>1 DEF AfterAnswer
      <4>2. CASE op # "PinCall"
        <5>1. callCommand[c] = "CMD_INIT"
          BY <2>2, <2>3, <4>2 DEF Waits
        <5> QED
          BY <2>1, <2>3, <4>2, <5>1 DEF AfterAnswer, ReturnFailure
      <4> QED
        BY <4>1, <4>2
    <3>2. op = "PinCall" => m_State # "Stopped" /\ \A p \in m_Connected : Active(p)
      BY DEF StreamInv, StepInv, ActiveInv
    <3>3. op # "PinCall" => m_State = "Stopped"
      BY <2>2, <2>3 DEF StreamInv, StepInv
    <3> QED
      BY <2>1, <3>1, <3>2, <3>3 DEF CallDone, StreamInv, StepInv, CallInv, StartInv, ActiveInv, StopInv
  <2>4. CASE op \in {"Pause", "Run"} /\ callAnswer[c] = "NOERROR" /\ callCommand[c] = "CMD_INIT"
    <3>1. GoesOn("send", "CMD_PAUSE")
      BY <2>1, <2>4 DEF AfterAnswer
    <3>2. Live(c) /\ c \in m_Connected \cap m_bCommitted /\ m_State = "Stopped"
          /\ \A p \in m_Connected : p < c => Active(p)
      BY <2>1, <2>2, <2>4 DEF Waits, StreamInv, StartInv, StepInv
    <3> QED
      BY <2>1, <2>4, <3>1, <3>2 DEF StreamInv, StepInv, CallInv, StartInv, ActiveInv, StopInv
  <2>5. CASE op \in {"Pause", "Run"} /\ callAnswer[c] = "NOERROR" /\ callCommand[c] # "CMD_INIT"
    <3>1. NextPin /\ Active(c)
      BY <2>1, <2>2, <2>5 DEF AfterAnswer, Waits
    <3>2. \A p \in Pins : (Live(p) => Live(p)') /\ (Active(p) => Active(p)')
      BY <2>1
    <3>3. c \in Pins
      BY <1>1 DEF Pins
    <3>4. /\ NextPin /\ step # "idle" /\ op \in {"Pause", "Run", "Stop", "Destroy"}
          /\ \A p \in Pins : callPhase'[p] = "none"
          /\ m_Connected' = m_Connected
      BY <2>1, <2>5, <3>1
    <3>5. /\ \A p \in m_Connected : op \in {"Pause", "Run"} /\ p = c => Active(p)'
          /\ \A p \in Pins : Active(p) /\ p # c => Active(p)'
          /\ \A p \in Pins : Live(p) /\ p # c => Live(p)'
      BY <3>1, <3>2, <3>3
    <3> QED
      BY <3>4, <3>5, NextPinStreams
  <2>6. CASE op = "Stop"
    <3>1. \/ GoesOn("send", "CMD_EXIT") /\ worker[c] = "getRequest"
          \/ step' = "close" /\ UNCHANGED <<toSend, op, c, m_State>>
             /\ worker[c] \in {"exiting", "exited"}
      BY <2>1, <2>2, <2>6 DEF AfterAnswer, Waits
    <3>2. m_State # "Stopped" /\ \A p \in m_Connected : p > c => Live(p)
      BY <2>6 DEF StreamInv, StepInv, StopInv
    <3> QED
      BY <2>1, <2>6, <3>1, <3>2 DEF StreamInv, StepInv, CallInv, StartInv, ActiveInv, StopInv
  <2> QED
    BY <2>2, <2>3, <2>4, <2>5, <2>6
<1> QED
  BY <1>3, <1>4, <1>5, <1>6, <1>7, <1>8, <1>9 DEF AppStep

LEMMA StreamInvariance == Spec => [](TypeOK /\ PoolInv /\ StreamInv)
<1>1. Init => StreamInv
  BY DEF Init, StreamInv, StepInv, CallInv, StartInv, ActiveInv, StopInv
<1>2. TypeOK /\ PoolInv /\ StreamInv /\ [Next]_vars => StreamInv'
  <2> SUFFICES ASSUME TypeOK, PoolInv, StreamInv, [Next]_vars PROVE StreamInv'
    OBVIOUS
  <2>1. CASE UNCHANGED vars
    BY <2>1 DEF vars, appState, callState, poolState, workState, StreamInv, StepInv, CallInv,
       StartInv, ActiveInv, StopInv, Waits, Active, Live
  <2> QED
    BY <2>1, WorkerStreams, AppCallStreams, AppStepStreams DEF Next, Terminated
<1> QED
  BY <1>1, <1>2, TypeCorrect, PoolInvariance, PTL DEF Spec

(* A filter that is paused or running streams from every connected pin:    *)
(* its worker passed CMD_INIT and was not told to exit, and its allocator  *)
(* is committed, whatever failed before and however often it was started.  *)
THEOREM ActiveFilterStreams == Spec => []ActiveStreams
<1>1. StreamInv => ActiveStreams
  BY DEF StreamInv, ActiveInv, ActiveStreams, Idle, Active, Live, LiveLabels
<1> QED
  BY <1>1, StreamInvariance, PTL

(* What CMySourceFilter satisfies: OnThreadCreate does not fail, and what  *)
(* may fail does so before the only thread there is, is created.           *)
StartsAllOrNothing == "init" \notin Faults /\ (NPins = 1 \/ Faults = {})

(* Which pins may have a thread while a call goes through them.            *)
QuietInv ==
  /\ m_hThread \subseteq m_Connected
  /\ op \in {"Destroy", "destroyed"} \/ (op = "none" /\ m_State = "Stopped") => m_hThread = {}
  /\ op \in {"Pause", "Run"} =>
       \A p \in m_hThread : p < c \/ (p = c /\ step \in {"send", "await"})
  /\ op = "Stop" => \A p \in m_hThread : p >= c

(* The loop goes on: no thread is left behind by Stop.                     *)
LEMMA NextPinQuiet ==
  ASSUME TypeOK, StreamInv, QuietInv, NextPin, op \in {"Pause", "Run", "Stop", "Destroy"},
         m_hThread' \subseteq m_hThread, op = "Stop" => c \notin m_hThread', UNCHANGED m_Connected
  PROVE  QuietInv'
<1>1. c \in 1..NPins /\ m_Connected \subseteq 1..NPins
  BY DEF TypeOK, AppTypeOK, PinTypeOK, Pins
<1> QED
  BY <1>1, SizesArePositive DEF QuietInv, NextPin, LastPin, Target, StreamInv, StepInv

LEMMA AppCallQuiet == ASSUME TypeOK, StreamInv, QuietInv, AppCall PROVE QuietInv'
<1>1. m_hThread' = m_hThread /\ Idle /\ m_Connected \subseteq 1..NPins
  BY DEF AppCall, Pause, Run, Stop, Destroy, PinCall, Begin, SetState, TypeOK, PinTypeOK, Pins
<1> USE DEF QuietInv, Idle
<1>2. CASE Pause
  BY <1>1, <1>2 DEF Pause, Begin, SetState
<1>3. CASE Run
  BY <1>1, <1>3 DEF Run, Begin, SetState
<1>4. CASE Stop
  BY <1>1, <1>4 DEF Stop, Begin
<1>5. CASE Destroy
  BY <1>1, <1>5 DEF Destroy
<1>6. CASE \E p \in Pins, com \in PinCalls : PinCall(p, com)
  BY <1>1, <1>6 DEF PinCall
<1> QED
  BY <1>2, <1>3, <1>4, <1>5, <1>6 DEF AppCall

LEMMA AppStepQuiet ==
  ASSUME StartsAllOrNothing, TypeOK, StreamInv, QuietInv, AppStep PROVE QuietInv'
<1>1. /\ c \in 1..NPins /\ m_Connected \subseteq 1..NPins
  BY DEF TypeOK, AppTypeOK, PinTypeOK, Pins
<1> USE DEF poolState
<1>2. CASE SkipPin
  <2>1. op \in {"Pause", "Run", "Stop"} /\ c \notin m_hThread
    BY <1>2 DEF SkipPin, StreamInv, StepInv, QuietInv
  <2> QED
    BY <1>2, <2>1, NextPinQuiet DEF SkipPin
<1>3. CASE ActiveCommit
  <2>1. op \in {"Pause", "Run"} /\ m_State = "Stopped"
    BY <1>3 DEF ActiveCommit, StreamInv, StepInv
  <2>2. CASE ReturnFailure
    BY <1>1, <1>3, <2>1, <2>2 DEF ActiveCommit, ReturnFailure, CallDone, QuietInv,
       StartsAllOrNothing
  <2>3. CASE step' = "create" /\ UNCHANGED <<op, c, m_State>>
    BY <1>3, <2>1, <2>3 DEF ActiveCommit, QuietInv
  <2> QED
    BY <1>3, <2>2, <2>3 DEF ActiveCommit
<1>4. CASE ActiveCreate
  <2>1. op \in {"Pause", "Run"} /\ m_State = "Stopped" /\ c \notin m_hThread /\ c \in m_Connected
    BY <1>1, <1>4 DEF ActiveCreate, StreamInv, StepInv, StartInv, QuietInv
  <2>2. CASE ReturnFailure /\ UNCHANGED m_hThread
    <3>1. NPins = 1
      <4>1. m_hThread' = m_hThread
        BY <2>2
      <4>2. "create" \in Faults
        BY <1>4, <2>1, <4>1 DEF ActiveCreate
      <4> QED
        BY <4>2 DEF StartsAllOrNothing
    <3>2. m_hThread = {}
      BY <1>1, <1>4, <2>1, <3>1 DEF ActiveCreate, QuietInv
    <3> QED
      BY <1>4, <2>2, <3>2 DEF ActiveCreate, ReturnFailure, CallDone, QuietInv
  <2>3. CASE step' = "send" /\ m_hThread' = m_hThread \union {c} /\ UNCHANGED <<op, c, m_State>>
    BY <1>4, <2>1, <2>3 DEF ActiveCreate, QuietInv
  <2> QED
    BY <1>4, <2>2, <2>3 DEF ActiveCreate
<1>5. CASE InactiveDecommit
  <2>1. op = "Stop"
    BY <1>5 DEF InactiveDecommit, StreamInv, StepInv
  <2>2. CASE c \in m_hThread
    BY <1>5, <2>1, <2>2 DEF InactiveDecommit, DecommitThenStop, QuietInv
  <2>3. CASE c \notin m_hThread
    BY <1>5, <2>1, <2>3, NextPinQuiet DEF InactiveDecommit, DecommitThenStop
  <2> QED
    BY <2>2, <2>3
<1>6. CASE Close
  <2>1. op \in {"Stop", "Destroy"}
    BY <1>6 DEF Close, StreamInv, StepInv
  <2> QED
    BY <1>6, <2>1, NextPinQuiet DEF Close
<1>7. CASE Send
  BY <1>7 DEF Send, QuietInv
<1>8. CASE Answered
  <2>1. /\ step = "await" /\ AfterAnswer(callCommand[c], callAnswer[c])
        /\ UNCHANGED <<m_Connected, m_hThread>>
    BY <1>8 DEF Answered
  <2>2. CASE op = "PinCall"
    BY <2>1, <2>2 DEF AfterAnswer, CallDone, QuietInv, StreamInv, StepInv
  <2>3. CASE op \in {"Pause", "Run"}
    <3>1. callAnswer[c] = "NOERROR" /\ callCommand[c] \in {"CMD_INIT", "CMD_PAUSE"}
      BY <1>8, <2>1, <2>3 DEF StreamInv, StartInv, Waits, StartsAllOrNothing, Answered
    <3>2. CASE callCommand[c] = "CMD_INIT"
      BY <2>1, <2>3, <3>1, <3>2 DEF AfterAnswer, QuietInv
    <3>3. CASE callCommand[c] = "CMD_PAUSE"
      <4>1. NextPin
        BY <2>1, <2>3, <3>1, <3>3 DEF AfterAnswer
      <4> QED
        BY <2>1, <2>3, <4>1, NextPinQuiet
    <3> QED
      BY <3>1, <3>2, <3>3
  <2>4. CASE op = "Stop"
    <3>1. callAnswer[c] = "NOERROR" /\ callCommand[c] \in {"CMD_STOP", "CMD_EXIT"}
      BY <1>8, <2>1, <2>4 DEF StreamInv, StopInv, Waits, Answered
    <3>2. UNCHANGED <<op, c, m_State>>
      BY <2>1, <2>4, <3>1 DEF AfterAnswer
    <3> QED
      BY <2>1, <2>4, <3>2 DEF QuietInv
  <2> QED
    BY <2>1, <2>2, <2>3, <2>4 DEF StreamInv, StepInv
<1> QED
  BY <1>2, <1>3, <1>4, <1>5, <1>6, <1>7, <1>8 DEF AppStep

LEMMA QuietInvariance == ASSUME StartsAllOrNothing PROVE Spec => []QuietInv
<1>1. Init => QuietInv
  BY DEF Init, QuietInv
<1>2. TypeOK /\ StreamInv /\ QuietInv /\ [Next]_vars => QuietInv'
  <2> SUFFICES ASSUME TypeOK, StreamInv, QuietInv, [Next]_vars PROVE QuietInv'
    OBVIOUS
  <2>1. CASE UNCHANGED <<appState, m_Connected, m_hThread>>
    BY <2>1 DEF appState, QuietInv
  <2>2. ASSUME NEW p \in Pins, WorkerStep(p) \/ DownstreamRelease(p) PROVE QuietInv'
    BY <2>1, <2>2, WorkerEffect
  <2> QED
    BY <2>1, <2>2, AppCallQuiet, AppStepQuiet DEF Next, Terminated, vars
<1> QED
  BY <1>1, <1>2, StreamInvariance, PTL DEF Spec

(* Once Stop has returned there is no worker thread, whatever it was doing *)
(* when Stop came and whatever was sent to it, and no thread handle is     *)
(* closed before the thread has been told to exit: for a filter whose      *)
(* start fails before any thread exists or not at all.  Without that the   *)
(* worker of a pin outlives a Pause that failed at the next one.           *)
THEOREM StopIsQuiet == StartsAllOrNothing => (Spec => [](StoppedIsQuiet /\ ToldToExit))
<1> SUFFICES ASSUME StartsAllOrNothing PROVE Spec => [](StoppedIsQuiet /\ ToldToExit)
  OBVIOUS
<1>1. StreamInv /\ QuietInv => StoppedIsQuiet /\ ToldToExit
  BY DEF StreamInv, StepInv, StopInv, QuietInv, StoppedIsQuiet, ToldToExit, Idle
<1> QED
  BY <1>1, StreamInvariance, QuietInvariance, PTL

(* The application changes the state of the filter in calls, and delivers  *)
(* nothing.                                                                *)
LEMMA AppStepMaps ==
  ASSUME TypeOK, TypeOK', StreamInv, AppCall \/ AppStep
  PROVE  Source!ChangeState \/ UNCHANGED Source!sourceVars
<1> DEFINE state == IF op = "none" THEN m_State ELSE "Changing"
<1>1. received' = received
  BY DEF AppCall, Pause, Run, Stop, Destroy, PinCall, Begin, SetState, AppStep, SkipPin,
     ActiveCommit, ActiveCreate, InactiveDecommit, Close, Send, Answered, workState, frames
<1>2. CASE op = "none"
  <2>1. op' # "none" \/ (op' = "none" /\ {m_State, m_State'} \subseteq {"Paused", "Running"})
    <3>1. AppCall
      BY <1>2 DEF StreamInv, StepInv, AppStep, SkipPin, ActiveCommit, ActiveCreate,
         InactiveDecommit, Close, Send, Answered
    <3> QED
      BY <1>2, <3>1 DEF AppCall, Pause, Run, Stop, Destroy, PinCall, Begin, SetState, TypeOK,
         AppTypeOK
  <2>2. CASE op' # "none"
    <3>1. state = m_State /\ state' = "Changing" /\ m_State \in {"Stopped", "Paused", "Running"}
      BY <1>2, <2>2 DEF TypeOK, AppTypeOK
    <3> QED
      BY <1>1, <3>1 DEF Source!ChangeState
  <2>3. CASE op' = "none" /\ {m_State, m_State'} \subseteq {"Paused", "Running"}
    <3>1. state = m_State /\ state' = m_State'
      BY <1>2, <2>3
    <3>2. state' = state \/ {state, state'} = {"Paused", "Running"}
      BY <2>3, <3>1
    <3> QED
      BY <1>1, <2>3, <3>1, <3>2 DEF Source!ChangeState, Source!sourceVars
  <2> QED
    BY <2>1, <2>2, <2>3
<1>3. CASE op # "none"
  <2>1. state = "Changing" /\ state' \in {"Stopped", "Paused", "Running", "Changing"}
    BY <1>3 DEF TypeOK, AppTypeOK
  <2> QED
    BY <1>1, <2>1 DEF Source!ChangeState, Source!sourceVars
<1> QED
  BY <1>2, <1>3

(* A worker delivers the next frame, and none when the filter is stopped.  *)
LEMMA WorkerStepMaps ==
  ASSUME TypeOK, PoolInv, QuietInv, NEW p \in Pins, WorkerStep(p) \/ DownstreamRelease(p)
  PROVE  Source!DeliverFrame(p) \/ UNCHANGED Source!sourceVars
<1>1. op' = op /\ m_State' = m_State
  BY WorkerEffect DEF appState
<1>2. CASE Deliver(p)
  <2>1. worker[p] = "deliver" /\ received' = [received EXCEPT ![p] = pSample[p]]
    BY <1>2 DEF Deliver
  <2>2. pSample[p] = (received[p] + 1) % CountMod
    BY <2>1 DEF PoolInv, FrameInv
  <2>3. (IF op = "none" THEN m_State ELSE "Changing") # "Stopped"
    BY <2>1 DEF PoolInv, HandleInv, QuietInv
  <2> QED
    BY <1>1, <2>1, <2>2, <2>3 DEF Source!DeliverFrame
<1>3. CASE ~Deliver(p)
  <2>1. received' = received
    BY <1>3 DEF WorkerStep, DownstreamRelease, ExpectInit, GetRequest, ExitThread, CheckRequest,
       GetBuffer, FillBuffer, DeliverEndOfStream, workState, frames
  <2> QED
    BY <1>1, <2>1 DEF Source!sourceVars
<1> QED
  BY <1>2, <1>3

(* Such a filter implements FrameSource: downstream gets the frames of     *)
(* each pin in order, and none while the filter is stopped.                *)
THEOREM SourceIsFrameSource == StartsAllOrNothing => (Spec => ImplementsFrameSource)
<1> SUFFICES ASSUME StartsAllOrNothing PROVE Spec => ImplementsFrameSource
  OBVIOUS
<1>1. Init => Source!Init
  BY DEF Init, Source!Init
<1>2. TypeOK /\ TypeOK' /\ PoolInv /\ StreamInv /\ QuietInv /\ [Next]_vars
        => [Source!Next]_(Source!sourceVars)
  <2> SUFFICES ASSUME TypeOK, TypeOK', PoolInv, StreamInv, QuietInv, [Next]_vars
               PROVE  Source!Next \/ UNCHANGED Source!sourceVars
    OBVIOUS
  <2>1. CASE UNCHANGED vars
    BY <2>1 DEF vars, appState, workState, frames, Source!sourceVars
  <2> QED
    BY <2>1, AppStepMaps, WorkerStepMaps DEF Next, Terminated, Source!Next
<1> QED
  BY <1>1, <1>2, TypeCorrect, PoolInvariance, StreamInvariance, QuietInvariance, PTL
     DEF Spec, Source!Spec, ImplementsFrameSource
=============================================================================
