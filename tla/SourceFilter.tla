---------------------------- MODULE SourceFilter ----------------------------
(***************************************************************************)
(* A push source: CBaseFilter's Pause, Run and Stop                        *)
(* (src/SDK/BaseClasses/amfilter.cpp) driving the CSourceStream pins of a  *)
(* CSource (source.cpp), whose worker threads fill samples and deliver     *)
(* them downstream.  CMySourceFilter is the instance with one pin and one  *)
(* buffer (src/FilterSln/SourceFilter/MyOutputPin.cpp).                    *)
(*                                                                         *)
(* The filter's state lock is held through every call of the application,  *)
(* so one application thread stands for all of them.  CallWorker is the    *)
(* synchronous call that AMThread is shown to implement (SyncCall), and    *)
(* the allocator a count of free samples that can be committed or not, as  *)
(* MemAllocator is shown to behave (BufferPool).  The downstream filter is *)
(* external: it may keep samples, and its Receive may take any time and    *)
(* give any result.                                                        *)
(***************************************************************************)
EXTENDS Integers, FiniteSets

CONSTANTS NPins,         \* pins of the filter
          NBuffers,      \* samples of each pin's allocator
          FillResults,   \* what the FillBuffer of the derived class returns
          Faults,        \* which of "commit", "create", "init" may fail
          PinCalls,      \* commands the derived filter sends to its pins itself
          CountMod       \* bound: frames are counted modulo this

ASSUME SizesArePositive == NPins \in Nat \ {0} /\ NBuffers \in Nat \ {0}
ASSUME ResultsAreKnown == FillResults \subseteq {"S_OK", "S_FALSE", "E_FAIL"}
ASSUME FaultsAreKnown == Faults \subseteq {"commit", "create", "init"}
ASSUME PinCallsAreKnown == PinCalls \subseteq {"CMD_INIT", "CMD_PAUSE", "CMD_RUN", "CMD_STOP"}
ASSUME CountModPositive == CountMod \in Nat \ {0}

Pins == 1..NPins

Commands == {"CMD_INIT", "CMD_PAUSE", "CMD_RUN", "CMD_STOP", "CMD_EXIT"}
NoCommand == "none"
Results == {"NOERROR", "E_FAIL", "E_UNEXPECTED", "E_NOTIMPL"}

VARIABLES
  \* the application thread inside the filter
  m_State,      \* State_Stopped, State_Paused or State_Running
  op,           \* the call it is in, "none" if in no call
  c,            \* the pin the call is at
  step,         \* what it does there
  toSend,       \* command it is about to send
  \* the pins
  m_Connected,  \* connected pins
  m_bCommitted, \* pins whose allocator is committed
  free,         \* samples on the free list of the allocator
  kept,         \* samples the downstream filter holds on to
  m_hThread,    \* pins that have a thread handle
  callPhase, callCommand, callAnswer,   \* the CallWorker in progress
  worker,       \* where the worker thread is
  m_nCount,     \* number of the next frame (CMyOutputPin)
  pSample,      \* number of the frame in the worker's sample, -1 if it has none
  received      \* last frame the downstream filter received, -1 before the first

appState == <<m_State, op, c, step, toSend>>
callState == <<callPhase, callCommand, callAnswer>>
poolState == <<m_bCommitted, free, kept>>
frames == <<m_nCount, pSample, received>>
workState == <<worker, frames>>
vars == <<appState, m_Connected, poolState, m_hThread, callState, workState>>

Init ==
  /\ m_State = "Stopped" /\ op = "none" /\ c = 1 /\ step = "idle"
  /\ toSend = NoCommand
  /\ m_Connected \in SUBSET Pins
  /\ m_bCommitted = {}
  /\ free = [p \in Pins |-> NBuffers] /\ kept = [p \in Pins |-> 0]
  /\ m_hThread = {}
  /\ callPhase = [p \in Pins |-> "none"]
  /\ callCommand = [p \in Pins |-> NoCommand]
  /\ callAnswer = [p \in Pins |-> NoCommand]
  /\ worker = [p \in Pins |-> "none"]
  /\ m_nCount = [p \in Pins |-> 0]
  /\ pSample = [p \in Pins |-> -1]
  /\ received = [p \in Pins |-> -1]

(***************************************************************************)
(* CBaseFilter::Pause, Run and Stop: the loop over the pins                *)
(***************************************************************************)

Idle == op = "none" /\ step = "idle"

(* Start the loop over the connected pins.                                 *)
Begin(call, first) ==
  /\ Idle
  /\ op' = call /\ c' = 1 /\ step' = first
  /\ UNCHANGED <<m_State, toSend, m_Connected, poolState, m_hThread,
                 callState, workState>>

(* A call that has no loop to do: it sets the state and returns.           *)
SetState(state) ==
  /\ Idle
  /\ m_State' = state
  /\ UNCHANGED <<op, c, step, toSend, m_Connected, poolState, m_hThread,
                 callState, workState>>

Pause == IF m_State = "Stopped" THEN Begin("Pause", "commit") ELSE SetState("Paused")

(* CBasePin::Run does nothing, so after Pause only the state is set.       *)
Run == IF m_State = "Stopped" THEN Begin("Run", "commit") ELSE SetState("Running")

Stop == m_State # "Stopped" /\ Begin("Stop", "decommit")

(* State the call ends in when it succeeds.                                *)
Target == CASE op = "Pause" -> "Paused" [] op = "Run" -> "Running"
            [] OTHER -> "Stopped"

FirstStep == CASE op \in {"Pause", "Run"} -> "commit"
               [] op = "Stop" -> "decommit"
               [] OTHER -> "close"

(* The destructor deletes the pins from the last to the first.             *)
LastPin == IF op = "Destroy" THEN 1 ELSE NPins

(* The step is done with pin c: on to the next pin, or out of the call.    *)
NextPin ==
  IF c = LastPin
  THEN /\ step' = "idle" /\ m_State' = Target
       /\ op' = IF op = "Destroy" THEN "destroyed" ELSE "none"
       /\ UNCHANGED c
  ELSE /\ c' = IF op = "Destroy" THEN c - 1 ELSE c + 1
       /\ step' = FirstStep
       /\ UNCHANGED <<op, m_State>>

(* A call returns without having changed the state.                        *)
CallDone == step' = "idle" /\ op' = "none" /\ UNCHANGED <<c, m_State>>

(* Mutant: go on in spite of the failure, as Stop does.                    *)
IgnoreFailure == NextPin

(* if (FAILED(hr)) return hr: the state stays what it was.                 *)
ReturnFailure == CallDone

(* Disconnected pins are left alone.                                       *)
SkipPin ==
  /\ step \in {"commit", "decommit"} /\ c \notin m_Connected
  /\ NextPin
  /\ UNCHANGED <<toSend, m_Connected, poolState, m_hThread, callState, workState>>

(***************************************************************************)
(* CSourceStream::Active                                                   *)
(***************************************************************************)

(* CBaseOutputPin::Active: commit the allocator.                           *)
ActiveCommit ==
  /\ step = "commit" /\ c \in m_Connected
  /\ \/ /\ m_bCommitted' = m_bCommitted \union {c}
        /\ step' = "create"
        /\ UNCHANGED <<op, c, m_State>>
     \/ /\ "commit" \in Faults /\ c \notin m_bCommitted /\ kept[c] = 0
        /\ ReturnFailure
        /\ UNCHANGED m_bCommitted
  /\ UNCHANGED <<toSend, m_Connected, free, kept, m_hThread, callState, workState>>

(* Create: fails if there is a thread already, or CreateThread does.       *)
ActiveCreate ==
  /\ step = "create"
  /\ \/ /\ c \notin m_hThread
        /\ m_hThread' = m_hThread \union {c}
        /\ worker' = [worker EXCEPT ![c] = "expectInit"]
        /\ step' = "send" /\ toSend' = "CMD_INIT"
        /\ UNCHANGED <<op, c, m_State>>
     \/ /\ c \in m_hThread \/ "create" \in Faults
        /\ ReturnFailure
        /\ UNCHANGED <<m_hThread, worker, toSend>>
  /\ UNCHANGED <<m_Connected, poolState, callState, frames>>

(***************************************************************************)
(* CSourceStream::Inactive                                                 *)
(***************************************************************************)

(* Mutant: the commented-out order, Decommit after the thread has gone.    *)
StopBeforeDecommit ==
  /\ IF c \in m_hThread THEN step' = "send" /\ toSend' = "CMD_STOP" /\ UNCHANGED <<op, c, m_State>>
                        ELSE NextPin /\ UNCHANGED toSend
  /\ UNCHANGED m_bCommitted

(* Decommit first: the worker may be waiting for our own allocator.        *)
DecommitThenStop ==
  /\ m_bCommitted' = m_bCommitted \ {c}
  /\ IF c \in m_hThread
     THEN step' = "send" /\ toSend' = "CMD_STOP" /\ UNCHANGED <<op, c, m_State>>
     ELSE NextPin /\ UNCHANGED toSend

InactiveDecommit ==
  /\ step = "decommit" /\ c \in m_Connected
  /\ DecommitThenStop
  /\ UNCHANGED <<m_Connected, free, kept, m_hThread, callState, workState>>

(* Close: wait for the worker to exit.                                     *)
Close ==
  /\ step = "close"
  /\ c \in m_hThread => worker[c] = "exited"
  /\ m_hThread' = m_hThread \ {c}
  /\ worker' = [worker EXCEPT ![c] = "none"]
  /\ NextPin
  /\ UNCHANGED <<toSend, m_Connected, poolState, callState, frames>>

(***************************************************************************)
(* CallWorker                                                              *)
(***************************************************************************)

Send ==
  /\ step = "send" /\ callPhase[c] = "none"
  /\ callPhase' = [callPhase EXCEPT ![c] = "asked"]
  /\ callCommand' = [callCommand EXCEPT ![c] = toSend]
  /\ step' = "await" /\ toSend' = NoCommand
  /\ UNCHANGED <<m_State, op, c, m_Connected, poolState, m_hThread, callAnswer,
                 workState>>

(* CSourceStream's Init, Pause, Run and Stop are public: a derived filter  *)
(* may use them on the pins of a filter that is active.                    *)
PinCall(p, com) ==
  /\ Idle /\ m_State # "Stopped" /\ p \in m_hThread
  /\ op' = "PinCall" /\ c' = p /\ step' = "send" /\ toSend' = com
  /\ UNCHANGED <<m_State, m_Connected, poolState, m_hThread, callState, workState>>

(* What Active and Inactive do with the answer.                            *)
AfterAnswer(com, hr) ==
  IF op = "PinCall" THEN CallDone /\ UNCHANGED toSend
  ELSE CASE com = "CMD_INIT" /\ hr = "NOERROR" ->
              step' = "send" /\ toSend' = "CMD_PAUSE" /\ UNCHANGED <<op, c, m_State>>
         [] com = "CMD_STOP" /\ hr = "NOERROR" ->
              step' = "send" /\ toSend' = "CMD_EXIT" /\ UNCHANGED <<op, c, m_State>>
         [] com = "CMD_EXIT" /\ hr = "NOERROR" ->
              step' = "close" /\ UNCHANGED <<toSend, op, c, m_State>>
         [] com \in {"CMD_INIT", "CMD_PAUSE"} /\ hr # "NOERROR" ->
              ReturnFailure /\ UNCHANGED toSend
         [] OTHER -> NextPin /\ UNCHANGED toSend

Answered ==
  /\ step = "await" /\ callPhase[c] = "answered"
  /\ callPhase' = [callPhase EXCEPT ![c] = "none"]
  /\ callCommand' = [callCommand EXCEPT ![c] = NoCommand]
  /\ callAnswer' = [callAnswer EXCEPT ![c] = NoCommand]
  /\ AfterAnswer(callCommand[c], callAnswer[c])
  /\ UNCHANGED <<m_Connected, poolState, m_hThread, workState>>

(***************************************************************************)
(* ~CSource                                                                *)
(***************************************************************************)

(* The last reference to a filter goes when it is stopped and its pins are *)
(* disconnected; deleting a pin runs ~CAMThread, which only calls Close.   *)
Destroy ==
  /\ Idle /\ m_State = "Stopped"
  /\ m_Connected' = {} /\ m_bCommitted' = {}
  /\ op' = "Destroy" /\ c' = NPins /\ step' = "close"
  /\ UNCHANGED <<m_State, toSend, free, kept, m_hThread, callState, workState>>

(***************************************************************************)
(* CSourceStream::ThreadProc                                               *)
(***************************************************************************)

WorkerGoTo(p, label) == worker' = [worker EXCEPT ![p] = label]
workerFrame == <<appState, m_Connected, m_hThread, callCommand>>

(* GetRequest or CheckRequest finds a command.                             *)
Asked(p, com) == callPhase[p] = "asked" /\ callCommand[p] = com

Reply(p, hr) == /\ callPhase' = [callPhase EXCEPT ![p] = "answered"]
                /\ callAnswer' = [callAnswer EXCEPT ![p] = hr]

(* The first loop of ThreadProc: only CMD_INIT gets past it, and only if   *)
(* OnThreadCreate succeeds.                                                *)
ExpectInit(p) ==
  /\ worker[p] = "expectInit" /\ callPhase[p] = "asked"
  /\ \/ /\ Asked(p, "CMD_INIT")
        /\ Reply(p, "NOERROR") /\ WorkerGoTo(p, "getRequest")
     \/ /\ Asked(p, "CMD_INIT") /\ "init" \in Faults
        /\ Reply(p, "E_FAIL") /\ WorkerGoTo(p, "exited")
     \/ /\ ~Asked(p, "CMD_INIT")
        /\ Reply(p, "E_UNEXPECTED") /\ UNCHANGED worker
  /\ UNCHANGED <<workerFrame, poolState, frames>>

(* Its second loop.                                                        *)
GetRequest(p) ==
  /\ worker[p] = "getRequest" /\ callPhase[p] = "asked"
  /\ \/ /\ Asked(p, "CMD_EXIT")
        /\ Reply(p, "NOERROR") /\ WorkerGoTo(p, "exiting")
     \/ /\ Asked(p, "CMD_RUN") \/ Asked(p, "CMD_PAUSE")
        /\ Reply(p, "NOERROR") /\ WorkerGoTo(p, "checkRequest")
     \/ /\ Asked(p, "CMD_STOP")
        /\ Reply(p, "NOERROR") /\ UNCHANGED worker
     \/ /\ Asked(p, "CMD_INIT")
        /\ Reply(p, "E_NOTIMPL") /\ UNCHANGED worker
  /\ UNCHANGED <<workerFrame, poolState, frames>>

(* OnThreadDestroy, and ThreadProc returns.                                *)
ExitThread(p) ==
  /\ worker[p] = "exiting"
  /\ WorkerGoTo(p, "exited")
  /\ UNCHANGED <<workerFrame, callPhase, callAnswer, poolState, frames>>

(***************************************************************************)
(* CSourceStream::DoBufferProcessingLoop                                   *)
(***************************************************************************)

(* Mutant: only a command that is not expected gets a reply here.          *)
ReplyToUnexpected(p, com) ==
  IF com \in {"CMD_RUN", "CMD_PAUSE", "CMD_STOP"} THEN UNCHANGED <<callPhase, callAnswer>>
                                                  ELSE Reply(p, "E_UNEXPECTED")

(* Mutant: CMD_STOP is among the commands not expected here.               *)
StopUnexpected(p, com) ==
  Reply(p, IF com \in {"CMD_RUN", "CMD_PAUSE"} THEN "NOERROR" ELSE "E_UNEXPECTED")

(* All commands seen here are replied to, except CMD_STOP, which ends the  *)
(* loop and is left to ThreadProc.                                         *)
ReplyInLoop(p, com) ==
  CASE com \in {"CMD_RUN", "CMD_PAUSE"} -> Reply(p, "NOERROR")
    [] com = "CMD_STOP" -> UNCHANGED <<callPhase, callAnswer>>
    [] OTHER -> Reply(p, "E_UNEXPECTED")

CheckRequest(p) ==
  /\ worker[p] = "checkRequest"
  /\ IF callPhase[p] = "asked"
     THEN /\ ReplyInLoop(p, callCommand[p])
          /\ WorkerGoTo(p, IF Asked(p, "CMD_STOP") THEN "getRequest" ELSE "checkRequest")
     ELSE WorkerGoTo(p, "getBuffer") /\ UNCHANGED <<callPhase, callAnswer>>
  /\ UNCHANGED <<workerFrame, poolState, frames>>

loopFrame == <<workerFrame, callPhase, callAnswer, m_bCommitted>>

(* Mutant: a frame is counted in every round, with or without a sample.    *)
GetBufferCounting(p) ==
  /\ worker[p] = "getBuffer"
  /\ IF p \in m_bCommitted
     THEN /\ free[p] > 0
          /\ free' = [free EXCEPT ![p] = @ - 1]
          /\ WorkerGoTo(p, "fillBuffer")
          /\ UNCHANGED m_nCount
     ELSE /\ WorkerGoTo(p, "checkRequest") /\ UNCHANGED free
          /\ m_nCount' = [m_nCount EXCEPT ![p] = (@ + 1) % CountMod]
  /\ UNCHANGED <<loopFrame, kept, pSample, received>>

(* GetDeliveryBuffer: a sample, or an error (no allocator, or decommitted) *)
(* and another round; it blocks while the allocator is committed and empty.*)
GetBuffer(p) ==
  /\ worker[p] = "getBuffer"
  /\ IF p \in m_bCommitted
     THEN /\ free[p] > 0
          /\ free' = [free EXCEPT ![p] = @ - 1]
          /\ WorkerGoTo(p, "fillBuffer")
     ELSE WorkerGoTo(p, "checkRequest") /\ UNCHANGED free
  /\ UNCHANGED <<loopFrame, kept, frames>>

(* CMyOutputPin: the sample gets picture and times of frame m_nCount.      *)
FillFrame(p) == /\ pSample' = [pSample EXCEPT ![p] = m_nCount[p]]
                /\ m_nCount' = [m_nCount EXCEPT ![p] = (@ + 1) % CountMod]

(* pSample->Release()                                                      *)
ReleaseSample(p) == free' = [free EXCEPT ![p] = @ + 1] /\ pSample' = [pSample EXCEPT ![p] = -1]

FillBuffer(p) ==
  /\ worker[p] = "fillBuffer"
  /\ \/ /\ "S_OK" \in FillResults
        /\ FillFrame(p)
        /\ WorkerGoTo(p, "deliver")
        /\ UNCHANGED free
     \/ /\ FillResults \ {"S_OK"} # {}
        /\ ReleaseSample(p)
        /\ WorkerGoTo(p, "deliverEos")
        /\ UNCHANGED m_nCount
  /\ UNCHANGED <<loopFrame, kept, received>>

(* DeliverEndOfStream, and NotifyEvent(EC_ERRORABORT) after an error.      *)
DeliverEndOfStream(p) ==
  /\ worker[p] = "deliverEos"
  /\ WorkerGoTo(p, "getRequest")
  /\ UNCHANGED <<loopFrame, free, kept, frames>>

(* Mutant: the sample goes back to the pool although downstream has it.    *)
ReleaseShared(p, hr, keeps) ==
  /\ free' = [free EXCEPT ![p] = @ + 1]
  /\ kept' = IF keeps THEN [kept EXCEPT ![p] = @ + 1] ELSE kept
  /\ pSample' = [pSample EXCEPT ![p] = -1]

(* Mutant: return before the release when Deliver says stop.               *)
ReleaseUnlessStopping(p, hr, keeps) ==
  /\ free' = IF keeps \/ hr # "S_OK" THEN free ELSE [free EXCEPT ![p] = @ + 1]
  /\ kept' = IF keeps THEN [kept EXCEPT ![p] = @ + 1] ELSE kept
  /\ pSample' = [pSample EXCEPT ![p] = -1]

(* Release is the worker's reference; downstream may have added its own.   *)
ReleaseDelivered(p, hr, keeps) ==
  /\ free' = IF keeps THEN free ELSE [free EXCEPT ![p] = @ + 1]
  /\ kept' = IF keeps THEN [kept EXCEPT ![p] = @ + 1] ELSE kept
  /\ pSample' = [pSample EXCEPT ![p] = -1]

(* Deliver returns and the sample is released.  Anything but S_OK ends the *)
(* loop, until the next CMD_PAUSE or CMD_RUN.                              *)
Deliver(p) ==
  /\ worker[p] = "deliver"
  /\ \E hr \in {"S_OK", "S_FALSE or error"}, keeps \in BOOLEAN :
       /\ ReleaseDelivered(p, hr, keeps)
       /\ WorkerGoTo(p, IF hr = "S_OK" THEN "checkRequest" ELSE "getRequest")
  /\ received' = [received EXCEPT ![p] = pSample[p]]
  /\ UNCHANGED <<loopFrame, m_nCount>>

(* External: the downstream filter lets go of a sample it kept.            *)
DownstreamRelease(p) ==
  /\ kept[p] > 0
  /\ kept' = [kept EXCEPT ![p] = @ - 1]
  /\ free' = [free EXCEPT ![p] = @ + 1]
  /\ UNCHANGED <<appState, m_Connected, m_bCommitted, m_hThread, callState, workState>>

(***************************************************************************)
(* Specification                                                           *)
(***************************************************************************)

AppCall == \/ Pause \/ Run \/ Stop \/ Destroy
           \/ \E p \in Pins, com \in PinCalls : PinCall(p, com)

(* The application thread goes on inside the filter.                       *)
AppStep == \/ SkipPin \/ ActiveCommit \/ ActiveCreate
           \/ InactiveDecommit \/ Close \/ Send \/ Answered

WorkerStep(p) == \/ ExpectInit(p) \/ GetRequest(p) \/ ExitThread(p)
                 \/ CheckRequest(p) \/ GetBuffer(p) \/ FillBuffer(p)
                 \/ DeliverEndOfStream(p) \/ Deliver(p)

(* The filter is gone.                                                     *)
Terminated == op = "destroyed" /\ UNCHANGED vars

Next == \/ AppCall \/ AppStep \/ Terminated
        \/ \E p \in Pins : WorkerStep(p) \/ DownstreamRelease(p)

Spec == Init /\ [][Next]_vars

(* Threads run, and a downstream Receive returns in the end; but nobody    *)
(* promises that downstream gives back what it kept.                       *)
Fairness == WF_vars(AppStep) /\ \A p \in Pins : WF_vars(WorkerStep(p))

FairSpec == Spec /\ Fairness

(* A command that comes without a Decommit may find the worker waiting for *)
(* a sample; then downstream has to give one back.                         *)
GivingBackSpec == FairSpec /\ \A p \in Pins : WF_vars(DownstreamRelease(p))

(***************************************************************************)
(* Properties                                                              *)
(***************************************************************************)

AppTypeOK ==
  /\ m_State \in {"Stopped", "Paused", "Running"}
  /\ op \in {"none", "Pause", "Run", "Stop", "PinCall", "Destroy", "destroyed"}
  /\ c \in Pins
  /\ step \in {"idle", "commit", "create", "decommit", "send", "await", "close"}
  /\ toSend \in Commands \union {NoCommand}
PinTypeOK ==
  /\ m_Connected \subseteq Pins /\ m_bCommitted \subseteq Pins /\ m_hThread \subseteq Pins
  /\ free \in [Pins -> 0..NBuffers] /\ kept \in [Pins -> 0..NBuffers]
  /\ m_nCount \in [Pins -> 0..CountMod - 1]
  /\ pSample \in [Pins -> -1..CountMod - 1]
  /\ received \in [Pins -> -1..CountMod - 1]
CallTypeOK ==
  /\ callPhase \in [Pins -> {"none", "asked", "answered"}]
  /\ callCommand \in [Pins -> Commands \union {NoCommand}]
  /\ callAnswer \in [Pins -> Results \union {NoCommand}]
  /\ worker \in [Pins -> {"none", "expectInit", "getRequest", "checkRequest",
                          "getBuffer", "fillBuffer", "deliver", "deliverEos",
                          "exiting", "exited"}]
TypeOK == AppTypeOK /\ PinTypeOK /\ CallTypeOK

HasSample(p) == worker[p] \in {"fillBuffer", "deliver"}

(* "all paths release the sample" (source.cpp): whichever way the loop is  *)
(* left, the worker takes no sample with it.                               *)
AllPathsReleaseTheSample ==
  \A p \in Pins : free[p] + kept[p] + (IF HasSample(p) THEN 1 ELSE 0) = NBuffers

(* A filter that is stopped has no worker threads; so nothing is delivered *)
(* once Stop has returned, whatever the worker was doing when it came.     *)
StoppedIsQuiet == Idle /\ m_State = "Stopped" => m_hThread = {}

(* A filter that is not stopped has a worker that passed CMD_INIT and a    *)
(* committed allocator on each connected pin, however often it was started.*)
ActiveStreams ==
  Idle /\ m_State # "Stopped" =>
    \A p \in m_Connected :
      /\ p \in m_hThread /\ p \in m_bCommitted
      /\ worker[p] \notin {"none", "expectInit", "exiting", "exited"}

(* The comment on CAMThread::Close: the accessor thread calls it when done *)
(* with the thread, "having told thread to exit".                          *)
ToldToExit == step = "close" /\ c \in m_hThread => worker[c] \in {"exiting", "exited"}

(* "ASSERT(!ThreadExists());" before Active creates the thread             *)
(* (source.cpp 317), also after a Pause that failed on a later pin.        *)
CreatesWithoutThread == step = "create" => c \notin m_hThread

(* Pause, Run, Stop and the destructor return: the worker is never waited  *)
(* for while it waits for a sample that only downstream could give back.   *)
CallsReturn == (step # "idle") ~> (step = "idle")

(* The same, without the destructor.                                       *)
FilterCallsReturn == (step # "idle" /\ op # "Destroy") ~> (step = "idle")

(* Downstream receives every frame once and in order, across stops, errors *)
(* and restarts, and nothing from a filter that is stopped.                *)
Source == INSTANCE FrameSource WITH
            state <- IF op = "none" THEN m_State ELSE "Changing",
            last <- received
ImplementsFrameSource == Source!Spec
=============================================================================
