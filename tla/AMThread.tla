------------------------------ MODULE AMThread ------------------------------
(***************************************************************************)
(* CAMThread (src/SDK/BaseClasses/wxutil.cpp, wxutil.h): client threads    *)
(* send commands to a worker thread through one parameter, one return      *)
(* value, a manual-reset event and an auto-reset event.  Each access to a  *)
(* shared variable or an event is one step.  The worker is the loop of a   *)
(* derived class that keeps to the protocol: GetRequest, Reply, and return *)
(* from ThreadProc after the "exit" command.                               *)
(***************************************************************************)
EXTENDS Naturals, FiniteSets

CONSTANTS Clients,    \* threads that use the object
          Workers,    \* thread handles CreateThread can return
          Commands,   \* commands other than exit
          NoWorker,   \* m_hThread == NULL
          NoClient,   \* m_AccessLock is free
          NoCommand   \* a variable that holds no command yet

Exit == "exit"
AllCommands == Commands \union {Exit}

ASSUME NamesDiffer == /\ NoWorker \notin Workers /\ NoClient \notin Clients
                      /\ NoCommand \notin AllCommands /\ Exit \notin Commands
ASSUME WorkersFinite == IsFiniteSet(Workers)

VARIABLES
  m_hThread,         \* handle of the current worker
  m_AccessLock,      \* client inside Create or CallWorker
  m_dwParam, m_dwReturnVal,
  m_EventSend,       \* manual-reset: a request is there
  m_EventComplete,   \* auto-reset: the request has been answered
  clientPc,
  request,           \* dwParam of a client's CallWorker
  closing,           \* local hThread of a client's Close
  closer,            \* client that sent exit and will Close (see MayCall)
  workerPc,
  serving            \* the command a worker took from GetRequest

events == <<m_dwParam, m_dwReturnVal, m_EventSend, m_EventComplete>>
clientState == <<m_AccessLock, clientPc, request, closing, closer>>
workerState == <<workerPc, serving>>
vars == <<m_hThread, events, clientState, workerState>>

Init ==
  /\ m_hThread = NoWorker
  /\ m_AccessLock = NoClient
  /\ m_dwParam = NoCommand /\ m_dwReturnVal = NoCommand
  /\ m_EventSend = "reset" /\ m_EventComplete = "reset"
  /\ clientPc = [c \in Clients |-> "idle"]
  /\ request = [c \in Clients |-> NoCommand]
  /\ closing = [c \in Clients |-> NoWorker]
  /\ closer = NoClient
  /\ workerPc = [w \in Workers |-> "none"]
  /\ serving = [w \in Workers |-> NoCommand]

ClientGoTo(c, label) == clientPc' = [clientPc EXCEPT ![c] = label]
WorkerGoTo(w, label) == workerPc' = [workerPc EXCEPT ![w] = label]

(* Mutant: the lock is not waited for.                                     *)
AccessLockIgnored == TRUE

(* EnterCriticalSection(m_AccessLock) would not block.                     *)
AccessLockFree == m_AccessLock = NoClient

(***************************************************************************)
(* Create, Close                                                           *)
(***************************************************************************)

(* Create under m_AccessLock: refused if there is a thread already.        *)
Create(c) ==
  /\ clientPc[c] = "idle" /\ AccessLockFree
  /\ m_hThread = NoWorker
  /\ \E w \in Workers : /\ workerPc[w] = "none"
                        /\ m_hThread' = w
                        /\ WorkerGoTo(w, "getRequest")
  /\ closer' = NoClient
  /\ UNCHANGED <<events, m_AccessLock, clientPc, request, closing, serving>>

(* Mutant: the handle is read after it has been cleared.                   *)
TakeHandleLate(c) ==
  /\ m_hThread' = NoWorker
  /\ closing' = [closing EXCEPT ![c] = m_hThread']

(* InterlockedExchangePointer(&m_hThread, 0)                               *)
TakeHandle(c) ==
  /\ m_hThread' = NoWorker
  /\ closing' = [closing EXCEPT ![c] = m_hThread]

(* Close: the handle is taken out of m_hThread first ...                   *)
Close(c) ==
  /\ clientPc[c] = "idle" /\ closer = c
  /\ m_hThread # NoWorker
  /\ TakeHandle(c)
  /\ ClientGoTo(c, "join")
  /\ UNCHANGED <<events, m_AccessLock, request, closer, workerState>>

(* ... and then waited for, without a lock.                                *)
Join(c) ==
  /\ clientPc[c] = "join" /\ workerPc[closing[c]] = "exited"
  /\ WorkerGoTo(closing[c], "none")
  /\ closing' = [closing EXCEPT ![c] = NoWorker]
  /\ ClientGoTo(c, "idle")
  /\ UNCHANGED <<m_hThread, events, m_AccessLock, request, closer, serving>>

(***************************************************************************)
(* CallWorker                                                              *)
(***************************************************************************)

(* The clients' part of the bargain: whoever sends exit is done with the   *)
(* thread, no call is in progress then and none follows before Close       *)
(* (CSourceStream holds the filter's state lock from Stop to Close).       *)
MayCall(c, cmd) ==
  /\ closer = NoClient
  /\ cmd = Exit => \A d \in Clients : clientPc[d] = "idle"

(* CAutoLock, then fail if there is no thread.                             *)
BeginCall(c, cmd) ==
  /\ clientPc[c] = "idle" /\ AccessLockFree
  /\ m_hThread # NoWorker
  /\ MayCall(c, cmd)
  /\ m_AccessLock' = c
  /\ request' = [request EXCEPT ![c] = cmd]
  /\ closer' = IF cmd = Exit THEN c ELSE closer
  /\ ClientGoTo(c, "setParam")
  /\ UNCHANGED <<m_hThread, events, closing, workerState>>

SetParam(c) ==
  /\ clientPc[c] = "setParam"
  /\ m_dwParam' = request[c]
  /\ ClientGoTo(c, "signal")
  /\ UNCHANGED <<m_hThread, m_dwReturnVal, m_EventSend, m_EventComplete,
                 m_AccessLock, request, closing, closer, workerState>>

SignalWorker(c) ==
  /\ clientPc[c] = "signal"
  /\ m_EventSend' = "set"
  /\ ClientGoTo(c, "wait")
  /\ UNCHANGED <<m_hThread, m_dwParam, m_dwReturnVal, m_EventComplete,
                 m_AccessLock, request, closing, closer, workerState>>

(* The wait consumes the auto-reset event.                                 *)
WaitComplete(c) ==
  /\ clientPc[c] = "wait" /\ m_EventComplete = "set"
  /\ m_EventComplete' = "reset"
  /\ ClientGoTo(c, "return")
  /\ UNCHANGED <<m_hThread, m_dwParam, m_dwReturnVal, m_EventSend,
                 m_AccessLock, request, closing, closer, workerState>>

(* return m_dwReturnVal, and the lock is released.                         *)
ReturnValue(c) ==
  /\ clientPc[c] = "return"
  /\ m_AccessLock' = NoClient
  /\ request' = [request EXCEPT ![c] = NoCommand]
  /\ ClientGoTo(c, "idle")
  /\ UNCHANGED <<m_hThread, events, closing, closer, workerState>>

(***************************************************************************)
(* GetRequest, CheckRequest, Reply                                         *)
(***************************************************************************)

(* GetRequest, or a successful CheckRequest: both leave the event set.     *)
GetRequest(w) ==
  /\ workerPc[w] = "getRequest" /\ m_EventSend = "set"
  /\ serving' = [serving EXCEPT ![w] = m_dwParam]
  /\ WorkerGoTo(w, "reply")
  /\ UNCHANGED <<m_hThread, events, clientState>>

(* CheckRequest saw the request but leaves the reply to GetRequest, as     *)
(* CSourceStream::DoBufferProcessingLoop does with CMD_STOP.               *)
LookAgain(w) ==
  /\ workerPc[w] = "reply" /\ serving[w] # Exit
  /\ serving' = [serving EXCEPT ![w] = NoCommand]
  /\ WorkerGoTo(w, "getRequest")
  /\ UNCHANGED <<m_hThread, events, clientState>>

(* Reply: m_dwReturnVal = dw; the value stands for the answer to a command.*)
SetReturnVal(w) ==
  /\ workerPc[w] = "reply"
  /\ m_dwReturnVal' = serving[w]
  /\ WorkerGoTo(w, "resetSend")
  /\ UNCHANGED <<m_hThread, m_dwParam, m_EventSend, m_EventComplete,
                 clientState, serving>>

(* Mutant: the client is told before the request is withdrawn.             *)
CompleteFirst(w) ==
  \/ /\ workerPc[w] = "resetSend"
     /\ m_EventComplete' = "set"
     /\ WorkerGoTo(w, "complete")
     /\ UNCHANGED <<m_EventSend, serving>>
  \/ /\ workerPc[w] = "complete"
     /\ m_EventSend' = "reset"
     /\ WorkerGoTo(w, IF serving[w] = Exit THEN "exiting" ELSE "getRequest")
     /\ serving' = [serving EXCEPT ![w] = NoCommand]
     /\ UNCHANGED m_EventComplete

(* Mutant: ThreadProc goes on after the exit command.                      *)
CompleteNeverExits(w) ==
  \/ /\ workerPc[w] = "resetSend"
     /\ m_EventSend' = "reset"
     /\ WorkerGoTo(w, "complete")
     /\ UNCHANGED <<m_EventComplete, serving>>
  \/ /\ workerPc[w] = "complete"
     /\ m_EventComplete' = "set"
     /\ WorkerGoTo(w, "getRequest")
     /\ serving' = [serving EXCEPT ![w] = NoCommand]
     /\ UNCHANGED m_EventSend

(* Mutant: the request is not withdrawn.                                   *)
CompleteWithoutReset(w) ==
  \/ /\ workerPc[w] = "resetSend"
     /\ WorkerGoTo(w, "complete")
     /\ UNCHANGED <<m_EventSend, m_EventComplete, serving>>
  \/ /\ workerPc[w] = "complete"
     /\ m_EventComplete' = "set"
     /\ WorkerGoTo(w, IF serving[w] = Exit THEN "exiting" ELSE "getRequest")
     /\ serving' = [serving EXCEPT ![w] = NoCommand]
     /\ UNCHANGED m_EventSend

(* The rest of Reply: reset the request BEFORE the client is told.         *)
CompleteRequest(w) ==
  \/ /\ workerPc[w] = "resetSend"
     /\ m_EventSend' = "reset"
     /\ WorkerGoTo(w, "complete")
     /\ UNCHANGED <<m_EventComplete, serving>>
  \/ /\ workerPc[w] = "complete"
     /\ m_EventComplete' = "set"
     /\ WorkerGoTo(w, IF serving[w] = Exit THEN "exiting" ELSE "getRequest")
     /\ serving' = [serving EXCEPT ![w] = NoCommand]
     /\ UNCHANGED m_EventSend

Reply(w) ==
  /\ CompleteRequest(w)
  /\ UNCHANGED <<m_hThread, m_dwParam, m_dwReturnVal, clientState>>

(* ThreadProc returns some time after its last reply.                      *)
ExitThread(w) ==
  /\ workerPc[w] = "exiting"
  /\ WorkerGoTo(w, "exited")
  /\ UNCHANGED <<m_hThread, events, clientState, serving>>

(***************************************************************************)
(* Specification                                                           *)
(***************************************************************************)

InCall(c) == \/ SetParam(c) \/ SignalWorker(c) \/ WaitComplete(c)
             \/ ReturnValue(c) \/ Join(c)

ClientStep(c) == \/ Create(c) \/ Close(c) \/ InCall(c)
                 \/ \E cmd \in AllCommands : BeginCall(c, cmd)

WorkerStep(w) == \/ GetRequest(w) \/ LookAgain(w) \/ SetReturnVal(w)
                 \/ Reply(w) \/ ExitThread(w)

Next == (\E c \in Clients : ClientStep(c)) \/ (\E w \in Workers : WorkerStep(w))

Spec == Init /\ [][Next]_vars

(* Threads run; a worker that looks at a request again and again replies   *)
(* to it in the end.                                                       *)
Fairness == /\ \A c \in Clients : WF_vars(InCall(c))
            /\ \A w \in Workers : WF_vars(WorkerStep(w)) /\ SF_vars(SetReturnVal(w))

FairSpec == Spec /\ Fairness

(***************************************************************************)
(* Properties                                                              *)
(***************************************************************************)

TypeOK ==
  /\ m_hThread \in Workers \union {NoWorker}
  /\ m_AccessLock \in Clients \union {NoClient}
  /\ m_dwParam \in AllCommands \union {NoCommand}
  /\ m_dwReturnVal \in AllCommands \union {NoCommand}
  /\ m_EventSend \in {"set", "reset"} /\ m_EventComplete \in {"set", "reset"}
  /\ clientPc \in [Clients -> {"idle", "setParam", "signal", "wait", "return", "join"}]
  /\ request \in [Clients -> AllCommands \union {NoCommand}]
  /\ closing \in [Clients -> Workers \union {NoWorker}]
  /\ \A c \in Clients : clientPc[c] = "join" => closing[c] \in Workers
  /\ closer \in Clients \union {NoClient}
  /\ workerPc \in [Workers -> {"none", "getRequest", "reply", "resetSend",
                               "complete", "exiting", "exited"}]
  /\ serving \in [Workers -> AllCommands \union {NoCommand}]

Calling(c) == clientPc[c] \in {"setParam", "signal", "wait", "return"}
Serving(w) == workerPc[w] \in {"reply", "resetSend", "complete"}

(* A call returns the answer to its own command.                           *)
ReturnsOwnAnswer ==
  \A c \in Clients : clientPc[c] = "return" => m_dwReturnVal = request[c]

(* No command is lost: while a client waits for an answer, either its      *)
(* request is still signalled and its worker alive to take it, or the      *)
(* worker is replying to it, or the answer is there.                       *)
NoCommandLost ==
  \A c \in Clients : clientPc[c] = "wait" =>
    \/ m_EventComplete = "set"
    \/ /\ m_hThread \in Workers
       /\ \/ workerPc[m_hThread] = "getRequest" /\ m_EventSend = "set"
          \/ workerPc[m_hThread] \in {"reply", "resetSend"} /\ m_EventSend = "set"
          \/ workerPc[m_hThread] = "complete"

(* Two threads never serve the object: a worker that Close no longer waits *)
(* to see in m_hThread has answered its last request.                      *)
OnlyCurrentWorkerServes ==
  \A w \in Workers : workerPc[w] = "getRequest" \/ Serving(w) => m_hThread = w

(* Every call returns, and every Close too.                                *)
CallsReturn == \A c \in Clients : (clientPc[c] # "idle") ~> (clientPc[c] = "idle")

(* CallWorker implements a synchronous call.                               *)
Caller == {c \in Clients : clientPc[c] \in {"wait", "return"}}
Answered == \/ \E c \in Clients : clientPc[c] = "return"
            \/ m_EventComplete = "set"
Call == INSTANCE SyncCall WITH
          Commands <- AllCommands,
          phase <- IF Caller = {} THEN "none"
                   ELSE IF Answered THEN "answered" ELSE "asked",
          command <- IF Caller = {} THEN NoCommand ELSE m_dwParam,
          answer <- IF Caller # {} /\ Answered THEN m_dwReturnVal ELSE NoCommand
ImplementsCall == Call!Spec

(* What holds at every step: each caller gets the answer to its own        *)
(* command, no command is lost, and one worker at a time serves.           *)
ThreadSafety == TypeOK /\ ReturnsOwnAnswer /\ NoCommandLost /\ OnlyCurrentWorkerServes
=============================================================================
