----------------------------- MODULE DynamicPin -----------------------------
(***************************************************************************)
(* CDynamicOutputPin (amfilter.cpp): application threads block the flow of *)
(* data through an output pin so as to rebuild what is behind it; the      *)
(* streaming thread brackets each use of the pin by StartUsingOutputPin    *)
(* and StopUsingOutputPin, and may change the media type in between.  The  *)
(* graph's lock, which keeps Active, Inactive and the flushes from each    *)
(* other, the derived class's streaming thread and what is downstream are  *)
(* external.                                                               *)
(***************************************************************************)
EXTENDS Naturals

CONSTANTS
  Apps,             \* application threads, not 0
  MediaTypes,
  MayFail,          \* can ReceiveConnection, SetMediaType ... fail
  MaxPinCalls          \* bound on the calls of the applications and the filter

(* No thread has the number 0, which stands for nobody.                    *)
ASSUME NobodyIsZero == 0 \notin Apps

VARIABLES
  m_BlockState,                     \* "NOT_BLOCKED", "PENDING", "BLOCKED"
  m_hUnblockOutputPinEvent,
  m_hNotifyCallerPinBlockedEvent,   \* whose event it duplicates, 0: none
  m_dwBlockCallerThreadID,
  m_dwNumOutstandingOutputPinUsers,
  m_hStopEvent,
  told,             \* the applications whose event has been set
  appPc,            \* of each: "idle", "sync" (waits), "async", "blocked"
  streamPc,         \* "idle", "wait", "unblocked", "stop", "using", a stage, "over"
  active, flushing, \* the filter
  pinType, peerType, newType, committed, agreed,
  pinCalls

blockVars == <<m_BlockState, m_hUnblockOutputPinEvent, m_hNotifyCallerPinBlockedEvent,
               m_dwBlockCallerThreadID, told>>
typeVars == <<pinType, peerType, newType, committed, agreed>>
pinVars == <<blockVars, m_dwNumOutstandingOutputPinUsers, m_hStopEvent, appPc, streamPc, active,
             flushing, typeVars, pinCalls>>

NOT_BLOCKED == "NOT_BLOCKED"
PENDING == "PENDING"
BLOCKED == "BLOCKED"

(* The pin is connected with some type.  The streaming thread is running   *)
(* while the filter is active.                                             *)
PinInit ==
  /\ m_BlockState = NOT_BLOCKED /\ m_hUnblockOutputPinEvent = TRUE
  /\ m_hNotifyCallerPinBlockedEvent = 0 /\ m_dwBlockCallerThreadID = 0
  /\ m_dwNumOutstandingOutputPinUsers = 0 /\ m_hStopEvent = FALSE /\ told = {}
  /\ appPc = [t \in Apps |-> "idle"] /\ streamPc = "over" /\ active = FALSE /\ flushing = FALSE
  /\ pinType \in MediaTypes /\ peerType = pinType /\ newType = pinType
  /\ committed = FALSE /\ agreed = TRUE /\ pinCalls = 0

Calls == pinCalls < MaxPinCalls /\ pinCalls' = pinCalls + 1

(***************************************************************************)
(* The applications                                                        *)
(***************************************************************************)
StreamingThreadUsingOutputPin == m_dwNumOutstandingOutputPinUsers > 0

(* Tells the application t, or nobody if nobody waits.                     *)
BlockOutputPin(t) ==
  /\ m_hUnblockOutputPinEvent' = FALSE /\ told' = told \cup ({t} \ {0})
  /\ m_BlockState' = BLOCKED /\ m_hNotifyCallerPinBlockedEvent' = 0

(* Mutant: the pin is blocked though it is in use.                         *)
BlockAtOnce(t) ==
  /\ m_dwBlockCallerThreadID' = t
  /\ m_hUnblockOutputPinEvent' = FALSE /\ told' = told \cup {t}
  /\ m_BlockState' = BLOCKED /\ m_hNotifyCallerPinBlockedEvent' = 0

AsynchronousBlockOutputPin(t) ==
  /\ m_dwBlockCallerThreadID' = t
  /\ IF StreamingThreadUsingOutputPin
     THEN /\ m_BlockState' = PENDING /\ m_hNotifyCallerPinBlockedEvent' = t
          /\ told' = told \ {t} /\ UNCHANGED m_hUnblockOutputPinEvent
     ELSE BlockOutputPin(t)

(* A pin that is blocked or about to be answers with an error.             *)
Block(t) ==
  /\ Calls /\ appPc[t] = "idle" /\ m_BlockState = NOT_BLOCKED
  /\ AsynchronousBlockOutputPin(t)
  /\ \E how \in {"sync", "async"} : appPc' = [appPc EXCEPT ![t] = how]
  /\ UNCHANGED <<m_dwNumOutstandingOutputPinUsers, m_hStopEvent, streamPc, active, flushing, typeVars>>

(* The wait for the event ends.                                            *)
Blocked(t) ==
  /\ appPc[t] \in {"sync", "async"} /\ t \in told
  /\ told' = told \ {t} /\ appPc' = [appPc EXCEPT ![t] = "blocked"]
  /\ UNCHANGED <<m_BlockState, m_hUnblockOutputPinEvent, m_hNotifyCallerPinBlockedEvent,
                 m_dwBlockCallerThreadID, m_dwNumOutstandingOutputPinUsers, m_hStopEvent,
                 streamPc, active, flushing, typeVars, pinCalls>>

(* Mutant: one whose block is still pending is not told.                   *)
UnblockSilently ==
  /\ m_hUnblockOutputPinEvent' = TRUE /\ told' = told
  /\ m_BlockState' = NOT_BLOCKED /\ m_dwBlockCallerThreadID' = 0
  /\ m_hNotifyCallerPinBlockedEvent' = 0

UnblockOutputPin ==
  /\ m_hUnblockOutputPinEvent' = TRUE
  /\ told' = told \cup ({m_hNotifyCallerPinBlockedEvent} \ {0})
  /\ m_BlockState' = NOT_BLOCKED /\ m_dwBlockCallerThreadID' = 0
  /\ m_hNotifyCallerPinBlockedEvent' = 0

(* Any thread that does not itself wait may unblock; an application knows  *)
(* that a block it made is undone only if it undid it itself.              *)
Unblock(t) ==
  /\ Calls /\ appPc[t] # "sync" /\ m_BlockState # NOT_BLOCKED
  /\ UnblockOutputPin /\ appPc' = [appPc EXCEPT ![t] = IF @ = "async" THEN @ ELSE "idle"]
  /\ UNCHANGED <<m_dwNumOutstandingOutputPinUsers, m_hStopEvent, streamPc, active, flushing, typeVars>>

(***************************************************************************)
(* The streaming thread                                                    *)
(***************************************************************************)
Streaming == UNCHANGED <<appPc, active, flushing, pinCalls, m_hStopEvent>>

EnterPin ==
  IF m_BlockState = BLOCKED
  THEN streamPc' = "wait" /\ UNCHANGED m_dwNumOutstandingOutputPinUsers
  ELSE /\ streamPc' = "using"
       /\ m_dwNumOutstandingOutputPinUsers' = m_dwNumOutstandingOutputPinUsers + 1

StartUsingOutputPin ==
  /\ streamPc = "idle" /\ active /\ EnterPin /\ UNCHANGED <<blockVars, typeVars>> /\ Streaming

(* The wait for one of two events; the block state's lock is not held.     *)
WaitInPin ==
  /\ streamPc = "wait"
  /\ streamPc' = (IF m_hUnblockOutputPinEvent THEN "unblocked" ELSE "stop")
  /\ m_hUnblockOutputPinEvent \/ m_hStopEvent
  /\ UNCHANGED <<m_dwNumOutstandingOutputPinUsers, blockVars, typeVars>> /\ Streaming

(* After the lock has been taken again: blocked anew, it waits again.      *)
EnterAgain ==
  /\ streamPc = "unblocked" /\ EnterPin /\ UNCHANGED <<blockVars, typeVars>> /\ Streaming

(* VFW_E_STATE_CHANGED.                                                    *)
GiveUpPin ==
  /\ streamPc = "stop" /\ streamPc' = "idle"
  /\ UNCHANGED <<m_dwNumOutstandingOutputPinUsers, blockVars, typeVars>> /\ Streaming

StopUsingOutputPin ==
  /\ streamPc = "using" /\ streamPc' = "idle"
  /\ m_dwNumOutstandingOutputPinUsers' = m_dwNumOutstandingOutputPinUsers - 1
  /\ IF m_dwNumOutstandingOutputPinUsers' = 0 /\ m_BlockState # NOT_BLOCKED
     THEN BlockOutputPin(m_hNotifyCallerPinBlockedEvent) /\ UNCHANGED m_dwBlockCallerThreadID
     ELSE UNCHANGED blockVars
  /\ UNCHANGED typeVars /\ Streaming

ThreadEndsPin ==
  /\ streamPc = "idle" /\ ~active /\ streamPc' = "over"
  /\ UNCHANGED <<m_dwNumOutstandingOutputPinUsers, blockVars, typeVars>> /\ Streaming

(***************************************************************************)
(* ChangeMediaType: if the pin downstream accepts it, the steps of         *)
(* ChangeMediaTypeHelper; otherwise the graph reconnects the pin, which    *)
(* either gives both the new type or fails.                                *)
(***************************************************************************)
ChangeMediaType(mt) ==
  /\ streamPc = "using" /\ active /\ newType' = mt /\ agreed' = FALSE
  /\ \/ streamPc' = "receive" /\ UNCHANGED <<pinType, peerType>>
     \/ streamPc' = "notify" /\ pinType' = mt /\ peerType' = mt
     \/ MayFail /\ streamPc' = "using" /\ UNCHANGED <<pinType, peerType>>
  /\ UNCHANGED <<m_dwNumOutstandingOutputPinUsers, blockVars, committed>> /\ Streaming

NextStage == [receive |-> "set", set |-> "decommit", decommit |-> "decide", decide |-> "commit",
              commit |-> "notify"]

Stage(from) ==
  /\ streamPc = from /\ streamPc' = NextStage[from]
  /\ peerType' = (IF from = "receive" THEN newType ELSE peerType)
  /\ pinType' = (IF from = "set" THEN newType ELSE pinType)
  /\ committed' = (IF from = "decommit" THEN FALSE ELSE IF from = "commit" THEN TRUE ELSE committed)
  /\ UNCHANGED <<m_dwNumOutstandingOutputPinUsers, blockVars, newType, agreed>> /\ Streaming

(* NotifyAllocator succeeds, and the caller delivers a new segment.        *)
Changed ==
  /\ streamPc = "notify" /\ streamPc' = "using" /\ agreed' = TRUE
  /\ UNCHANGED <<m_dwNumOutstandingOutputPinUsers, blockVars, pinType, peerType, newType, committed>>
  /\ Streaming

ChangeFails ==
  /\ MayFail /\ streamPc \in DOMAIN NextStage \cup {"notify"} /\ streamPc' = "using"
  /\ UNCHANGED <<m_dwNumOutstandingOutputPinUsers, blockVars, typeVars>> /\ Streaming

(***************************************************************************)
(* The filter                                                              *)
(***************************************************************************)
FilterOnly == UNCHANGED <<blockVars, m_dwNumOutstandingOutputPinUsers, appPc>>

Active ==
  /\ Calls /\ ~active /\ streamPc = "over" /\ ~flushing
  /\ m_hStopEvent' = FALSE /\ committed' = TRUE /\ active' = TRUE /\ streamPc' = "idle"
  /\ UNCHANGED <<flushing, pinType, peerType, newType, agreed>> /\ FilterOnly

(* Mutant: the streaming thread is left where it waits.                    *)
InactiveQuietly ==
  /\ Calls /\ active /\ ~flushing
  /\ m_hStopEvent' = m_hStopEvent /\ committed' = FALSE /\ active' = FALSE
  /\ UNCHANGED <<streamPc, flushing, pinType, peerType, newType, agreed>> /\ FilterOnly

Inactive ==
  /\ Calls /\ active /\ ~flushing
  /\ m_hStopEvent' = TRUE /\ committed' = FALSE /\ active' = FALSE
  /\ UNCHANGED <<streamPc, flushing, pinType, peerType, newType, agreed>> /\ FilterOnly

DeliverBeginFlush ==
  /\ Calls /\ active /\ ~flushing /\ flushing' = TRUE /\ m_hStopEvent' = TRUE
  /\ UNCHANGED <<streamPc, active, typeVars>> /\ FilterOnly

DeliverEndFlush ==
  /\ flushing /\ flushing' = FALSE /\ m_hStopEvent' = FALSE
  /\ UNCHANGED <<streamPc, active, typeVars, pinCalls>> /\ FilterOnly

(***************************************************************************)
(* Specification                                                           *)
(***************************************************************************)
Enters == StartUsingOutputPin \/ WaitInPin \/ EnterAgain \/ GiveUpPin \/ ThreadEndsPin
Leaves == StopUsingOutputPin
Changes == (\E s \in DOMAIN NextStage : Stage(s)) \/ Changed
StreamingThread ==
  Enters \/ Leaves \/ Changes \/ ChangeFails \/ \E mt \in MediaTypes : ChangeMediaType(mt)

PinNext ==
  \/ \E t \in Apps : Block(t) \/ Blocked(t) \/ Unblock(t)
  \/ StreamingThread
  \/ Active \/ Inactive \/ DeliverBeginFlush \/ DeliverEndFlush

(***************************************************************************)
(* Correctness                                                             *)
(***************************************************************************)

(* AssertValid, and what it is for: between the time an application has    *)
(* been told that the pin is blocked and the next Unblock, the streaming   *)
(* thread does not use the pin, whatever it was doing when Block came; and *)
(* a change of type that succeeded leaves both pins with that type.        *)
PinSafety ==
  /\ (m_BlockState = PENDING) <=> (m_hNotifyCallerPinBlockedEvent # 0)
  /\ (m_dwBlockCallerThreadID # 0) <=> (m_BlockState # NOT_BLOCKED)
  /\ StreamingThreadUsingOutputPin => m_BlockState # BLOCKED
  /\ m_BlockState = PENDING => StreamingThreadUsingOutputPin
  /\ StreamingThreadUsingOutputPin
       <=> streamPc \in {"using", "notify"} \cup DOMAIN NextStage
  /\ m_BlockState = BLOCKED <=> ~m_hUnblockOutputPinEvent
  /\ agreed => pinType = newType /\ peerType = newType

(* A blocking call returns, also when another thread unblocks the pin, and *)
(* a streaming thread that the pin holds up is let through or, when the    *)
(* filter stops, sent away: it never stays behind in a stopped filter.     *)
NobodyIsKept ==
  /\ \A t \in Apps : appPc[t] # "sync"
  /\ ~active => streamPc = "over"
=============================================================================
