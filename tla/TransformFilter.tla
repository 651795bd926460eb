-------------------------- MODULE TransformFilter --------------------------
(***************************************************************************)
(* CTransformFilter (src/SDK/BaseClasses/transfrm.cpp) over CBaseInputPin  *)
(* (amfilter.cpp), the base of CFlipFilter and CMyFilter.  Two threads     *)
(* meet in it: the streaming thread of the upstream filter, which calls    *)
(* Receive and EndOfStream under m_csReceive, and a control thread, which  *)
(* calls Stop, Pause, Run, BeginFlush and EndFlush under m_csFilter.       *)
(* m_csFilter is held throughout every control call and never asked for by *)
(* the streaming thread, so one control thread stands for all.             *)
(*                                                                         *)
(* The neighbours are external.  Upstream stops ended when Receive does  *)
(* not return S_OK (as CSourceStream does) and calls EndFlush only when    *)
(* its thread has no old sample in Receive (the comment on EndFlush in     *)
(* amfilter.h).  Downstream blocks in Receive while paused, as a renderer  *)
(* does.  The graph manager stops all filters, the most downstream first,  *)
(* before it starts any, in the same order, and does neither to a          *)
(* neighbour in the middle of a flush call.                                *)
(***************************************************************************)
EXTENDS Naturals, FiniteSets

CONSTANTS NBuffers,          \* samples of the output allocator
          TransformResults,  \* what the derived class's Transform returns
          Faults             \* of "start", "stop", "commit" and "type" may happen

ASSUME NBuffersPositive == NBuffers \in Nat \ {0}
ASSUME ResultsAreKnown == TransformResults \subseteq {"S_OK", "S_FALSE", "E_FAIL"}
ASSUME FaultsAreKnown == Faults \subseteq {"start", "stop", "commit", "type"}

VARIABLES
  \* the filter
  m_Connected,         \* subset of {"in", "out"}
  m_State, op, step,   \* state, control call in progress, where it is
  m_csReceive,         \* "free" or "stream": held by the streaming thread
  m_bFlushing, m_bRunTimeError, m_bEOSDelivered,
  m_bSampleSkipped, m_bQualityChanged,
  streaming,           \* the derived class: StartStreaming came, StopStreaming not
  \* the streaming thread
  spc,                 \* where it is in Receive or EndOfStream
  pSample,             \* the sample: its flags, and whether a flush began since
  prevSkipped,         \* AM_GBF_PREVFRAMESKIPPED of the output sample
  inCommitted,         \* the input allocator is
  holding,             \* upstream has a sample of it, for Receive
  ended,               \* upstream does not send: not started, refused, or all sent
  \* the output allocator and the downstream filter
  outCommitted, free, kept,
  downState, downFlushing, eosCount,
  \* observer: a sample was skipped and the stream has gone on without another
  skipped

pins == <<m_Connected, m_bFlushing, m_bRunTimeError>>
control == <<m_State, op, step, m_bEOSDelivered, streaming>>
marks == <<m_bSampleSkipped, m_bQualityChanged, skipped>>
upstream == <<inCommitted, holding, ended>>
stream == <<m_csReceive, spc, pSample, prevSkipped, upstream>>
pool == <<outCommitted, free, kept>>
down == <<downState, downFlushing, eosCount>>
transformVars == <<pins, control, marks, stream, pool, down>>

NoSample == [discontinuity |-> FALSE, typeChanged |-> FALSE, old |-> FALSE]

TransformInit ==
  /\ m_Connected \in {{}, {"in"}, {"in", "out"}, {"out"}}
  /\ m_State = "Stopped" /\ op = "none" /\ step = "idle"
  /\ m_csReceive = "free" /\ spc = "idle" /\ pSample = NoSample
  /\ m_bFlushing = FALSE /\ m_bRunTimeError = FALSE /\ m_bEOSDelivered = FALSE
  /\ m_bSampleSkipped = FALSE /\ m_bQualityChanged = FALSE /\ skipped = FALSE
  /\ streaming = FALSE /\ prevSkipped = FALSE
  /\ inCommitted = FALSE /\ holding = FALSE /\ ended = TRUE
  /\ outCommitted = FALSE /\ free = NBuffers /\ kept = 0
  /\ downState = "Stopped" /\ downFlushing = FALSE /\ eosCount = 0

Idle == op = "none"
Joined == m_Connected = {"in", "out"}
Return == op' = "none" /\ step' = "idle"

(***************************************************************************)
(* Stop                                                                    *)
(***************************************************************************)

(* Not completely connected: just succeed.                                 *)
StopUnconnected ==
  /\ Idle /\ m_State # "Stopped" /\ ~Joined /\ downState = "Stopped"
  /\ m_State' = "Stopped" /\ m_bEOSDelivered' = FALSE
  /\ UNCHANGED <<pins, op, step, streaming, marks, stream, pool, down>>

(* Mutant: the input allocator goes on giving samples to upstream.         *)
InputStaysCommitted == UNCHANGED inCommitted

(* m_pInput->Inactive() comes before the lock, "or we can deadlock".       *)
DecommitInput == inCommitted' = FALSE

Stop ==
  /\ Idle /\ m_State # "Stopped" /\ Joined /\ downState = "Stopped"
  /\ m_bRunTimeError' = FALSE /\ m_bFlushing' = FALSE /\ DecommitInput
  /\ op' = "Stop" /\ step' = "lockReceive"
  /\ UNCHANGED <<m_Connected, m_State, m_bEOSDelivered, streaming, marks, m_csReceive,
                 spc, pSample, prevSkipped, holding, ended, pool, down>>

(* Mutant: Stop does not synchronize with Receive.                         *)
ReceiveIgnored == TRUE

(* EnterCriticalSection(m_csReceive) by the control thread.                *)
ReceiveLockFree == m_csReceive = "free"

(* Mutant: the transition is completed although StopStreaming failed.      *)
StopRegardless ==
  /\ m_State' = "Stopped" /\ m_bEOSDelivered' = FALSE
  /\ streaming' \in {FALSE, streaming /\ "stop" \in Faults}

(* The state changes only if StopStreaming succeeds.                       *)
StopStreaming ==
  \/ m_State' = "Stopped" /\ m_bEOSDelivered' = FALSE /\ streaming' = FALSE
  \/ "stop" \in Faults /\ UNCHANGED <<m_State, m_bEOSDelivered, streaming>>

(* Under m_csReceive: m_pOutput->Inactive() decommits, then StopStreaming. *)
StopLocked ==
  /\ op = "Stop" /\ step = "lockReceive" /\ ReceiveLockFree
  /\ outCommitted' = FALSE /\ StopStreaming /\ Return
  /\ UNCHANGED <<pins, marks, stream, free, kept, down>>

(***************************************************************************)
(* Pause, and CBaseFilter::Run                                             *)
(***************************************************************************)

(* The end of Pause, whatever became of it.  (The observer forgets too.)   *)
ClearMarks ==
  m_bSampleSkipped' = FALSE /\ m_bQualityChanged' = FALSE /\ skipped' = FALSE

(* Pause when paused; Run when paused or running, which need no Pause.     *)
PauseAgain ==
  /\ Idle /\ m_State = "Paused" /\ ClearMarks
  /\ UNCHANGED <<pins, control, stream, pool, down>>

Run ==
  /\ Idle /\ m_State \in {"Paused", "Running"}
  /\ m_State' = "Running"
  /\ UNCHANGED <<pins, op, step, m_bEOSDelivered, streaming, marks, stream, pool, down>>

(* Mutant: it is not noted that the end of stream has been sent.           *)
SendEosAgain == eosCount' = eosCount + 1 /\ UNCHANGED m_bEOSDelivered

(* Without an input there will be no samples: tell downstream, once.       *)
SendEosOnce ==
  IF "out" \in m_Connected /\ ~m_bEOSDelivered
  THEN eosCount' = eosCount + 1 /\ m_bEOSDelivered' = TRUE
  ELSE UNCHANGED <<eosCount, m_bEOSDelivered>>

PauseUnconnected ==
  /\ Idle /\ m_State # "Paused" /\ ~Joined /\ downState # "Stopped"
  /\ m_State' = "Paused" /\ ClearMarks
  /\ IF "in" \notin m_Connected THEN SendEosOnce ELSE UNCHANGED <<eosCount, m_bEOSDelivered>>
  /\ UNCHANGED <<pins, op, step, streaming, stream, pool, downState, downFlushing>>

PauseRunning ==
  /\ Idle /\ m_State = "Running" /\ Joined
  /\ m_State' = "Paused" /\ ClearMarks
  /\ UNCHANGED <<pins, op, step, m_bEOSDelivered, streaming, stream, pool, down>>

(* From stopped; Run comes here too, by calling Pause first.               *)
Pause ==
  /\ Idle /\ m_State = "Stopped" /\ Joined /\ downState # "Stopped" /\ ended /\ ~holding
  /\ op' \in {"Pause", "Run"} /\ step' = "lockReceive"
  /\ UNCHANGED <<pins, m_State, m_bEOSDelivered, streaming, marks, stream, pool, down>>

StartStreaming ==
  /\ op \in {"Pause", "Run"} /\ step = "lockReceive" /\ ReceiveLockFree
  /\ \/ streaming' = TRUE /\ step' = "commit" /\ UNCHANGED <<op, marks>>
     \/ "start" \in Faults /\ Return /\ ClearMarks /\ UNCHANGED streaming
  /\ UNCHANGED <<pins, m_State, m_bEOSDelivered, stream, pool, down>>

(* CBaseFilter::Pause: the output pin commits its allocator.               *)
CommitOutput ==
  /\ step = "commit"
  /\ \/ outCommitted' = TRUE /\ m_State' = (IF op = "Run" THEN "Running" ELSE "Paused")
     \/ "commit" \in Faults /\ ~outCommitted /\ UNCHANGED <<outCommitted, m_State>>
  /\ ClearMarks /\ Return
  /\ UNCHANGED <<pins, m_bEOSDelivered, streaming, stream, free, kept, down>>

(***************************************************************************)
(* BeginFlush, EndFlush                                                    *)
(***************************************************************************)

(* CBaseInputPin::BeginFlush, and then downstream.                         *)
BeginFlush ==
  /\ Idle /\ Joined /\ ~m_bFlushing /\ downState # "Stopped"
  /\ m_bFlushing' = TRUE
  /\ pSample' = [pSample EXCEPT !.old = spc # "idle"]
  /\ op' = "BeginFlush" /\ step' = "deliver"
  /\ UNCHANGED <<m_Connected, m_bRunTimeError, m_State, m_bEOSDelivered, streaming,
                 marks, m_csReceive, spc, prevSkipped, upstream, pool, down>>

(* Mutant: downstream is not told.                                         *)
FlushKeptHere == UNCHANGED <<downFlushing, free, kept, eosCount>>

(* m_Connected->BeginFlush(): a flushing filter returns what it kept and   *)
(* forgets an end of stream.                                               *)
FlushDownstream ==
  downFlushing' = TRUE /\ free' = free + kept /\ kept' = 0 /\ eosCount' = 0

DeliverBeginFlush ==
  /\ op = "BeginFlush" /\ FlushDownstream /\ Return
  /\ UNCHANGED <<pins, m_State, m_bEOSDelivered, streaming, marks, stream,
                 outCommitted, downState>>

(* Mutant: Receives are let in again before downstream is ready for them.  *)
UnblockFirst ==
  \/ step = "downstream" /\ m_bFlushing' = FALSE /\ step' = "unblock"
       /\ UNCHANGED <<op, ended, downFlushing>>
  \/ step = "unblock" /\ downFlushing' = FALSE /\ ended' = ~inCommitted /\ Return
       /\ UNCHANGED m_bFlushing

(* Downstream leaves the flush first, then this pin lets Receives in.      *)
EndFlushOrder ==
  \/ step = "downstream" /\ downFlushing' = FALSE /\ step' = "unblock"
       /\ UNCHANGED <<op, ended, m_bFlushing>>
  \/ step = "unblock" /\ m_bFlushing' = FALSE /\ ended' = ~inCommitted /\ Return
       /\ UNCHANGED downFlushing

EndFlush ==
  /\ Idle /\ Joined /\ m_bFlushing /\ spc = "idle" /\ ~holding
  /\ op' = "EndFlush" /\ step' = "downstream"
  /\ UNCHANGED <<pins, m_State, m_bEOSDelivered, streaming, marks, stream, pool, down>>

EndFlushStep ==
  /\ op = "EndFlush" /\ EndFlushOrder
  /\ m_bRunTimeError' = (m_bFlushing' /\ m_bRunTimeError)
  /\ UNCHANGED <<m_Connected, m_State, m_bEOSDelivered, streaming, marks,
                 m_csReceive, spc, pSample, prevSkipped, inCommitted, holding, pool,
                 downState, eosCount>>

(***************************************************************************)
(* The streaming thread                                                    *)
(***************************************************************************)

(* CTransformInputPin::CheckStreaming.                                     *)
CheckStreaming == ~m_bFlushing /\ m_State # "Stopped" /\ ~m_bRunTimeError

(* Receive or EndOfStream is called, and gets m_csReceive.                 *)
Enter(where, sample) ==
  /\ Joined /\ ~ended /\ m_csReceive = "free"
  /\ IF CheckStreaming
     THEN /\ m_csReceive' = "stream" /\ spc' = where /\ pSample' = sample
          /\ UNCHANGED <<holding, ended>>
     ELSE /\ holding' = FALSE /\ ended' = TRUE
          /\ UNCHANGED <<m_csReceive, spc, pSample>>
  /\ UNCHANGED <<pins, control, marks, prevSkipped, inCommitted, pool, down>>

Receive ==
  /\ holding
  /\ \E d, t \in BOOLEAN :
       /\ t => "type" \in Faults
       /\ Enter("type", [discontinuity |-> d, typeChanged |-> t, old |-> FALSE])

EndOfStream == ~holding /\ Enter("eos", NoSample)

(* The call returns and the lock goes; not S_OK stops the sender.          *)
ReturnToSender(ok) ==
  /\ spc' = "idle" /\ pSample' = NoSample /\ m_csReceive' = "free"
  /\ prevSkipped' = FALSE /\ holding' = FALSE /\ ended' = ~ok /\ UNCHANGED inCommitted

(* The end of CBaseInputPin::Receive.  On a type nobody accepts it calls   *)
(* EndOfStream, which finds the run-time error and delivers nothing.       *)
CheckType ==
  /\ spc = "type"
  /\ IF pSample.typeChanged
     THEN m_bRunTimeError' = TRUE /\ ReturnToSender(FALSE)
     ELSE spc' = "init" /\ UNCHANGED <<m_csReceive, pSample, prevSkipped, upstream, m_bRunTimeError>>
  /\ UNCHANGED <<m_Connected, m_bFlushing, control, marks, pool, down>>

(* InitializeOutputSample; GetBuffer waits while no sample is free.        *)
InitializeOutputSample ==
  /\ spc = "init"
  /\ \/ ~outCommitted /\ ReturnToSender(FALSE) /\ UNCHANGED <<free, m_bSampleSkipped>>
     \/ /\ outCommitted /\ free > 0
        /\ free' = free - 1 /\ spc' = "transform"
        /\ prevSkipped' = m_bSampleSkipped
        /\ m_bSampleSkipped' = (m_bSampleSkipped /\ ~pSample.discontinuity)
        /\ UNCHANGED <<m_csReceive, pSample, upstream>>
  /\ UNCHANGED <<pins, control, m_bQualityChanged, skipped, outCommitted, kept, down>>

(* Mutants: a skipped sample is not released, or twice.                    *)
KeepSkipped == m_bSampleSkipped' = TRUE /\ m_bQualityChanged' = TRUE /\ UNCHANGED free
ReleaseTwice == m_bSampleSkipped' = TRUE /\ m_bQualityChanged' = TRUE /\ free' = free + 2

(* Mutant: only the first skip is noted, with its notification.            *)
NoteFirstSkip == m_bSampleSkipped' = (m_bSampleSkipped \/ ~m_bQualityChanged)
                   /\ m_bQualityChanged' = TRUE /\ free' = free + 1

(* Transform returned S_FALSE: nothing is delivered, the sender need not   *)
(* know.                                                                   *)
SkipSample == m_bSampleSkipped' = TRUE /\ m_bQualityChanged' = TRUE /\ free' = free + 1

Transform ==
  /\ spc = "transform"
  /\ \E hr \in TransformResults :
       \/ /\ hr = "S_OK" /\ spc' = "deliver"
          /\ UNCHANGED <<marks, m_csReceive, pSample, prevSkipped, upstream, free>>
       \/ hr = "S_FALSE" /\ SkipSample /\ skipped' = TRUE /\ ReturnToSender(TRUE)
       \/ hr = "E_FAIL" /\ free' = free + 1 /\ ReturnToSender(FALSE)
            /\ skipped' = FALSE /\ UNCHANGED <<m_bSampleSkipped, m_bQualityChanged>>
  /\ UNCHANGED <<pins, control, outCommitted, kept, down>>

(* "last thing no longer dropped", whatever downstream answered.           *)
ClearSkipped == m_bSampleSkipped' = FALSE

(* The downstream Receive returns: at once when stopped or flushing, else  *)
(* when running; it may keep the sample, or we release it.                 *)
Deliver ==
  /\ spc = "deliver" /\ (downState # "Paused" \/ downFlushing)
  /\ ClearSkipped /\ skipped' = FALSE
  /\ IF downState = "Running" /\ ~downFlushing
     THEN /\ ReturnToSender(TRUE)
          /\ \/ free' = free + 1 /\ UNCHANGED kept
             \/ kept' = kept + 1 /\ UNCHANGED free
     ELSE ReturnToSender(FALSE) /\ free' = free + 1 /\ UNCHANGED kept
  /\ UNCHANGED <<pins, control, m_bQualityChanged, outCommitted, down>>

(* A stopped or flushing filter takes no end of stream.                    *)
DeliverEndOfStream ==
  /\ spc = "eos" /\ ReturnToSender(FALSE)
  /\ eosCount' = eosCount + (IF downState = "Stopped" \/ downFlushing THEN 0 ELSE 1)
  /\ UNCHANGED <<pins, control, marks, pool, downState, downFlushing>>

(***************************************************************************)
(* The neighbours                                                          *)
(***************************************************************************)

(* Started after this filter, upstream commits the allocator and sends a   *)
(* new stream.                                                             *)
UpstreamStart ==
  /\ Joined /\ Idle /\ m_State # "Stopped" /\ ~inCommitted /\ spc = "idle" /\ ~holding
  /\ inCommitted' = TRUE /\ ended' = FALSE
  /\ UNCHANGED <<pins, control, marks, m_csReceive, spc, pSample, prevSkipped,
                 holding, pool, down>>

UpstreamStop ==
  /\ Idle /\ m_State = "Stopped" /\ ~(ended /\ ~holding)
  /\ ended' = TRUE /\ holding' = FALSE
  /\ UNCHANGED <<pins, control, marks, m_csReceive, spc, pSample, prevSkipped,
                 inCommitted, pool, down>>

UpstreamGetBuffer ==
  /\ inCommitted /\ ~holding /\ ~ended /\ spc = "idle"
  /\ holding' = TRUE
  /\ UNCHANGED <<pins, control, marks, m_csReceive, spc, pSample, prevSkipped,
                 inCommitted, ended, pool, down>>

DownstreamRelease ==
  /\ kept > 0 /\ downState = "Running"
  /\ kept' = kept - 1 /\ free' = free + 1
  /\ UNCHANGED <<pins, control, marks, stream, outCommitted, down>>

NotFlushing == op \notin {"BeginFlush", "EndFlush"}

DownstreamPause ==
  /\ NotFlushing /\ downState # "Paused"
  /\ downState = "Stopped" => m_State = "Stopped" /\ Idle
  /\ downState' = "Paused"
  /\ UNCHANGED <<pins, control, marks, stream, pool, downFlushing, eosCount>>

DownstreamRun ==
  /\ downState = "Paused"
  /\ downState' = "Running"
  /\ UNCHANGED <<pins, control, marks, stream, pool, downFlushing, eosCount>>

(* Everything kept comes back, and the stream starts anew.                 *)
DownstreamStop ==
  /\ NotFlushing /\ downState # "Stopped"
  /\ downState' = "Stopped" /\ downFlushing' = FALSE /\ eosCount' = 0
  /\ free' = free + kept /\ kept' = 0
  /\ UNCHANGED <<pins, control, marks, stream, outCommitted>>

Control ==
  \/ StopUnconnected \/ Stop \/ PauseAgain \/ Run \/ PauseUnconnected
  \/ PauseRunning \/ Pause \/ BeginFlush \/ EndFlush

ControlStep ==
  StopLocked \/ StartStreaming \/ CommitOutput \/ DeliverBeginFlush \/ EndFlushStep

Stream ==
  CheckType \/ InitializeOutputSample \/ Transform \/ Deliver \/ DeliverEndOfStream

Neighbours ==
  \/ Receive \/ EndOfStream \/ UpstreamStart \/ UpstreamStop \/ UpstreamGetBuffer
  \/ DownstreamRelease \/ DownstreamPause \/ DownstreamRun \/ DownstreamStop

TransformNext == Control \/ ControlStep \/ Stream \/ Neighbours

TransformSpec == TransformInit /\ [][TransformNext]_transformVars

(* A control call and a Receive that have begun go on.  Nothing makes the  *)
(* application, upstream or downstream do anything.                        *)
FairTransformSpec == TransformSpec /\ WF_transformVars(ControlStep) /\ WF_transformVars(Stream)

(***************************************************************************)
(* Correctness                                                             *)
(***************************************************************************)

(* The variables hold what their declarations say.                         *)
TransformTypeOK ==
  /\ m_Connected \subseteq {"in", "out"}
  /\ m_State \in {"Stopped", "Paused", "Running"}
  /\ op \in {"none", "Stop", "Pause", "Run", "BeginFlush", "EndFlush"}
  /\ step \in {"idle", "lockReceive", "commit", "deliver", "downstream", "unblock"}
  /\ m_csReceive \in {"free", "stream"}
  /\ {m_bFlushing, m_bRunTimeError, m_bEOSDelivered, m_bSampleSkipped,
      m_bQualityChanged, skipped, streaming, prevSkipped, inCommitted, holding, ended,
      outCommitted, downFlushing} \subseteq BOOLEAN
  /\ spc \in {"idle", "type", "init", "transform", "deliver", "eos"}
  /\ pSample \in [discontinuity : BOOLEAN, typeChanged : BOOLEAN, old : BOOLEAN]
  /\ free \in 0 .. NBuffers /\ kept \in 0 .. NBuffers
  /\ downState \in {"Stopped", "Paused", "Running"}
  /\ eosCount \in Nat

(* Every output sample is in the allocator, with downstream or with the    *)
(* Receive in progress: no way out of CTransformFilter::Receive, skip,     *)
(* error or refusal, loses one or releases one twice.                      *)
SamplesAccounted ==
  free + kept + (IF spc \in {"transform", "deliver"} THEN 1 ELSE 0) = NBuffers

(* CTransformFilter::Stop synchronizes with Receive: while the filter is   *)
(* stopped nothing is being transformed or delivered and, the next start   *)
(* apart, the output allocator is decommitted with all samples in it.      *)
QuietWhenStopped ==
  m_State = "Stopped" /\ Joined =>
    /\ spc = "idle"
    /\ Idle /\ downState = "Stopped" => ~outCommitted /\ free = NBuffers

(* A derived class is told of streaming: whenever a call returns with the  *)
(* filter active it has seen StartStreaming, and no Stop completes without *)
(* StopStreaming.  (When Commit fails in Pause the filter stays stopped    *)
(* and the derived class is left streaming until the next Stop.)           *)
StreamingPaired ==
  [][Joined /\ op' = "none" =>
       /\ m_State' # "Stopped" => streaming'
       /\ op = "Stop" /\ m_State' = "Stopped" => ~streaming']_transformVars

(* EndFlush opens this pin only after downstream, and BeginFlush closes it *)
(* before: downstream refuses no sample for flushing that was received     *)
(* outside the flush.                                                      *)
FlushLosesOnlyOldSamples == spc = "deliver" /\ downFlushing => pSample.old

(* The first sample delivered after Transform skipped one is announced to  *)
(* GetBuffer with AM_GBF_PREVFRAMESKIPPED, however many were skipped and   *)
(* whatever the control thread does in between, short of a Pause or a      *)
(* sample whose error ends the stream.                                     *)
SkipIsReported == spc = "deliver" /\ skipped => prevSkipped

(* Downstream hears of the end of a stream once, whether EndOfStream or an *)
(* unconnected Pause says so, through flushes, pauses and restarts.        *)
EosAtMostOnce == eosCount <= 1

(* Stop "can be used to resync the graph state after something has gone    *)
(* bad" (CBaseFilter::Stop): a stopped filter is left with no error of the *)
(* run before.                                                             *)
StopResyncs == Idle /\ m_State = "Stopped" => ~m_bRunTimeError

(* Every call of the control thread returns, whatever the streaming thread *)
(* is doing: Stop gets m_csReceive although upstream and downstream have   *)
(* samples to pass on, and the other calls wait for no sample.             *)
CallsReturn == ~Idle ~> Idle

(* BeginFlush gets an old Receive back to the sender even if downstream    *)
(* is paused or keeps every sample; the sender needs that before it may    *)
(* call EndFlush.                                                          *)
FlushFreesReceive == pSample.old ~> ~pSample.old

(* What holds at every step: no sample is lost, a stopped filter is quiet, *)
(* a flush loses only what is older, skips are reported and the stream     *)
(* ends at most once.                                                      *)
TransformSafety ==
  /\ TransformTypeOK /\ SamplesAccounted /\ QuietWhenStopped
  /\ FlushLosesOnlyOldSamples /\ SkipIsReported /\ EosAtMostOnce

(* Nobody waits for ever: the control calls return, and a flush gets a     *)
(* Receive out of downstream.                                              *)
NobodyIsStuck == CallsReturn /\ FlushFreesReceive
=============================================================================
