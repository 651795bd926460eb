------------------------------ MODULE Renderer ------------------------------
(***************************************************************************)
(* CBaseRenderer with its CRendererInputPin (renbase.cpp).  A control call *)
(* (Stop, Pause, Run, BeginFlush, EndFlush) holds m_InterfaceLock from its *)
(* beginning to its end, so one control thread stands for all.  The        *)
(* streaming thread takes that lock only in parts of Receive and waits for *)
(* the time of its sample without it; the end-of-stream timer's callback   *)
(* takes only m_RendererLock, and the clock signals an event.  These four  *)
(* meet in the flags below.                                                *)
(*                                                                         *)
(* External are the clock, the timer (killed synchronously, as             *)
(* CompatibleTimeSetEvent asks), upstream and the graph manager: it stops  *)
(* this filter before upstream, starts it before upstream, and does not    *)
(* start it in the middle of a flush (Pause and Run assert it).            *)
(***************************************************************************)
EXTENDS Naturals, FiniteSets

CONSTANTS MaxAdvises,   \* advises the clock has room for
          Faults        \* of "type" and "drop" may happen

VARIABLES
  connected, m_State, m_bFlushing, m_bRunTimeError, m_bAbort, m_bRepaintStatus,
  m_bStreaming, m_pMediaSample,
  m_bEOS, m_bEOSDelivered, m_EndOfStreamTimer,
  m_dwAdvise, m_RenderEvent, m_ThreadSignal, m_evComplete, m_bInReceive,
  committed,           \* the allocator of the connection is
  spc,                 \* where the streaming thread is in Receive
  op, step,            \* control call in progress, where it is
  advises,             \* cookies whose time has not come, in the clock
  upstream,            \* "stopped", "sending", or "ended": it has sent all
  completes            \* observer: EC_COMPLETEs since the stream began

filter == <<connected, m_State, m_bFlushing, m_bRunTimeError, committed>>
sample == <<m_bAbort, m_bRepaintStatus, m_bStreaming, m_pMediaSample>>
eos == <<m_bEOS, m_bEOSDelivered, m_EndOfStreamTimer, completes>>
clock == <<m_dwAdvise, advises>>
events == <<m_RenderEvent, m_ThreadSignal, m_evComplete>>
stream == <<spc, m_bInReceive>>
call == <<op, step>>
vars == <<filter, sample, eos, clock, events, stream, call, upstream>>

Cookies == 1 .. MaxAdvises

Init ==
  /\ connected \in BOOLEAN /\ m_State = "Stopped"
  /\ m_bFlushing = FALSE /\ m_bRunTimeError = FALSE /\ committed = FALSE
  /\ m_bAbort = FALSE /\ m_bRepaintStatus = TRUE
  /\ m_bStreaming = FALSE /\ m_pMediaSample = FALSE
  /\ m_bEOS = FALSE /\ m_bEOSDelivered = FALSE /\ m_EndOfStreamTimer = FALSE
  /\ m_dwAdvise = 0 /\ advises = {}
  /\ m_RenderEvent = FALSE /\ m_ThreadSignal = FALSE /\ m_evComplete = TRUE
  /\ spc = "idle" /\ m_bInReceive = FALSE
  /\ op = "none" /\ step = "idle" /\ upstream = "stopped" /\ completes = 0

(* m_InterfaceLock is free.  Only BeginFlush waits with m_RendererLock.    *)
Idle == op = "none"
RendererLockFree == ~(op = "BeginFlush" /\ step = "wait")
GoTo(call_, step_) == op' = call_ /\ step' = step_
Return == GoTo("none", "idle")

(***************************************************************************)
(* What the calls share                                                    *)
(***************************************************************************)

(* Mutants of SourceThreadCanWait: a waiting thread is not released, or    *)
(* the sample's turn is not told from the release.                         *)
ThreadNotReleased(canWait) == m_ThreadSignal' = (m_ThreadSignal /\ ~canWait)
SourceThreadCanWait(canWait) == m_ThreadSignal' = ~canWait

(* Unadvise and forget the event.                                          *)
CancelNotification ==
  m_dwAdvise' = 0 /\ advises' = advises \ {m_dwAdvise} /\ m_RenderEvent' = FALSE

(* The sample is due now, or when the clock says, or it is to be dropped:  *)
(* its end is before its start, or the clock has no room.                  *)
ScheduleNow == m_RenderEvent' = TRUE /\ UNCHANGED clock
ScheduleLater ==
  \E c \in Cookies \ advises : /\ m_dwAdvise' = c /\ advises' = advises \union {c}
                               /\ UNCHANGED m_RenderEvent
ScheduleNever ==
  ("drop" \in Faults \/ advises = Cookies) /\ UNCHANGED <<clock, m_RenderEvent>>

(* NotifyEndOfStream, unless the filter has stopped streaming.             *)
NotifyEndOfStream(streaming) ==
  /\ m_EndOfStreamTimer' = (m_EndOfStreamTimer /\ ~streaming)
  /\ m_bEOSDelivered' = (m_bEOSDelivered \/ streaming)
  /\ completes' = completes + (IF streaming THEN 1 ELSE 0)

(* Mutant: it is not looked whether it has been sent.                      *)
SendEndOfStreamAgain(ended, streaming, timer) ==
  IF ~ended \/ timer
  THEN UNCHANGED <<m_bEOSDelivered, completes>> /\ m_EndOfStreamTimer' = timer
  ELSE NotifyEndOfStream(streaming)

(* At once, if the end of the last sample is close or there is no clock or *)
(* no timer to be had, else the timer is set.                              *)
SendEndOfStream(ended, streaming, timer) ==
  IF ~ended \/ m_bEOSDelivered \/ timer
  THEN UNCHANGED <<m_bEOSDelivered, completes>> /\ m_EndOfStreamTimer' = timer
  ELSE \/ NotifyEndOfStream(streaming)
       \/ m_EndOfStreamTimer' = TRUE /\ UNCHANGED <<m_bEOSDelivered, completes>>

(* (The observer starts a new stream.)                                     *)
ResetEndOfStream ==
  /\ m_bEOS' = FALSE /\ m_bEOSDelivered' = FALSE /\ m_EndOfStreamTimer' = FALSE
  /\ completes' = 0

StopStreaming == m_bStreaming' = FALSE /\ m_bEOSDelivered' = FALSE

(* Mutant: the end of a stream without a sample is not looked at.          *)
StartWithoutEnd(waits) ==
  /\ m_bStreaming' = TRUE
  /\ IF waits THEN (ScheduleNow \/ ScheduleLater) /\ UNCHANGED eos
              ELSE UNCHANGED <<eos, clock, m_RenderEvent>>

(* A sample that waits is scheduled, or released at once if it cannot be;  *)
(* without one an end of stream may be due.                                *)
StartStreaming(waits) ==
  /\ m_bStreaming' = TRUE
  /\ IF waits
     THEN (ScheduleNow \/ ScheduleLater) /\ UNCHANGED eos
     ELSE /\ SendEndOfStream(m_bEOS, TRUE, m_EndOfStreamTimer)
          /\ UNCHANGED <<m_bEOS, clock, m_RenderEvent>>

SetRepaintStatus(repaint) == m_bRepaintStatus' = repaint

(* Mutant: the sample stays.                                               *)
FlushKeepsSample == UNCHANGED m_pMediaSample

ClearPendingSample == m_pMediaSample' = FALSE

Inactive == m_bRunTimeError' = FALSE /\ ClearPendingSample

(* GetState.                                                               *)
Intermediate == ~m_evComplete

(***************************************************************************)
(* Stop                                                                    *)
(***************************************************************************)
StopUnconnected ==
  /\ Idle /\ m_State # "Stopped" /\ ~connected
  /\ m_State' = "Stopped"
  /\ UNCHANGED <<connected, m_bFlushing, m_bRunTimeError, committed, sample, eos, clock,
                 events, stream, call, upstream>>

(* CBaseFilter::Stop makes the pin inactive, which clears the sample.      *)
Stop ==
  /\ Idle /\ m_State # "Stopped" /\ connected
  /\ m_State' = "Stopped" /\ committed' = FALSE
  /\ Inactive /\ SetRepaintStatus(TRUE)
  /\ StopStreaming /\ SourceThreadCanWait(FALSE)
  /\ GoTo("Stop", "reset")
  /\ UNCHANGED <<connected, m_bFlushing, m_bAbort, m_bEOS, m_EndOfStreamTimer, completes,
                 clock, m_RenderEvent, m_evComplete, stream, upstream>>

StopReset ==
  /\ op = "Stop" /\ step = "reset"
  /\ ResetEndOfStream /\ CancelNotification /\ m_evComplete' = TRUE
  /\ GoTo("Stop", "wait")
  /\ UNCHANGED <<filter, sample, m_ThreadSignal, stream, upstream>>

(* Mutant: the wait is for the whole of Receive, and not only until it     *)
(* needs the lock.                                                         *)
ReceiveReturned == spc = "idle"

(* WaitForReceiveToComplete.                                               *)
ReceiveCompleted == ~m_bInReceive

StopWait ==
  /\ op = "Stop" /\ step = "wait" /\ ReceiveCompleted
  /\ m_bAbort' = FALSE /\ Return
  /\ UNCHANGED <<filter, m_bRepaintStatus, m_bStreaming, m_pMediaSample, eos, clock, events,
                 stream, upstream>>

(***************************************************************************)
(* Pause and Run                                                           *)
(***************************************************************************)

(* Ready, if there is nothing to wait for.                                 *)
CompleteStateChange(oldState) ==
  m_evComplete' = (~connected \/ m_bEOS \/ (m_pMediaSample /\ oldState # "Stopped"))

PauseAgain ==
  /\ Idle /\ m_State = "Paused" /\ ~m_bFlushing /\ CompleteStateChange("Paused")
  /\ UNCHANGED <<filter, sample, eos, clock, m_RenderEvent, m_ThreadSignal, stream, call,
                 upstream>>

PauseUnconnected ==
  /\ Idle /\ m_State # "Paused" /\ ~connected
  /\ m_State' = "Paused" /\ m_evComplete' = TRUE
  /\ UNCHANGED <<connected, m_bFlushing, m_bRunTimeError, committed, sample, eos, clock,
                 m_RenderEvent, m_ThreadSignal, stream, call, upstream>>

(* The graph manager starts this filter when upstream has stopped.         *)
MayStart == m_State = "Stopped" => upstream = "stopped"

(* After a stop the sample kept to refresh the picture goes.               *)
ForgetStoppedSample ==
  IF m_State = "Stopped" THEN m_bAbort' = FALSE /\ m_pMediaSample' = FALSE
                         ELSE UNCHANGED <<m_bAbort, m_pMediaSample>>

Pause ==
  /\ Idle /\ m_State # "Paused" /\ connected /\ ~m_bFlushing /\ MayStart
  /\ m_State' = "Paused" /\ committed' = TRUE /\ SetRepaintStatus(TRUE)
  /\ StopStreaming /\ SourceThreadCanWait(TRUE) /\ CancelNotification
  /\ m_EndOfStreamTimer' = FALSE /\ completes' = 0
  /\ ForgetStoppedSample /\ CompleteStateChange(m_State)
  /\ UNCHANGED <<connected, m_bFlushing, m_bRunTimeError, m_bEOS, stream, call, upstream>>

(* EC_COMPLETE comes at once if there is nothing to render.                *)
RunUnconnected ==
  /\ Idle /\ m_State # "Running" /\ ~connected
  /\ m_State' = "Running"
  /\ UNCHANGED <<connected, m_bFlushing, m_bRunTimeError, committed, sample, eos, clock,
                 events, stream, call, upstream>>

Run ==
  /\ Idle /\ m_State # "Running" /\ connected /\ ~m_bFlushing /\ MayStart
  /\ m_State' = "Running" /\ committed' = TRUE /\ SetRepaintStatus(FALSE)
  /\ SourceThreadCanWait(TRUE) /\ m_evComplete' = TRUE
  /\ ForgetStoppedSample /\ StartStreaming(m_pMediaSample')
  /\ UNCHANGED <<connected, m_bFlushing, m_bRunTimeError, stream, call, upstream>>

(***************************************************************************)
(* Flush, connection                                                       *)
(***************************************************************************)

BeginFlush ==
  /\ Idle /\ connected /\ ~m_bFlushing
  /\ m_bFlushing' = TRUE /\ m_evComplete' = (m_evComplete /\ m_State # "Paused")
  /\ SourceThreadCanWait(FALSE) /\ CancelNotification /\ ClearPendingSample
  /\ GoTo("BeginFlush", "wait")
  /\ UNCHANGED <<connected, m_State, m_bRunTimeError, committed, m_bAbort, m_bRepaintStatus,
                 m_bStreaming, eos, stream, upstream>>

(* Then, with the renderer lock left to the timer, ResetEndOfStream.       *)
FlushWait ==
  /\ op = "BeginFlush" /\ step = "wait" /\ ReceiveCompleted
  /\ GoTo("BeginFlush", "reset")
  /\ UNCHANGED <<filter, sample, eos, clock, events, stream, upstream>>

FlushReset ==
  /\ op = "BeginFlush" /\ step = "reset" /\ ResetEndOfStream /\ Return
  /\ UNCHANGED <<filter, sample, clock, events, stream, upstream>>

(* Upstream calls it when its thread is out of Receive, and then sends     *)
(* what comes after the flush.                                             *)
EndFlush ==
  /\ Idle /\ m_bFlushing /\ spc = "idle"
  /\ m_bFlushing' = FALSE /\ m_bRunTimeError' = FALSE /\ SourceThreadCanWait(TRUE)
  /\ upstream' = (IF upstream = "ended" /\ m_State # "Stopped" THEN "sending" ELSE upstream)
  /\ UNCHANGED <<connected, m_State, committed, sample, eos, clock, m_RenderEvent,
                 m_evComplete, stream, call>>

CompleteConnect ==
  /\ Idle /\ ~connected /\ m_State = "Stopped" /\ upstream = "stopped"
  /\ connected' = TRUE /\ m_bAbort' = FALSE /\ SetRepaintStatus(TRUE)
  /\ UNCHANGED <<m_State, m_bFlushing, m_bRunTimeError, committed, m_bStreaming,
                 m_pMediaSample, eos, clock, events, stream, call, upstream>>

BreakConnect ==
  /\ Idle /\ connected /\ m_State = "Stopped" /\ upstream = "stopped" /\ ~m_bFlushing
  /\ connected' = FALSE /\ SetRepaintStatus(FALSE) /\ m_bAbort' = FALSE
  /\ ResetEndOfStream /\ ClearPendingSample
  /\ UNCHANGED <<m_State, m_bFlushing, m_bRunTimeError, committed, m_bStreaming, clock,
                 events, stream, call, upstream>>

(***************************************************************************)
(* The streaming thread                                                    *)
(***************************************************************************)
CheckStreaming == m_State # "Stopped" /\ ~m_bFlushing /\ ~m_bRunTimeError

(* Receive up to the end of PrepareReceive, under both locks.              *)
PrepareReceive ==
  /\ Idle /\ spc = "idle" /\ upstream = "sending"
  /\ \/ /\ ~CheckStreaming /\ spc' = "failed"
        /\ UNCHANGED <<m_bRunTimeError, sample, clock, m_RenderEvent, m_evComplete, m_bInReceive>>
     \/ /\ CheckStreaming /\ "type" \in Faults /\ spc' = "failed"
        /\ m_bRunTimeError' \in BOOLEAN
        /\ UNCHANGED <<sample, clock, m_RenderEvent, m_evComplete, m_bInReceive>>
     \/ /\ CheckStreaming /\ (m_pMediaSample \/ m_bEOS \/ m_bAbort)
        /\ spc' = "failed" /\ m_evComplete' = TRUE
        /\ UNCHANGED <<m_bRunTimeError, sample, clock, m_RenderEvent, m_bInReceive>>
     \/ /\ CheckStreaming /\ ~(m_pMediaSample \/ m_bEOS \/ m_bAbort)
        /\ m_bStreaming /\ ScheduleNever
        /\ UNCHANGED <<m_bRunTimeError, sample, m_evComplete, stream>>
     \/ /\ CheckStreaming /\ ~(m_pMediaSample \/ m_bEOS \/ m_bAbort)
        /\ IF m_bStreaming THEN ScheduleNow \/ ScheduleLater
                           ELSE UNCHANGED <<clock, m_RenderEvent>>
        /\ m_pMediaSample' = TRUE /\ m_bInReceive' = TRUE /\ spc' = "prepared"
        /\ m_bRepaintStatus' = (m_bRepaintStatus \/ ~m_bStreaming)
        /\ UNCHANGED <<m_bRunTimeError, m_bAbort, m_bStreaming, m_evComplete>>
  /\ UNCHANGED <<connected, m_State, m_bFlushing, committed, eos, m_ThreadSignal, call, upstream>>

(* CRendererInputPin::Receive, when the renderer's failed: reported unless *)
(* the filter is stopping, flushing or has aborted.                        *)
ReceiveFailed ==
  /\ Idle /\ spc = "failed"
  /\ IF m_State # "Stopped" /\ ~m_bFlushing /\ ~m_bAbort /\ ~m_bRunTimeError
     THEN /\ m_bRunTimeError' = TRUE
          /\ IF m_bStreaming /\ ~m_bEOSDelivered
             THEN NotifyEndOfStream(TRUE) /\ UNCHANGED m_bEOS
             ELSE UNCHANGED eos
     ELSE UNCHANGED <<m_bRunTimeError, eos>>
  /\ spc' = "idle" /\ upstream' \in {upstream, "ended"}
  /\ UNCHANGED <<connected, m_State, m_bFlushing, committed, sample, clock, events,
                 m_bInReceive, call>>

(* While paused the lock is given away for PrepareRender.                  *)
LookAtState ==
  /\ spc = "prepared"
  /\ IF m_State = "Paused" THEN spc' = "first" /\ m_bInReceive' = FALSE
                           ELSE spc' = "waiting" /\ UNCHANGED m_bInReceive
  /\ UNCHANGED <<filter, sample, eos, clock, events, call, upstream>>

ReceiveFirstSample ==
  /\ Idle /\ spc = "first"
  /\ IF m_State = "Stopped" THEN spc' = "idle" /\ UNCHANGED m_bInReceive
                            ELSE spc' = "ready" /\ m_bInReceive' = TRUE
  /\ UNCHANGED <<filter, sample, eos, clock, events, call, upstream>>

FirstSampleReady ==
  /\ spc = "ready" /\ spc' = "waiting" /\ m_evComplete' = TRUE
  /\ UNCHANGED <<filter, sample, eos, clock, m_RenderEvent, m_ThreadSignal, m_bInReceive,
                 call, upstream>>

(* WaitForRenderTime: of two signalled events the thread's counts.         *)
WaitReleased ==
  /\ spc = "waiting" /\ m_ThreadSignal
  /\ spc' = "idle" /\ m_bInReceive' = FALSE
  /\ UNCHANGED <<filter, sample, eos, clock, events, call, upstream>>

WaitForRenderTime ==
  /\ spc = "waiting" /\ ~m_ThreadSignal /\ m_RenderEvent
  /\ spc' = "fired" /\ m_RenderEvent' = FALSE
  /\ UNCHANGED <<filter, sample, eos, clock, m_ThreadSignal, m_evComplete, m_bInReceive,
                 call, upstream>>

(* Without a lock.                                                         *)
SignalTimerFired ==
  /\ spc = "fired" /\ m_dwAdvise' = 0
  /\ spc' = "render" /\ m_bInReceive' = FALSE
  /\ UNCHANGED <<filter, sample, eos, advises, events, call, upstream>>

(* The end of Receive, under both locks.                                   *)
Render ==
  /\ Idle /\ spc = "render" /\ spc' = "idle"
  /\ IF m_State = "Stopped"
     THEN UNCHANGED <<m_pMediaSample, eos, clock, m_RenderEvent>>
     ELSE /\ ClearPendingSample /\ CancelNotification
          /\ SendEndOfStream(m_bEOS, m_bStreaming, m_EndOfStreamTimer) /\ UNCHANGED m_bEOS
  /\ UNCHANGED <<filter, m_bAbort, m_bRepaintStatus, m_bStreaming, m_ThreadSignal,
                 m_evComplete, m_bInReceive, call, upstream>>

(* The announcement waits for the sample, and for Run.                     *)
EndOfStream ==
  /\ m_bEOS' = TRUE
  /\ m_evComplete' = (m_evComplete \/ ~m_pMediaSample)
  /\ IF ~m_pMediaSample /\ m_bStreaming
     THEN SendEndOfStream(TRUE, TRUE, m_EndOfStreamTimer)
     ELSE UNCHANGED <<m_bEOSDelivered, m_EndOfStreamTimer, completes>>

(* Upstream may announce its end again, or while its thread waits in       *)
(* Receive.                                                                *)
PinEndOfStream ==
  /\ Idle /\ upstream # "stopped" /\ upstream' = "ended"
  /\ IF CheckStreaming THEN EndOfStream ELSE UNCHANGED <<eos, m_evComplete>>
  /\ UNCHANGED <<filter, sample, clock, m_RenderEvent, m_ThreadSignal, stream, call>>

(***************************************************************************)
(* The timer, the window's thread, the clock, upstream                     *)
(***************************************************************************)
TimerCallback ==
  /\ m_EndOfStreamTimer /\ RendererLockFree
  /\ SendEndOfStream(m_bEOS, m_bStreaming, FALSE) /\ UNCHANGED m_bEOS
  /\ UNCHANGED <<filter, sample, clock, events, stream, call, upstream>>

SendRepaint ==
  /\ RendererLockFree /\ connected /\ ~m_bAbort /\ ~m_bFlushing /\ ~m_bEOS /\ m_bRepaintStatus
  /\ SetRepaintStatus(FALSE)
  /\ UNCHANGED <<filter, m_bAbort, m_bStreaming, m_pMediaSample, eos, clock, events, stream,
                 call, upstream>>

OnDisplayChange ==
  /\ RendererLockFree /\ connected /\ ~m_bAbort
  /\ m_bAbort' = TRUE /\ ClearPendingSample
  /\ UNCHANGED <<filter, m_bRepaintStatus, m_bStreaming, eos, clock, events, stream, call,
                 upstream>>

AdviseFires ==
  /\ \E c \in advises : advises' = advises \ {c}
  /\ m_RenderEvent' = TRUE
  /\ UNCHANGED <<filter, sample, eos, m_dwAdvise, m_ThreadSignal, m_evComplete, stream, call,
                 upstream>>

UpstreamStart ==
  /\ Idle /\ connected /\ m_State # "Stopped" /\ ~m_bFlushing /\ upstream = "stopped"
  /\ upstream' = "sending"
  /\ UNCHANGED <<filter, sample, eos, clock, events, stream, call>>

UpstreamStop ==
  /\ Idle /\ m_State = "Stopped" /\ spc = "idle" /\ upstream # "stopped"
  /\ upstream' = "stopped"
  /\ UNCHANGED <<filter, sample, eos, clock, events, stream, call>>

Control ==
  \/ StopUnconnected \/ Stop \/ PauseAgain \/ PauseUnconnected \/ Pause \/ RunUnconnected
  \/ Run \/ BeginFlush \/ EndFlush \/ CompleteConnect \/ BreakConnect

ControlStep == StopReset \/ StopWait \/ FlushWait \/ FlushReset

(* What goes on inside a Receive.                                          *)
Stream ==
  \/ ReceiveFailed \/ LookAtState \/ ReceiveFirstSample \/ FirstSampleReady \/ WaitReleased
  \/ WaitForRenderTime \/ SignalTimerFired \/ Render

Others ==
  \/ PrepareReceive \/ PinEndOfStream \/ SendRepaint \/ OnDisplayChange \/ AdviseFires
  \/ UpstreamStart \/ UpstreamStop \/ TimerCallback

Next == Control \/ ControlStep \/ Stream \/ Others

Spec == Init /\ [][Next]_vars

(* Threads that can run do; locks are given fairly to the streaming        *)
(* thread; time passes, so that advises fire and the timer in the end      *)
(* finds that the end of the stream has come.                              *)
FairSpec ==
  /\ Spec /\ WF_vars(ControlStep) /\ SF_vars(Stream) /\ WF_vars(AdviseFires)
  /\ SF_vars(TimerCallback /\ ~m_EndOfStreamTimer')

(***************************************************************************)
(* Correctness                                                             *)
(***************************************************************************)

(* The variables hold what their declarations say.                         *)
TypeOK ==
  /\ m_State \in {"Stopped", "Paused", "Running"}
  /\ {connected, m_bFlushing, m_bRunTimeError, m_bAbort, m_bRepaintStatus, m_bStreaming,
      m_pMediaSample, m_bEOS, m_bEOSDelivered, m_EndOfStreamTimer, m_RenderEvent,
      m_ThreadSignal, m_evComplete, m_bInReceive, committed} \subseteq BOOLEAN
  /\ spc \in {"idle", "failed", "prepared", "first", "ready", "waiting", "fired", "render"}
  /\ <<op, step>> \in {<<"none", "idle">>, <<"Stop", "reset">>, <<"Stop", "wait">>,
                       <<"BeginFlush", "wait">>, <<"BeginFlush", "reset">>}
  /\ m_dwAdvise \in Cookies \union {0} /\ advises \subseteq Cookies
  /\ upstream \in {"stopped", "sending", "ended"} /\ completes \in Nat

(* EC_COMPLETE comes once for a stream, whichever of EndOfStream, Run, the *)
(* last Receive, a failed Receive and the timer is first to see that it is *)
(* due, and however flushes and pauses come in between.                    *)
CompleteOnce == completes <= 1

(* EC_COMPLETE does not overtake a sample: when it is sent, none is        *)
(* waiting to be rendered, errors apart.                                   *)
CompleteIsLast ==
  [][completes' > completes => ~m_pMediaSample' \/ m_bRunTimeError']_vars

(* GetState's answer is intermediate only while a paused filter has        *)
(* nothing to show and may still get something.                            *)
IntermediateOnlyWithoutSample ==
  Idle /\ Intermediate =>
    /\ m_State = "Paused" /\ connected
    /\ m_bEOS \/ m_pMediaSample => spc \in {"prepared", "first", "ready"}

(* What holds between two steps.                                           *)
Safety == TypeOK /\ CompleteOnce /\ IntermediateOnlyWithoutSample

(* A filter that was flushed while paused is intermediate until the next   *)
(* sample (the comment before CBaseRenderer::GetState).                    *)
FlushedIsIntermediate ==
  Idle /\ m_State = "Paused" /\ m_bFlushing => Intermediate

(* The clock holds no advise that the renderer has forgotten: it would set *)
(* the event of a later sample.                                            *)
NoForgottenAdvise == advises \subseteq {m_dwAdvise}

(* Every control call returns: a Receive that it waits for needs no lock   *)
(* of it.                                                                  *)
CallsReturn == ~Idle ~> Idle

(* The streaming thread gets out of Receive when the filter is stopped or  *)
(* flushed or, while it runs, when the time of the sample has come; except *)
(* that a display change takes a paused filter's sample away, and Run then *)
(* has nothing to schedule for the thread that waits: the graph manager,   *)
(* told to, has to stop the graph.                                         *)
ReceiveReturns ==
  spc # "idle" ~> spc = "idle" \/ (m_State = "Paused" /\ ~m_bFlushing) \/ m_bAbort

(* A stream that has ended is announced, if the filter goes on running.    *)
EndIsAnnounced ==
  m_bEOS /\ m_bStreaming ~> completes > 0 \/ ~(m_bEOS /\ m_bStreaming)
=============================================================================
