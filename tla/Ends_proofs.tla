---------------------------- MODULE Ends_proofs ----------------------------
(***************************************************************************)
(* Proofs about the two ends of a graph.                                   *)
(* Renderer, for any room in the clock and any faults: EC_COMPLETE comes   *)
(* once and overtakes no sample, and GetState is "intermediate" only while *)
(* there is nothing to show.                                               *)
(* The sources of MC_Ends: the own one by what Source_proofs shows of any  *)
(* constants, the others by the same for theirs.                           *)
(***************************************************************************)
EXTENDS MC_Ends, Source_proofs

(***************************************************************************)
(* Renderer                                                                *)
(***************************************************************************)

(* Stop has begun and has not yet thrown away what was under way.          *)
Resetting == rOp = "Stop" /\ rStep = "reset"

(* EC_COMPLETE has been sent at most once since the stream began, and      *)
(* until a Stop begins to reset the renderer remembers it.                 *)
OnceInv ==
  /\ completes <= 1
  /\ completes # 0 => m_bEOSDelivered \/ Resetting
  /\ rOp = "Stop" => rState = "Stopped" /\ ~m_bStreaming

(* The timer runs only when the end has come and no sample waits.          *)
TimerInv == m_EndOfStreamTimer => m_bEOS /\ ~m_pMediaSample

(* Whose answer is "intermediate": a renderer that is paused and has       *)
(* nothing to show, or whose streaming thread is about to say it has.      *)
ShowInv ==
  ~m_evComplete =>
    \/ Resetting
    \/ /\ rState = "Paused" /\ connected
       /\ (rOp = "none" /\ (m_bEOS \/ m_pMediaSample)) => spc \in {"prepared", "first", "ready"}

(* BeginFlush has thrown the sample away, and no other comes meanwhile.    *)
FlushInv == rOp = "BeginFlush" => ~m_pMediaSample

RendererInv == Renders!TypeOK /\ OnceInv /\ TimerInv /\ ShowInv /\ FlushInv

-----------------------------------------------------------------------------
LEMMA RendererInitially == Renders!Init => RendererInv
<1> SUFFICES ASSUME Renders!Init PROVE RendererInv
    OBVIOUS
<1>1. Renders!TypeOK
    BY DEF Renders!Init, Renders!TypeOK
<1>2. OnceInv /\ TimerInv /\ ShowInv /\ FlushInv
    BY DEF Renders!Init, OnceInv, TimerInv, ShowInv, FlushInv
<1> QED
    BY <1>1, <1>2 DEF RendererInv

LEMMA RendererInvImpliesSafety == RendererInv => RendererSafety
  BY DEF RendererInv, OnceInv, ShowInv, Resetting, RendererSafety, Renders!Safety,
     Renders!CompleteOnce, Renders!IntermediateOnlyWithoutSample, Renders!Idle,
     Renders!Intermediate, Renders!TypeOK

(* What announces the end of a stream keeps the types.                     *)
LEMMA SendingKeepsTypes ==
  ASSUME Renders!TypeOK, NEW ended, NEW streaming \in BOOLEAN, NEW timer \in BOOLEAN,
         Renders!SendEndOfStream(ended, streaming, timer)
  PROVE  m_EndOfStreamTimer' \in BOOLEAN /\ m_bEOSDelivered' \in BOOLEAN /\ completes' \in Nat
<1>1. {m_EndOfStreamTimer, m_bEOSDelivered} \subseteq BOOLEAN /\ completes \in Nat
    BY DEF Renders!TypeOK
<1>2. CASE UNCHANGED <<m_bEOSDelivered, completes>> /\ m_EndOfStreamTimer' \in {timer, TRUE}
    BY <1>1, <1>2
<1>3. CASE Renders!NotifyEndOfStream(streaming)
    BY <1>1, <1>3 DEF Renders!NotifyEndOfStream
<1> QED
    BY <1>2, <1>3 DEF Renders!SendEndOfStream

LEMMA RendererTypesKept == ASSUME Renders!TypeOK, Renders!Next PROVE Renders!TypeOK'
<1> USE DEF Renders!TypeOK, Renders!Idle, Renders!GoTo, Renders!Return, Renders!Cookies,
        Renders!filter, Renders!sample, Renders!eos, Renders!clock, Renders!events, Renders!stream,
        Renders!call
<1>1. CASE Renders!Control
  <2> USE DEF Renders!SourceThreadCanWait, Renders!SetRepaintStatus, Renders!ClearPendingSample,
          Renders!CancelNotification, Renders!ResetEndOfStream, Renders!CompleteStateChange,
          Renders!StopStreaming, Renders!ForgetStoppedSample
  <2>1. CASE Renders!StopUnconnected \/ Renders!Stop \/ Renders!PauseAgain \/ Renders!RunUnconnected
    BY <2>1 DEF Renders!StopUnconnected, Renders!Stop, Renders!PauseAgain, Renders!RunUnconnected,
       Renders!Inactive
  <2>2. CASE Renders!PauseUnconnected
    <3>1. m_evComplete' \in BOOLEAN
      BY <2>2 DEF Renders!PauseUnconnected
    <3> QED
      BY <2>2, <3>1 DEF Renders!PauseUnconnected
  <2>3. CASE Renders!Pause
    BY <2>3, ZenonT(60) DEF Renders!Pause
  <2>4. CASE Renders!Run
    <3>1. /\ m_EndOfStreamTimer' \in BOOLEAN /\ m_bEOSDelivered' \in BOOLEAN /\ completes' \in Nat
          /\ m_bEOS' = m_bEOS
      <4>1. CASE Renders!SendEndOfStream(m_bEOS, TRUE, m_EndOfStreamTimer) /\ m_bEOS' = m_bEOS
        BY <4>1, SendingKeepsTypes
      <4>2. CASE UNCHANGED Renders!eos
        BY <4>2
      <4> QED
        BY <2>4, <4>1, <4>2 DEF Renders!Run, Renders!StartStreaming
    <3>2. {m_RenderEvent', m_bStreaming', m_ThreadSignal', m_evComplete'} \subseteq BOOLEAN
      BY <2>4 DEF Renders!Run, Renders!StartStreaming, Renders!ScheduleNow, Renders!ScheduleLater
    <3>3. m_dwAdvise' \in Renders!Cookies \union {0} /\ advises' \subseteq Renders!Cookies
      BY <2>4 DEF Renders!Run, Renders!StartStreaming, Renders!ScheduleNow, Renders!ScheduleLater
    <3> QED
      BY <2>4, <3>1, <3>2, <3>3, ZenonT(60) DEF Renders!Run
  <2>5. CASE Renders!BeginFlush \/ Renders!EndFlush
    BY <2>5 DEF Renders!BeginFlush, Renders!EndFlush
  <2>6. CASE Renders!CompleteConnect
    BY <2>6 DEF Renders!CompleteConnect
  <2>7. CASE Renders!BreakConnect
    BY <2>7 DEF Renders!BreakConnect
  <2> QED
    BY <1>1, <2>1, <2>2, <2>3, <2>4, <2>5, <2>6, <2>7 DEF Renders!Control
<1>2. CASE Renders!ControlStep
  <2>1. CASE Renders!StopReset
    BY <2>1 DEF Renders!StopReset, Renders!ResetEndOfStream, Renders!CancelNotification
  <2>2. CASE Renders!StopWait \/ Renders!FlushWait
    BY <2>2 DEF Renders!StopWait, Renders!FlushWait
  <2>3. CASE Renders!FlushReset
    BY <2>3 DEF Renders!FlushReset, Renders!ResetEndOfStream
  <2> QED
    BY <1>2, <2>1, <2>2, <2>3 DEF Renders!ControlStep
<1>3. CASE Renders!ReceiveFailed
  <2>1. /\ m_EndOfStreamTimer' \in BOOLEAN /\ m_bEOSDelivered' \in BOOLEAN /\ completes' \in Nat
        /\ m_bEOS' = m_bEOS
    BY <1>3 DEF Renders!ReceiveFailed, Renders!NotifyEndOfStream
  <2>2. m_bRunTimeError' \in BOOLEAN /\ spc' = "idle" /\ upstream' \in {upstream, "ended"}
    BY <1>3 DEF Renders!ReceiveFailed
  <2> QED
    BY <1>3, <2>1, <2>2 DEF Renders!ReceiveFailed
<1>4. CASE Renders!Render
  <2>1. m_EndOfStreamTimer' \in BOOLEAN /\ m_bEOSDelivered' \in BOOLEAN /\ completes' \in Nat
    BY <1>4, SendingKeepsTypes DEF Renders!Render
  <2> QED
    BY <1>4, <2>1, ZenonT(60)
       DEF Renders!Render, Renders!ClearPendingSample, Renders!CancelNotification
<1>5. CASE \/ Renders!LookAtState \/ Renders!ReceiveFirstSample \/ Renders!FirstSampleReady
           \/ Renders!WaitReleased \/ Renders!WaitForRenderTime \/ Renders!SignalTimerFired
  BY <1>5 DEF Renders!LookAtState, Renders!ReceiveFirstSample, Renders!FirstSampleReady,
     Renders!WaitReleased, Renders!WaitForRenderTime, Renders!SignalTimerFired
<1>6. CASE Renders!PrepareReceive
  BY <1>6, ZenonT(60) DEF Renders!PrepareReceive, Renders!ScheduleNow, Renders!ScheduleLater,
     Renders!ScheduleNever
<1>7. CASE Renders!PinEndOfStream
  <2>1. m_EndOfStreamTimer' \in BOOLEAN /\ m_bEOSDelivered' \in BOOLEAN /\ completes' \in Nat
    BY <1>7, SendingKeepsTypes DEF Renders!PinEndOfStream, Renders!EndOfStream
  <2>2. m_bEOS' \in BOOLEAN /\ m_evComplete' \in BOOLEAN
    BY <1>7 DEF Renders!PinEndOfStream, Renders!EndOfStream
  <2> QED
    BY <1>7, <2>1, <2>2 DEF Renders!PinEndOfStream
<1>8. CASE Renders!TimerCallback
  <2>1. m_EndOfStreamTimer' \in BOOLEAN /\ m_bEOSDelivered' \in BOOLEAN /\ completes' \in Nat
    BY <1>8, SendingKeepsTypes DEF Renders!TimerCallback
  <2> QED
    BY <1>8, <2>1 DEF Renders!TimerCallback
<1>9. CASE \/ Renders!SendRepaint \/ Renders!OnDisplayChange \/ Renders!AdviseFires
           \/ Renders!UpstreamStart \/ Renders!UpstreamStop
  BY <1>9 DEF Renders!SendRepaint, Renders!SetRepaintStatus, Renders!OnDisplayChange,
     Renders!ClearPendingSample, Renders!AdviseFires, Renders!UpstreamStart, Renders!UpstreamStop
<1> QED
  BY <1>1, <1>2, <1>3, <1>4, <1>5, <1>6, <1>7, <1>8, <1>9
     DEF Renders!Next, Renders!Stream, Renders!Others

(* An announcement is made once: only if none has been made and while the  *)
(* renderer streams, or in the failed Receive that looks itself.           *)
LEMMA OnceKept == ASSUME RendererInv, Renders!TypeOK', Renders!Next PROVE OnceInv'
<1> USE DEF RendererInv, Renders!TypeOK, OnceInv, Resetting, Renders!Idle, Renders!GoTo,
        Renders!Return, Renders!filter, Renders!sample, Renders!eos, Renders!call
<1>1. CASE UNCHANGED <<completes, m_bEOSDelivered, rOp, rStep, rState, m_bStreaming>>
  BY <1>1
<1>2. CASE Renders!Stop \/ Renders!StopReset
  <2>1. CASE Renders!Stop
    BY <2>1 DEF Renders!Stop, Renders!StopStreaming
  <2>2. CASE Renders!StopReset
    BY <2>2 DEF Renders!StopReset, Renders!ResetEndOfStream
  <2> QED
    BY <1>2, <2>1, <2>2
<1>3. CASE Renders!StopWait \/ Renders!FlushWait \/ Renders!FlushReset
  BY <1>3 DEF Renders!StopWait, Renders!FlushWait, Renders!FlushReset, Renders!ResetEndOfStream
<1>4. CASE \/ Renders!StopUnconnected \/ Renders!PauseUnconnected \/ Renders!RunUnconnected
           \/ Renders!BeginFlush
  BY <1>4 DEF Renders!StopUnconnected, Renders!PauseUnconnected, Renders!RunUnconnected,
     Renders!BeginFlush
<1>5. CASE Renders!Pause \/ Renders!BreakConnect
  <2>1. CASE Renders!Pause
    BY <2>1 DEF Renders!Pause, Renders!StopStreaming
  <2>2. CASE Renders!BreakConnect
    BY <2>2 DEF Renders!BreakConnect, Renders!ResetEndOfStream
  <2> QED
    BY <1>5, <2>1, <2>2
<1>6. CASE Renders!Run
  BY <1>6 DEF Renders!Run, Renders!StartStreaming, Renders!SendEndOfStream,
     Renders!NotifyEndOfStream
<1>7. CASE Renders!ReceiveFailed
  BY <1>7 DEF Renders!ReceiveFailed, Renders!NotifyEndOfStream
<1>8. CASE Renders!Render
  BY <1>8 DEF Renders!Render, Renders!SendEndOfStream, Renders!NotifyEndOfStream
<1>9. CASE Renders!PinEndOfStream
  BY <1>9 DEF Renders!PinEndOfStream, Renders!EndOfStream, Renders!SendEndOfStream,
     Renders!NotifyEndOfStream
<1>10. CASE Renders!TimerCallback
  BY <1>10 DEF Renders!TimerCallback, Renders!SendEndOfStream, Renders!NotifyEndOfStream
<1>11. CASE \/ Renders!PauseAgain \/ Renders!EndFlush \/ Renders!CompleteConnect
            \/ Renders!LookAtState \/ Renders!ReceiveFirstSample \/ Renders!FirstSampleReady
            \/ Renders!WaitReleased \/ Renders!WaitForRenderTime \/ Renders!SignalTimerFired
  BY <1>1, <1>11 DEF Renders!PauseAgain, Renders!EndFlush, Renders!CompleteConnect,
     Renders!LookAtState, Renders!ReceiveFirstSample, Renders!FirstSampleReady,
     Renders!WaitReleased, Renders!WaitForRenderTime, Renders!SignalTimerFired
<1>12. CASE \/ Renders!PrepareReceive \/ Renders!SendRepaint \/ Renders!OnDisplayChange
            \/ Renders!AdviseFires \/ Renders!UpstreamStart \/ Renders!UpstreamStop
  BY <1>1, <1>12 DEF Renders!PrepareReceive, Renders!SendRepaint, Renders!OnDisplayChange,
     Renders!AdviseFires, Renders!UpstreamStart, Renders!UpstreamStop
<1> QED
  BY <1>2, <1>3, <1>4, <1>5, <1>6, <1>7, <1>8, <1>9, <1>10, <1>11, <1>12
     DEF Renders!Next, Renders!Control, Renders!ControlStep, Renders!Stream, Renders!Others

(* The timer is set only where no sample waits, and PrepareReceive takes   *)
(* no sample after the end.                                                *)
LEMMA TimerKept == ASSUME RendererInv, Renders!TypeOK', Renders!Next PROVE TimerInv'
<1> USE DEF RendererInv, Renders!TypeOK, TimerInv, Renders!filter, Renders!sample, Renders!eos
<1>1. CASE UNCHANGED <<m_bEOS, m_EndOfStreamTimer>> /\ (m_pMediaSample' => m_pMediaSample)
  BY <1>1
<1>2. CASE ~m_EndOfStreamTimer'
  BY <1>2
<1>3. CASE Renders!StopReset \/ Renders!Pause \/ Renders!FlushReset \/ Renders!BreakConnect
  BY <1>2, <1>3 DEF Renders!StopReset, Renders!Pause, Renders!FlushReset, Renders!BreakConnect,
     Renders!ResetEndOfStream
<1>4. CASE Renders!Run
  BY <1>4 DEF Renders!Run, Renders!ForgetStoppedSample, Renders!StartStreaming,
     Renders!SendEndOfStream, Renders!NotifyEndOfStream
<1>5. CASE Renders!ReceiveFailed
  BY <1>5 DEF Renders!ReceiveFailed, Renders!NotifyEndOfStream
<1>6. CASE Renders!Render
  BY <1>6 DEF Renders!Render, Renders!ClearPendingSample, Renders!SendEndOfStream,
     Renders!NotifyEndOfStream
<1>7. CASE Renders!PinEndOfStream
  BY <1>7 DEF Renders!PinEndOfStream, Renders!EndOfStream, Renders!SendEndOfStream,
     Renders!NotifyEndOfStream
<1>8. CASE Renders!TimerCallback
  BY <1>8 DEF Renders!TimerCallback, Renders!SendEndOfStream, Renders!NotifyEndOfStream
<1>9. CASE Renders!PrepareReceive
  BY <1>9 DEF Renders!PrepareReceive
<1>10. CASE Renders!Stop \/ Renders!BeginFlush \/ Renders!OnDisplayChange
  BY <1>1, <1>10 DEF Renders!Stop, Renders!Inactive, Renders!BeginFlush, Renders!OnDisplayChange,
     Renders!ClearPendingSample
<1>11. CASE \/ Renders!StopUnconnected \/ Renders!PauseAgain \/ Renders!PauseUnconnected
            \/ Renders!RunUnconnected \/ Renders!EndFlush \/ Renders!CompleteConnect
            \/ Renders!StopWait \/ Renders!FlushWait
  BY <1>1, <1>11 DEF Renders!StopUnconnected, Renders!PauseAgain, Renders!PauseUnconnected,
     Renders!RunUnconnected, Renders!EndFlush, Renders!CompleteConnect, Renders!StopWait,
     Renders!FlushWait
<1>12. CASE \/ Renders!LookAtState \/ Renders!ReceiveFirstSample \/ Renders!FirstSampleReady
            \/ Renders!WaitReleased \/ Renders!WaitForRenderTime \/ Renders!SignalTimerFired
            \/ Renders!SendRepaint \/ Renders!AdviseFires \/ Renders!UpstreamStart
            \/ Renders!UpstreamStop
  BY <1>1, <1>12 DEF Renders!LookAtState, Renders!ReceiveFirstSample, Renders!FirstSampleReady,
     Renders!WaitReleased, Renders!WaitForRenderTime, Renders!SignalTimerFired,
     Renders!SendRepaint, Renders!AdviseFires, Renders!UpstreamStart, Renders!UpstreamStop
<1> QED
  BY <1>3, <1>4, <1>5, <1>6, <1>7, <1>8, <1>9, <1>10, <1>11, <1>12
     DEF Renders!Next, Renders!Control, Renders!ControlStep, Renders!Stream, Renders!Others

(* A renderer becomes intermediate in Pause and in a flush, and when it is *)
(* given something to show its streaming thread is on the way to say so.   *)
LEMMA ShowKept == ASSUME RendererInv, Renders!TypeOK', Renders!Next PROVE ShowInv'
<1> USE DEF RendererInv, Renders!TypeOK, OnceInv, ShowInv, FlushInv, Resetting, Renders!Idle,
        Renders!GoTo, Renders!Return, Renders!filter, Renders!sample, Renders!eos, Renders!call,
        Renders!events, Renders!stream
<1>1. CASE m_evComplete'
  BY <1>1
<1>2. CASE UNCHANGED <<m_evComplete, rState, connected, rOp, rStep, m_bEOS, spc>>
           /\ (m_pMediaSample' => m_pMediaSample)
  BY <1>2
<1>3. CASE \/ Renders!StopReset \/ Renders!PauseUnconnected \/ Renders!Run
           \/ Renders!FirstSampleReady
  BY <1>1, <1>3 DEF Renders!StopReset, Renders!PauseUnconnected, Renders!Run,
     Renders!FirstSampleReady
<1>4. CASE Renders!StopUnconnected \/ Renders!Stop \/ Renders!RunUnconnected \/ Renders!StopWait
  BY <1>4 DEF Renders!StopUnconnected, Renders!Stop, Renders!RunUnconnected, Renders!StopWait
<1>5. CASE Renders!PauseAgain
  BY <1>5 DEF Renders!PauseAgain, Renders!CompleteStateChange
<1>6. CASE Renders!Pause
  BY <1>6 DEF Renders!Pause, Renders!CompleteStateChange, Renders!ForgetStoppedSample
<1>7. CASE Renders!BeginFlush \/ Renders!FlushWait \/ Renders!FlushReset
  BY <1>7 DEF Renders!BeginFlush, Renders!FlushWait, Renders!FlushReset, Renders!ResetEndOfStream,
     Renders!ClearPendingSample
<1>8. CASE Renders!CompleteConnect \/ Renders!BreakConnect
  BY <1>8 DEF Renders!CompleteConnect, Renders!BreakConnect
<1>9. CASE Renders!PrepareReceive
  BY <1>9 DEF Renders!PrepareReceive
<1>10. CASE Renders!ReceiveFailed
  <2>1. m_bEOS' = m_bEOS
    BY <1>10 DEF Renders!ReceiveFailed
  <2> QED
    BY <1>10, <2>1 DEF Renders!ReceiveFailed
<1>11. CASE Renders!LookAtState \/ Renders!ReceiveFirstSample
  BY <1>11 DEF Renders!LookAtState, Renders!ReceiveFirstSample
<1>12. CASE Renders!WaitReleased \/ Renders!WaitForRenderTime \/ Renders!SignalTimerFired
  BY <1>12 DEF Renders!WaitReleased, Renders!WaitForRenderTime, Renders!SignalTimerFired
<1>13. CASE Renders!Render
  <2>1. m_bEOS' = m_bEOS /\ (m_pMediaSample' => m_pMediaSample)
    BY <1>13 DEF Renders!Render, Renders!ClearPendingSample
  <2> QED
    BY <1>13, <2>1 DEF Renders!Render
<1>14. CASE Renders!PinEndOfStream
  BY <1>14 DEF Renders!PinEndOfStream, Renders!EndOfStream
<1>15. CASE \/ Renders!EndFlush \/ Renders!TimerCallback \/ Renders!SendRepaint
            \/ Renders!OnDisplayChange \/ Renders!AdviseFires \/ Renders!UpstreamStart
            \/ Renders!UpstreamStop
  BY <1>2, <1>15 DEF Renders!EndFlush, Renders!TimerCallback, Renders!SendRepaint,
     Renders!OnDisplayChange, Renders!ClearPendingSample, Renders!AdviseFires,
     Renders!UpstreamStart, Renders!UpstreamStop
<1> QED
  BY <1>3, <1>4, <1>5, <1>6, <1>7, <1>8, <1>9, <1>10, <1>11, <1>12, <1>13, <1>14, <1>15
     DEF Renders!Next, Renders!Control, Renders!ControlStep, Renders!Stream, Renders!Others

(* Only PrepareReceive brings a sample, and it needs the interface lock.   *)
LEMMA FlushKept == ASSUME RendererInv, Renders!TypeOK', Renders!Next PROVE FlushInv'
<1> USE DEF RendererInv, Renders!TypeOK, FlushInv, Renders!Idle, Renders!GoTo, Renders!Return,
        Renders!sample, Renders!call, Renders!ClearPendingSample
<1>1. CASE Renders!PrepareReceive
  BY <1>1 DEF Renders!PrepareReceive
<1>2. CASE Renders!Control
  BY <1>2 DEF Renders!Control, Renders!StopUnconnected, Renders!Stop, Renders!PauseAgain,
     Renders!PauseUnconnected, Renders!Pause, Renders!RunUnconnected, Renders!Run,
     Renders!BeginFlush, Renders!EndFlush, Renders!CompleteConnect, Renders!BreakConnect
<1>3. CASE Renders!ControlStep
  BY <1>3 DEF Renders!ControlStep, Renders!StopReset, Renders!StopWait, Renders!FlushWait,
     Renders!FlushReset
<1>4. CASE Renders!Stream
  BY <1>4 DEF Renders!Stream, Renders!ReceiveFailed, Renders!LookAtState,
     Renders!ReceiveFirstSample, Renders!FirstSampleReady, Renders!WaitReleased,
     Renders!WaitForRenderTime, Renders!SignalTimerFired, Renders!Render
<1>5. CASE \/ Renders!PinEndOfStream \/ Renders!SendRepaint \/ Renders!OnDisplayChange
           \/ Renders!AdviseFires \/ Renders!UpstreamStart \/ Renders!UpstreamStop
           \/ Renders!TimerCallback
  BY <1>5 DEF Renders!PinEndOfStream, Renders!SendRepaint, Renders!OnDisplayChange,
     Renders!AdviseFires, Renders!UpstreamStart, Renders!UpstreamStop, Renders!TimerCallback
<1> QED
  BY <1>1, <1>2, <1>3, <1>4, <1>5 DEF Renders!Next, Renders!Others

(* Of a renderer's steps, those that announce the end find no sample, or   *)
(* have met an error.                                                      *)
LEMMA NoSampleIsOvertaken ==
  ASSUME RendererInv, RendererInv', Renders!Next, completes' > completes
  PROVE  ~m_pMediaSample' \/ m_bRunTimeError'
<1> USE DEF RendererInv, Renders!TypeOK, OnceInv, TimerInv, Renders!filter, Renders!sample,
        Renders!eos
<1>1. CASE completes' = completes \/ completes' = 0
  BY <1>1
<1>2. CASE Renders!Run
  <2>1. m_pMediaSample' => UNCHANGED completes
    BY <1>2 DEF Renders!Run, Renders!StartStreaming
  <2> QED
    BY <1>1, <2>1
<1>3. CASE Renders!ReceiveFailed
  <2>1. m_bRunTimeError' \/ UNCHANGED completes
    BY <1>3 DEF Renders!ReceiveFailed
  <2> QED
    BY <1>1, <2>1
<1>4. CASE Renders!Render
  BY <1>4 DEF Renders!Render, Renders!ClearPendingSample
<1>5. CASE Renders!PinEndOfStream
  <2>1. m_pMediaSample' = m_pMediaSample /\ (m_pMediaSample => UNCHANGED completes)
    BY <1>5 DEF Renders!PinEndOfStream, Renders!EndOfStream
  <2> QED
    BY <1>1, <2>1
<1>6. CASE Renders!TimerCallback
  BY <1>6 DEF Renders!TimerCallback
<1>7. CASE Renders!Control /\ ~Renders!Run
  BY <1>1, <1>7 DEF Renders!Control, Renders!StopUnconnected, Renders!Stop, Renders!PauseAgain,
     Renders!PauseUnconnected, Renders!Pause, Renders!RunUnconnected, Renders!BeginFlush,
     Renders!EndFlush, Renders!CompleteConnect, Renders!BreakConnect, Renders!ResetEndOfStream
<1>8. CASE Renders!ControlStep
  BY <1>1, <1>8 DEF Renders!ControlStep, Renders!StopReset, Renders!StopWait, Renders!FlushWait,
     Renders!FlushReset, Renders!ResetEndOfStream
<1>9. CASE \/ Renders!LookAtState \/ Renders!ReceiveFirstSample \/ Renders!FirstSampleReady
           \/ Renders!WaitReleased \/ Renders!WaitForRenderTime \/ Renders!SignalTimerFired
  BY <1>1, <1>9 DEF Renders!LookAtState, Renders!ReceiveFirstSample, Renders!FirstSampleReady,
     Renders!WaitReleased, Renders!WaitForRenderTime, Renders!SignalTimerFired
<1>10. CASE \/ Renders!PrepareReceive \/ Renders!SendRepaint \/ Renders!OnDisplayChange
            \/ Renders!AdviseFires \/ Renders!UpstreamStart \/ Renders!UpstreamStop
  BY <1>1, <1>10 DEF Renders!PrepareReceive, Renders!SendRepaint, Renders!OnDisplayChange,
     Renders!AdviseFires, Renders!UpstreamStart, Renders!UpstreamStop
<1> QED
  BY <1>2, <1>3, <1>4, <1>5, <1>6, <1>7, <1>8, <1>9, <1>10
     DEF Renders!Next, Renders!Stream, Renders!Others

LEMMA RendererKept == RendererInv /\ [EndsNext]_EndsVars => RendererInv'
<1> SUFFICES ASSUME RendererInv, [EndsNext]_EndsVars PROVE RendererInv'
  OBVIOUS
<1>1. CASE UNCHANGED rendererVars
  BY <1>1 DEF rendererVars, RendererInv, Renders!TypeOK, OnceInv, TimerInv, ShowInv, FlushInv,
     Resetting
<1>2. CASE Renders!Next
  BY <1>2, RendererTypesKept, OnceKept, TimerKept, ShowKept, FlushKept DEF RendererInv
<1> QED
  BY <1>1, <1>2 DEF EndsNext, EndsVars

(* However Stop, Pause, Run, flushes, the streaming thread, the timer and  *)
(* the window meet: EC_COMPLETE comes at most once for a stream, and       *)
(* GetState's answer is intermediate only while a paused renderer has      *)
(* nothing to show and may still get something.                            *)
THEOREM RendererIsSafe == EndsSpec => []RendererSafety
<1>1. EndsInit => RendererInv
  BY RendererInitially DEF EndsInit
<1> QED
  BY <1>1, RendererKept, RendererInvImpliesSafety, PTL DEF EndsSpec

(* EC_COMPLETE does not overtake a sample: whichever thread sends it, no   *)
(* sample waits to be rendered then, errors apart.                         *)
THEOREM NothingIsOvertaken == EndsSpec => CompleteIsLast
<1>1. EndsInit => RendererInv
  BY RendererInitially DEF EndsInit
<1>2. ASSUME RendererInv, RendererInv', [EndsNext]_EndsVars
      PROVE  [completes' > completes => ~m_pMediaSample' \/ m_bRunTimeError']_rendererVars
  <2>1. CASE UNCHANGED rendererVars
    BY <2>1
  <2>2. CASE Renders!Next
    BY <1>2, <2>2, NoSampleIsOvertaken
  <2> QED
    BY <1>2, <2>1, <2>2 DEF EndsNext, EndsVars
<1> QED
  BY <1>1, <1>2, RendererKept, PTL DEF EndsSpec, CompleteIsLast

(***************************************************************************)
(* The source among the ends                                               *)
(***************************************************************************)

(* Where no other source lives, the own one behaves as specified.          *)
LEMMA OwnBehaves == EndsSpec /\ ~(which = "any") => Spec
<1>1. EndsInit /\ ~(which = "any") => Init
  BY DEF EndsInit
<1>2. ~(which = "any") /\ [EndsNext]_EndsVars => [Next]_vars /\ ~(which = "any")'
  BY DEF EndsNext, EndsVars
<1> QED
  BY <1>1, <1>2, PTL DEF EndsSpec, Spec

(* Of any other source it matters only when it says which state.           *)
States == {"Stopped", "Paused", "Running"}
AnyInv == m_State \in States /\ (op = "none" => step = "idle")

LEMMA AnyStepMaps ==
  ASSUME AnyInv, Any!Next
  PROVE  /\ AnyInv'
         /\ \/ op = "none" /\ op' # "none"
            \/ op # "none" /\ op' = "none"
            \/ op = "none" /\ op' = "none" /\ {m_State, m_State'} \subseteq {"Paused", "Running"}
            \/ op # "none" /\ op' # "none"
            \/ UNCHANGED <<op, m_State>>
<1> USE DEF AnyInv, States
<1>1. CASE Any!AppCall
  BY <1>1 DEF Any!AppCall, Any!Pause, Any!Run, Any!Stop, Any!Destroy, Any!PinCall, Any!Begin,
     Any!SetState, Any!Idle
<1>2. CASE Any!AppStep
  <2> USE DEF Any!NextPin, Any!Target, Any!FirstStep, Any!CallDone, Any!ReturnFailure
  <2>1. step # "idle" /\ op # "none"
    BY <1>2 DEF Any!AppStep, Any!SkipPin, Any!ActiveCommit, Any!ActiveCreate,
       Any!InactiveDecommit, Any!Close, Any!Send, Any!Answered
  <2>2. CASE Any!SkipPin \/ Any!ActiveCommit \/ Any!ActiveCreate
    BY <2>1, <2>2 DEF Any!SkipPin, Any!ActiveCommit, Any!ActiveCreate
  <2>3. CASE Any!InactiveDecommit \/ Any!Close \/ Any!Send
    BY <2>1, <2>3 DEF Any!InactiveDecommit, Any!DecommitThenStop, Any!Close, Any!Send
  <2>4. CASE Any!Answered
    BY <2>1, <2>4 DEF Any!Answered, Any!AfterAnswer
  <2> QED
    BY <1>2, <2>2, <2>3, <2>4 DEF Any!AppStep
<1>3. CASE Any!Terminated
  BY <1>3 DEF Any!Terminated, Any!vars, Any!appState
<1>4. ASSUME NEW p \in Any!Pins, Any!WorkerStep(p) \/ Any!DownstreamRelease(p)
      PROVE  UNCHANGED <<op, m_State, step>>
  BY <1>4 DEF Any!WorkerStep, Any!DownstreamRelease, Any!ExpectInit, Any!GetRequest,
     Any!ExitThread, Any!CheckRequest, Any!GetBuffer, Any!FillBuffer, Any!DeliverEndOfStream,
     Any!Deliver, Any!workerFrame, Any!loopFrame, Any!appState
<1> QED
  BY <1>1, <1>2, <1>3, <1>4 DEF Any!Next

(* Which source lives is settled at the beginning.                         *)
LEMMA OwnInvariance ==
  ASSUME StartsAllOrNothing
  PROVE  EndsSpec => [](~(which = "any") => TypeOK /\ PoolInv /\ StreamInv /\ QuietInv)
<1>1. Spec => [](TypeOK /\ PoolInv /\ StreamInv /\ QuietInv)
  BY StreamInvariance, QuietInvariance, PTL
<1>2. [EndsNext]_EndsVars => (which' = which)
  BY DEF EndsNext, EndsVars
<1>3. which = "any" /\ [EndsNext]_EndsVars => (which = "any")'
  BY <1>2
<1> QED
  BY <1>1, <1>3, OwnBehaves, PTL DEF EndsSpec

LEMMA AnyInvariance == EndsSpec => [](which = "any" => AnyInv)
<1>1. EndsInit => (which = "any" => AnyInv)
  BY DEF EndsInit, Any!Init, AnyInv, States
<1>2. (which = "any" => AnyInv) /\ [EndsNext]_EndsVars => (which = "any" => AnyInv)'
  <2> SUFFICES ASSUME which = "any" => AnyInv, [EndsNext]_EndsVars, which' = "any"
               PROVE  AnyInv'
    OBVIOUS
  <2>1. CASE UNCHANGED vars
    BY <2>1 DEF vars, appState, AnyInv, EndsNext, EndsVars
  <2>2. CASE Any!Next
    BY <2>2, AnyStepMaps DEF EndsNext, EndsVars
  <2> QED
    BY <2>1, <2>2 DEF EndsNext, EndsVars
<1> QED
  BY <1>1, <1>2, PTL DEF EndsSpec

(* A step of the own source is one of FrameSource, by what was shown above.*)
LEMMA OwnStepMaps ==
  ASSUME TypeOK, TypeOK', PoolInv, StreamInv, QuietInv, which = "own", which' = "own", Next
  PROVE  [Frames!Next]_(Frames!sourceVars)
<1>1. Source!ChangeState \/ (\E p \in Pins : Source!DeliverFrame(p)) \/ UNCHANGED Source!sourceVars
  <2>1. CASE Terminated
    BY <2>1 DEF Terminated, vars, appState, workState, frames, Source!sourceVars
  <2> QED
    BY <2>1, AppStepMaps, WorkerStepMaps DEF Next
<1>2. CASE Source!ChangeState
  BY <1>2 DEF Source!ChangeState, Frames!ChangeState, Frames!Next
<1>3. ASSUME NEW p \in Pins, Source!DeliverFrame(p) PROVE Frames!Next
  BY <1>3 DEF Source!DeliverFrame, Frames!DeliverFrame, Frames!Next
<1>4. CASE UNCHANGED Source!sourceVars
  BY <1>4 DEF Source!sourceVars, Frames!sourceVars
<1> QED
  BY <1>1, <1>2, <1>3, <1>4

(* Downstream of the own source receives every frame once and in order,    *)
(* and none from a stopped filter, in a graph with any renderer: the own   *)
(* source implements FrameSource.                                          *)
THEOREM OwnIsFrameSource == StartsAllOrNothing => (EndsSpec => OwnImplementsFrameSource)
<1> SUFFICES ASSUME StartsAllOrNothing PROVE EndsSpec => OwnImplementsFrameSource
  OBVIOUS
<1> DEFINE OwnInv == ~(which = "any") => TypeOK /\ PoolInv /\ StreamInv /\ QuietInv
           OtherInv == which = "any" => AnyInv
<1>1. EndsInit => Frames!Init
  BY DEF EndsInit, Init, Any!Init, Frames!Init
<1>2. OwnInv /\ OwnInv' /\ OtherInv /\ [EndsNext]_EndsVars => [Frames!Next]_(Frames!sourceVars)
  <2> SUFFICES ASSUME OwnInv, OwnInv', OtherInv, [EndsNext]_EndsVars
               PROVE  [Frames!Next]_(Frames!sourceVars)
    OBVIOUS
  <2>1. which' = which
    BY DEF EndsNext, EndsVars
  <2>2. CASE UNCHANGED vars
    BY <2>1, <2>2 DEF vars, appState, workState, frames, Frames!sourceVars
  <2>3. CASE which = "own" /\ Next
    BY <2>1, <2>3, OwnStepMaps
  <2>4. CASE which = "any" /\ Any!Next
    <3>1. /\ AnyInv /\ AnyInv'
          /\ \/ op = "none" /\ op' # "none"
             \/ op # "none" /\ op' = "none"
             \/ op = "none" /\ op' = "none" /\ {m_State, m_State'} \subseteq {"Paused", "Running"}
             \/ op # "none" /\ op' # "none"
             \/ UNCHANGED <<op, m_State>>
      BY <2>4, AnyStepMaps
    <3>2. {m_State, m_State'} \subseteq States
      BY <3>1 DEF AnyInv
    <3> QED
      BY <2>1, <2>4, <3>1, <3>2 DEF States, Frames!Next, Frames!ChangeState, Frames!sourceVars
  <2> QED
    BY <2>2, <2>3, <2>4 DEF EndsNext, EndsVars
<1> QED
  BY <1>1, <1>2, OwnInvariance, AnyInvariance, PTL DEF EndsSpec, OwnImplementsFrameSource, Frames!Spec

(* What Source_proofs shows of every source, for the constants of Any.     *)
Others == INSTANCE Source_proofs WITH
            NPins <- 2, NBuffers <- 1,
            FillResults <- {"S_OK", "S_FALSE", "E_FAIL"},
            Faults <- {"commit", "create", "init"},
            PinCalls <- {"CMD_INIT", "CMD_PAUSE", "CMD_RUN", "CMD_STOP"}, CountMod <- 2

(* They satisfy what SourceFilter assumes of its constants.                *)
LEMMA OthersAreSources ==
  /\ 2 \in Nat \ {0} /\ 1 \in Nat \ {0}
  /\ {"S_OK", "S_FALSE", "E_FAIL"} \subseteq {"S_OK", "S_FALSE", "E_FAIL"}
  /\ {"commit", "create", "init"} \subseteq {"commit", "create", "init"}
  /\ {"CMD_INIT", "CMD_PAUSE", "CMD_RUN", "CMD_STOP"}
        \subseteq {"CMD_INIT", "CMD_PAUSE", "CMD_RUN", "CMD_STOP"}
OBVIOUS

(* Any and Others are the same source, action by action.                   *)
LEMMA OthersBegin == Any!Init => Others!Init
BY DEF Any!Init, Others!Init, Any!Pins, Others!Pins, Any!NoCommand, Others!NoCommand

LEMMA OthersCall == Any!AppCall => Others!AppCall
<1> USE DEF Any!NextPin, Others!NextPin, Any!frames, Others!frames, Any!poolState,
        Others!poolState, Any!callState, Others!callState, Any!LastPin, Others!LastPin,
        Any!FirstStep, Others!FirstStep, Any!Target, Others!Target, Any!Idle, Others!Idle,
        Any!workState, Others!workState, Any!CallDone, Others!CallDone, Any!ReturnFailure,
        Others!ReturnFailure, Any!Pins, Others!Pins, Any!NoCommand, Others!NoCommand, Any!Begin,
        Others!Begin, Any!SetState, Others!SetState
<1>1. Any!Pause => Others!Pause
  BY DEF Any!Pause, Others!Pause
<1>2. Any!Run => Others!Run
  BY DEF Any!Run, Others!Run
<1>3. Any!Stop => Others!Stop
  BY DEF Any!Stop, Others!Stop
<1>4. Any!Destroy => Others!Destroy
  BY DEF Any!Destroy, Others!Destroy
<1>5. \A p, com : Any!PinCall(p, com) => Others!PinCall(p, com)
  BY DEF Any!PinCall, Others!PinCall
<1> QED
  BY <1>1, <1>2, <1>3, <1>4, <1>5 DEF Any!AppCall, Others!AppCall

LEMMA OthersGoOn == Any!AppStep => Others!AppStep
<1> USE DEF Any!NextPin, Others!NextPin, Any!frames, Others!frames, Any!poolState,
        Others!poolState, Any!callState, Others!callState, Any!LastPin, Others!LastPin,
        Any!FirstStep, Others!FirstStep, Any!Target, Others!Target, Any!Idle, Others!Idle,
        Any!workState, Others!workState, Any!CallDone, Others!CallDone, Any!ReturnFailure,
        Others!ReturnFailure, Any!Pins, Others!Pins, Any!NoCommand, Others!NoCommand
<1>1. Any!SkipPin => Others!SkipPin
  BY DEF Any!SkipPin, Others!SkipPin
<1>2. Any!ActiveCommit => Others!ActiveCommit
  BY DEF Any!ActiveCommit, Others!ActiveCommit
<1>3. Any!ActiveCreate => Others!ActiveCreate
  BY DEF Any!ActiveCreate, Others!ActiveCreate
<1>4. Any!InactiveDecommit => Others!InactiveDecommit
  BY DEF Any!InactiveDecommit, Others!InactiveDecommit, Any!DecommitThenStop,
     Others!DecommitThenStop
<1>5. Any!Close => Others!Close
  BY DEF Any!Close, Others!Close
<1>6. Any!Send => Others!Send
  BY DEF Any!Send, Others!Send
<1>7. Any!Answered => Others!Answered
  BY DEF Any!Answered, Others!Answered, Any!AfterAnswer, Others!AfterAnswer
<1> QED
  BY <1>1, <1>2, <1>3, <1>4, <1>5, <1>6, <1>7 DEF Any!AppStep, Others!AppStep

LEMMA OthersWork ==
  \A p : Any!WorkerStep(p) \/ Any!DownstreamRelease(p)
         => Others!WorkerStep(p) \/ Others!DownstreamRelease(p)
<1> SUFFICES ASSUME NEW p
             PROVE  Any!WorkerStep(p) \/ Any!DownstreamRelease(p)
                      => Others!WorkerStep(p) \/ Others!DownstreamRelease(p)
  OBVIOUS
<1> USE DEF Any!frames, Others!frames, Any!poolState, Others!poolState, Any!callState,
        Others!callState, Any!workState, Others!workState, Any!appState, Others!appState,
        Any!workerFrame, Others!workerFrame, Any!loopFrame, Others!loopFrame, Any!WorkerGoTo,
        Others!WorkerGoTo, Any!Asked, Others!Asked, Any!Reply, Others!Reply
<1>1. Any!ExpectInit(p) => Others!ExpectInit(p)
  BY DEF Any!ExpectInit, Others!ExpectInit
<1>2. Any!GetRequest(p) => Others!GetRequest(p)
  BY DEF Any!GetRequest, Others!GetRequest
<1>3. Any!ExitThread(p) => Others!ExitThread(p)
  BY DEF Any!ExitThread, Others!ExitThread
<1>4. Any!CheckRequest(p) => Others!CheckRequest(p)
  BY DEF Any!CheckRequest, Others!CheckRequest, Any!ReplyInLoop, Others!ReplyInLoop
<1>5. Any!GetBuffer(p) => Others!GetBuffer(p)
  BY DEF Any!GetBuffer, Others!GetBuffer
<1>6. Any!FillBuffer(p) => Others!FillBuffer(p)
  BY DEF Any!FillBuffer, Others!FillBuffer, Any!FillFrame, Others!FillFrame, Any!ReleaseSample,
     Others!ReleaseSample
<1>7. Any!DeliverEndOfStream(p) => Others!DeliverEndOfStream(p)
  BY DEF Any!DeliverEndOfStream, Others!DeliverEndOfStream
<1>8. Any!Deliver(p) => Others!Deliver(p)
  BY DEF Any!Deliver, Others!Deliver, Any!ReleaseDelivered, Others!ReleaseDelivered
<1>9. Any!DownstreamRelease(p) => Others!DownstreamRelease(p)
  BY DEF Any!DownstreamRelease, Others!DownstreamRelease
<1> QED
  BY <1>1, <1>2, <1>3, <1>4, <1>5, <1>6, <1>7, <1>8, <1>9 DEF Any!WorkerStep, Others!WorkerStep

(* Where another source lives, it behaves as specified.                    *)
LEMMA OthersBehave == EndsSpec /\ which = "any" => Others!Spec
<1>1. EndsInit /\ which = "any" => Others!Init
  BY OthersBegin DEF EndsInit
<1>2. Any!Next => Others!Next
  <2>1. Any!Terminated => Others!Terminated
    BY DEF Any!Terminated, Others!Terminated, Any!vars, Others!vars, Any!appState,
       Others!appState, Any!callState, Others!callState, Any!poolState, Others!poolState,
       Any!frames, Others!frames, Any!workState, Others!workState
  <2> QED
    BY <2>1, OthersCall, OthersGoOn, OthersWork DEF Any!Next, Others!Next, Any!Pins, Others!Pins
<1>3. UNCHANGED vars => UNCHANGED Others!vars
  BY DEF vars, appState, callState, poolState, frames, workState, Others!vars, Others!appState,
     Others!callState, Others!poolState, Others!frames, Others!workState
<1>4. which = "any" /\ [EndsNext]_EndsVars => [Others!Next]_(Others!vars) /\ (which = "any")'
  BY <1>2, <1>3 DEF EndsNext, EndsVars
<1> QED
  BY <1>1, <1>4, PTL DEF EndsSpec, Others!Spec

LEMMA OthersSafety ==
  /\ Others!TypeOK => Any!TypeOK
  /\ Others!AllPathsReleaseTheSample => Any!AllPathsReleaseTheSample
  /\ Others!ActiveStreams => Any!ActiveStreams
BY DEF Any!TypeOK, Others!TypeOK, Any!AppTypeOK, Others!AppTypeOK, Any!PinTypeOK,
   Others!PinTypeOK, Any!CallTypeOK, Others!CallTypeOK, Any!AllPathsReleaseTheSample,
   Others!AllPathsReleaseTheSample, Any!ActiveStreams, Others!ActiveStreams, Any!HasSample,
   Others!HasSample, Any!Idle, Others!Idle, Any!Pins, Others!Pins, Any!Commands, Others!Commands,
   Any!NoCommand, Others!NoCommand, Any!Results, Others!Results

(* However often any source is started, whichever start fails and whatever *)
(* downstream does: every variable has its type, an active source streams  *)
(* from every connected pin, no sample is lost by any source, and the own  *)
(* source, whose start fails before there is a thread or not at all, has   *)
(* no thread when it is stopped.                                           *)
THEOREM SourcesAreSafe == StartsAllOrNothing => (EndsSpec => []SourceSafety)
<1> SUFFICES ASSUME StartsAllOrNothing PROVE EndsSpec => []SourceSafety
  OBVIOUS
<1>1. Spec => [](TypeOK /\ StoppedIsQuiet /\ ActiveStreams)
  BY TypeCorrect, StopIsQuiet, ActiveFilterStreams, PTL
<1>2. Others!Spec => [](Any!TypeOK /\ Any!AllPathsReleaseTheSample /\ Any!ActiveStreams)
  <2>1. Others!Spec => []Others!TypeOK
    BY Others!TypeCorrect
  <2>2. Others!Spec => []Others!AllPathsReleaseTheSample
    BY Others!SamplesAlwaysReleased
  <2>3. Others!Spec => []Others!ActiveStreams
    BY Others!ActiveFilterStreams
  <2> QED
    BY <2>1, <2>2, <2>3, OthersSafety, PTL
<1>3. /\ which = "any" /\ [EndsNext]_EndsVars => (which = "any")'
      /\ ~(which = "any") /\ [EndsNext]_EndsVars => ~(which = "any")'
  BY DEF EndsNext, EndsVars
<1>4. /\ which = "any" /\ Any!TypeOK /\ Any!AllPathsReleaseTheSample /\ Any!ActiveStreams
         => SourceSafety
      /\ ~(which = "any") /\ TypeOK /\ StoppedIsQuiet /\ ActiveStreams => SourceSafety
  BY DEF SourceSafety
<1> QED
  BY <1>1, <1>2, <1>3, <1>4, OwnBehaves, OthersBehave, PTL DEF EndsSpec
=============================================================================
