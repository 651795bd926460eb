------------------------------- MODULE MC_Ends -------------------------------
(***************************************************************************)
(* The two ends of a filter graph for TLC: a behaviour is one of           *)
(* CMySourceFilter's own source ("own", the constants of SourceFilter), of *)
(* any filter derived from CSource ("any": two pins, failing hooks, a fill *)
(* function that may fail, a derived class that sends commands), or of a   *)
(* renderer ("renderer").  Between them is the input pin's Receive, which  *)
(* the source calls and which may take any time and give any answer, as    *)
(* Renderer shows.                                                         *)
(***************************************************************************)
EXTENDS SourceFilter

CONSTANTS MaxAdvises, RenderFaults   \* of the renderer

OwnFillResults == {"S_OK"}
OwnFaults == {"commit", "create"}

VARIABLES
  which,
  connected, rState, m_bFlushing, m_bRunTimeError, m_bAbort, m_bRepaintStatus,
  m_bStreaming, m_pMediaSample, m_bEOS, m_bEOSDelivered, m_EndOfStreamTimer,
  m_dwAdvise, m_RenderEvent, m_ThreadSignal, m_evComplete, m_bInReceive,
  committed, spc, rOp, rStep, advises, upstream, completes

rendererVars ==
  <<connected, rState, m_bFlushing, m_bRunTimeError, m_bAbort, m_bRepaintStatus,
    m_bStreaming, m_pMediaSample, m_bEOS, m_bEOSDelivered, m_EndOfStreamTimer,
    m_dwAdvise, m_RenderEvent, m_ThreadSignal, m_evComplete, m_bInReceive,
    committed, spc, rOp, rStep, advises, upstream, completes>>

Any == INSTANCE SourceFilter WITH
         NPins <- 2, NBuffers <- 1,
         FillResults <- {"S_OK", "S_FALSE", "E_FAIL"},
         Faults <- {"commit", "create", "init"},
         PinCalls <- {"CMD_INIT", "CMD_PAUSE", "CMD_RUN", "CMD_STOP"}, CountMod <- 2

Renders == INSTANCE Renderer WITH
             Faults <- RenderFaults, m_State <- rState, op <- rOp, step <- rStep

EndsVars == <<which, vars, rendererVars>>

EndsInit ==
  /\ which \in {"own", "any", "renderer"}
  /\ IF which = "any" THEN Any!Init ELSE Init
  /\ Renders!Init
  /\ which = "renderer" => m_Connected = {}
  /\ which # "renderer" => ~connected

EndsNext ==
  \/ which = "own" /\ Next /\ UNCHANGED <<which, rendererVars>>
  \/ which = "any" /\ Any!Next /\ UNCHANGED <<which, rendererVars>>
  \/ which = "renderer" /\ Renders!Next /\ UNCHANGED <<which, vars>>

(* The fairness of FairSpec for the own source, of GivingBackSpec for any  *)
(* other and of the renderer's FairSpec.                                   *)
EndsSpec ==
  /\ EndsInit /\ [][EndsNext]_EndsVars
  /\ WF_vars(which = "own" /\ AppStep)
  /\ WF_vars(which = "any" /\ Any!AppStep)
  /\ \A p \in Pins : WF_vars(which = "own" /\ WorkerStep(p))
  /\ \A p \in 1..2 : WF_vars(which = "any" /\ Any!WorkerStep(p))
  /\ \A p \in 1..2 : WF_vars(which = "any" /\ Any!DownstreamRelease(p))
  /\ WF_rendererVars(Renders!ControlStep) /\ SF_rendererVars(Renders!Stream)
  /\ WF_rendererVars(Renders!AdviseFires)
  /\ SF_rendererVars(Renders!TimerCallback /\ ~m_EndOfStreamTimer')

(* The own source is quiet when stopped, and an active source streams from *)
(* every pin, however often it was started and whichever start failed (see *)
(* SourceFilter); no sample is lost on either pin of any source.           *)
SourceSafety ==
  /\ which # "any" => TypeOK /\ StoppedIsQuiet /\ ActiveStreams
  /\ which = "any" => Any!TypeOK /\ Any!AllPathsReleaseTheSample /\ Any!ActiveStreams

(* Pause, Run and Stop return, of the own source also the destructor: the  *)
(* worker is never waited for while it waits for a sample that only        *)
(* downstream could give back.                                             *)
SourceCallsReturn ==
  /\ (which = "own" /\ step # "idle") ~> (step = "idle")
  /\ (which = "any" /\ step # "idle" /\ op # "Destroy") ~> (step = "idle")

(* Downstream of the own source receives every frame once and in order,    *)
(* across stops, errors and restarts, and none from a stopped filter.      *)
Frames == INSTANCE FrameSource WITH
            state <- IF op = "none" THEN m_State ELSE "Changing",
            last <- IF which = "own" THEN received ELSE [p \in Pins |-> -1]
OwnImplementsFrameSource == Frames!Spec

(* See Renderer: EC_COMPLETE comes once for a stream, and GetState says    *)
(* "intermediate" only while there is nothing to show.                     *)
RendererSafety == Renders!Safety

(* EC_COMPLETE does not overtake a sample: when it is sent, none is        *)
(* waiting to be rendered, errors apart.                                   *)
CompleteIsLast ==
  [][completes' > completes => ~m_pMediaSample' \/ m_bRunTimeError']_rendererVars

(* See Renderer: control calls return, the streaming thread gets out of    *)
(* Receive, and the end of a stream is announced.                          *)
RendererAnswers ==
  Renders!CallsReturn /\ Renders!ReceiveReturns /\ Renders!EndIsAnnounced
=============================================================================
