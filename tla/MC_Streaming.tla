---------------------------- MODULE MC_Streaming ----------------------------
(***************************************************************************)
(* The threads that carry a stream and what they meet, side by side: a     *)
(* behaviour is one of a CAMThread and its clients, of a pull pin or of a  *)
(* stream control.                                                         *)
(***************************************************************************)
EXTENDS AMThread, Naturals

CONSTANTS Duration, Align, cBuffers, Times, Length, MaxSamples, MaxNow, MaxCommands,
          Ranges, Refuses

OneRange == {<<1, 2>>}   \* begins off the alignment; the whole file ends off it

ASSUME StreamingAssumption ==
  /\ Duration \in Nat /\ Align \in Nat \ {0} /\ cBuffers \in Nat \ {0}
  /\ Ranges \subseteq Nat \X Nat
  /\ Length \in Nat \ {0} /\ MaxSamples \in Nat /\ MaxCommands \in Nat
  /\ MaxNow \in Nat /\ Times \subseteq 0 .. MaxNow /\ Length * MaxSamples <= MaxNow

VARIABLES
  which,
  m_bSync, connected, m_State, m_tStart, m_tStop, threadExists, committed, op,
  step, isActive, refused, call, flushing, requests, free, kept, downFlushing, pc, todo,
  tStart, tCurrent, tAlignStop, tStop, bDiscontinuity, pSample, round,
  result, delivered, ended,
  m_StreamState, m_StreamStateOnStop, m_tStartTime, m_tStopTime,
  m_dwStartCookie, m_dwStopCookie, m_bIsFlushing, m_bStopSendExtra,
  m_bStopExtraSent, m_StreamEvent, m_FilterState, m_pRefClock, at, sample,
  waitUntil, now, commands, notified, dropped, stopped

pullVars == <<m_bSync, connected, m_State, m_tStart, m_tStop, threadExists,
             committed, op, step, isActive, refused, call, flushing, requests, free, kept,
             downFlushing, pc, todo, tStart, tCurrent, tAlignStop, tStop,
             bDiscontinuity, pSample, round, result, delivered, ended>>
controlVars == <<m_StreamState, m_StreamStateOnStop, m_tStartTime,
                m_tStopTime, m_dwStartCookie, m_dwStopCookie,
                m_bIsFlushing, m_bStopSendExtra, m_bStopExtraSent,
                m_StreamEvent, m_FilterState, m_pRefClock, at, sample,
                waitUntil, now, commands, notified, dropped, stopped>>
allVars == <<which, vars, pullVars, controlVars>>

P == INSTANCE PullPin
S == INSTANCE StreamControl

Threads == which = "thread"
Pulls == which = "pull"
Controls == which = "control"

StreamingInit ==
  /\ which \in {"thread", "pull", "control"} /\ Init /\ P!Init /\ S!Init
  /\ (~Controls => ~m_bStopExtraSent) /\ (~Pulls => ~m_bSync)

ButThread == UNCHANGED <<which, pullVars, controlVars>>
ButPull == UNCHANGED <<which, vars, controlVars>>
ButControl == UNCHANGED <<which, vars, pullVars>>

Pull == Pulls /\ P!PullNext /\ ButPull
Control == Controls /\ S!ControlNext /\ ButControl

StreamingNext == (Threads /\ Next /\ ButThread) \/ Pull \/ Control

StreamingSpec ==
  /\ StreamingInit /\ [][StreamingNext]_allVars
  /\ \A c \in Clients : WF_vars(Threads /\ InCall(c))
  /\ \A w \in Workers : /\ WF_vars(Threads /\ WorkerStep(w))
                        /\ SF_vars(Threads /\ SetReturnVal(w))
  /\ WF_pullVars(Pulls /\ P!Caller)
  /\ WF_pullVars(Pulls /\ P!Worker)
  /\ WF_pullVars(Pulls /\ P!Lets /\ P!Delivers)
  /\ WF_pullVars(Pulls /\ P!Lets /\ P!GiveBack)
  /\ WF_controlVars(Controls /\ S!CheckStreamState)
  /\ WF_controlVars(Controls /\ S!Tick)

(* See PullPin: samples are conserved, an idle worker has no request out,  *)
(* none outlives its reader, and what is delivered is the range asked for, *)
(* in order and once, before its end.                                      *)
PullSafety == P!PullSafety /\ P!PullsTheRange

(* See StreamControl: every cookie is notified once or given up with its   *)
(* command, and a pending stop has a state to go to.                       *)
ControlSafety == S!ControlSafety

(* See StreamControl: a sample is discarded when its time has come and not *)
(* before, whatever wakes the thread meanwhile.                            *)
DiscardsInTime == S!DiscardsInTime

(* See PullPin and StreamControl: the application's calls return, and a    *)
(* filter that stops or flushes gets its streaming thread back.            *)
EveryoneReturns == P!PullReturns /\ S!Released
=============================================================================
