--------------------------- MODULE StreamControl ---------------------------
(***************************************************************************)
(* CBaseStreamControl (strmctl.cpp): an application says when a stream is  *)
(* to start and to stop, the filter reports its state and its flushes, and *)
(* the streaming thread asks of each sample whether it is to flow or to be *)
(* discarded, which it is told not before the sample's time.               *)
(*                                                                         *)
(* A unit of time is 10 ms, the shortest wait the code thinks worth it.    *)
(* Sample n covers the times from Length * n to Length * (n + 1).  The     *)
(* filter waits for its streaming thread before it pauses again after a    *)
(* stop and before it ends a flush, as CPullPin::Seek and the filter graph *)
(* do.                                                                     *)
(***************************************************************************)
EXTENDS Naturals

CONSTANTS Times,        \* the application asks for
          Length,       \* of a sample
          MaxSamples,   \* bound on samples of a run
          MaxNow,       \* bound on stream time
          MaxCommands   \* bound on commands, which carry a cookie each

VARIABLES
  m_StreamState, m_StreamStateOnStop, m_tStartTime, m_tStopTime, m_dwStartCookie,
  m_dwStopCookie, m_bIsFlushing, m_bStopSendExtra, m_bStopExtraSent,
  m_StreamEvent, m_FilterState, m_pRefClock,
  at,          \* of the streaming thread: "out", "flags", "times", "extra", "wait", "blocked"
  sample,      \* the number of its sample
  waitUntil,   \* when its wait times out
  now,         \* stream time
  commands,    \* given so far
  notified,    \* how often each cookie was
  dropped,     \* cookies taken back or replaced by a later command
  stopped      \* whether a stop came since the filter last left Stopped

commandState == <<m_StreamState, m_StreamStateOnStop, m_tStartTime, m_tStopTime,
                  m_dwStartCookie, m_dwStopCookie, notified>>
extra == <<m_bStopSendExtra, m_bStopExtraSent>>
filter == <<m_bIsFlushing, m_FilterState, m_pRefClock>>
streaming == <<at, sample, waitUntil>>
history == <<commands, dropped, stopped>>
controlVars == <<commandState, extra, filter, m_StreamEvent, streaming, now, history>>

MAX_TIME == MaxNow + 1
Forever == MaxNow + 2
Cookies == 1 .. MaxCommands

Init ==
  /\ m_StreamState = "flowing" /\ m_StreamStateOnStop = "flowing"
  /\ m_tStartTime = MAX_TIME /\ m_tStopTime = MAX_TIME
  /\ m_dwStartCookie = 0 /\ m_dwStopCookie = 0
  /\ m_bIsFlushing = FALSE /\ m_bStopSendExtra = FALSE
  /\ m_bStopExtraSent \in BOOLEAN   \* the constructor leaves it
  /\ m_StreamEvent = FALSE /\ m_FilterState = "Stopped" /\ m_pRefClock = FALSE
  /\ at = "out" /\ sample = 0 /\ waitUntil = 0 /\ now = 0
  /\ commands = 0 /\ notified = [c \in Cookies |-> 0] /\ dropped = {} /\ stopped = FALSE

-----------------------------------------------------------------------------
(* What a pending start and a pending stop do, as functions of the part of *)
(* the state the lock guards.                                              *)

Control == [state |-> m_StreamState, onStop |-> m_StreamStateOnStop,
            start |-> m_tStartTime, stop |-> m_tStopTime,
            startCookie |-> m_dwStartCookie, stopCookie |-> m_dwStopCookie,
            notified |-> notified]

Becomes(c) ==
  /\ m_StreamState' = c.state /\ m_StreamStateOnStop' = c.onStop
  /\ m_tStartTime' = c.start /\ m_tStopTime' = c.stop
  /\ m_dwStartCookie' = c.startCookie /\ m_dwStopCookie' = c.stopCookie
  /\ notified' = c.notified

Notify(c, cookie) ==
  [c EXCEPT !.notified = [k \in DOMAIN @ |-> IF k = cookie THEN @[k] + 1 ELSE @[k]]]

CancelStop(c) == [c EXCEPT !.stop = MAX_TIME, !.stopCookie = 0, !.onStop = "flowing"]
CancelStart(c) == [c EXCEPT !.start = MAX_TIME, !.startCookie = 0]

ExecuteStop(c) == CancelStop(Notify([c EXCEPT !.state = c.onStop], c.stopCookie))
ExecuteStart(c) == CancelStart(Notify([c EXCEPT !.state = "flowing"], c.startCookie))

(* Mutant: a start that has been passed over is forgotten.                 *)
ExecuteLast(c) == IF c.start <= c.stop THEN ExecuteStop(CancelStart(c))
                                       ELSE ExecuteStart(CancelStop(c))

ExecuteBoth(c) == IF c.start <= c.stop THEN ExecuteStop(ExecuteStart(c))
                                       ELSE ExecuteStart(ExecuteStop(c))

(* The 19 cases of strmctl.cpp 211-231, for a sample from first to last.   *)
CheckSampleTimes(c, first, last) ==
  CASE c.stop >= first /\ c.start >= last -> c
    [] c.stop >= first /\ c.start < last  ->
         ExecuteStart(IF c.stop < c.start THEN ExecuteStop(c) ELSE c)
    [] c.stop < first /\ c.start >= last  -> ExecuteStop(c)
    [] OTHER                              -> ExecuteBoth(c)

-----------------------------------------------------------------------------
(* The application.  A command replaces the one of its kind.               *)

Replaces(cookie) == dropped' = dropped \union ({cookie} \ {0})
FromStopped(cond, state) == IF m_FilterState = "Stopped" /\ cond THEN state ELSE m_StreamState

StopAt(t, bSendExtra) ==
  /\ commands < MaxCommands
  /\ commands' = commands + 1
  /\ Becomes([Control EXCEPT !.state = FromStopped(m_tStartTime > t, "flowing"),
                             !.stop = t, !.stopCookie = commands', !.onStop = "discarding"])
  /\ m_bStopSendExtra' = bSendExtra /\ m_bStopExtraSent' = FALSE
  /\ m_StreamEvent' = TRUE
  /\ Replaces(m_dwStopCookie)
  /\ UNCHANGED <<filter, streaming, now, stopped>>

StopNow ==
  /\ commands < MaxCommands /\ commands' = commands + 1
  /\ Becomes([CancelStop(Control) EXCEPT !.state = "discarding"])
  /\ m_bStopSendExtra' = FALSE /\ m_bStopExtraSent' = FALSE
  /\ m_StreamEvent' = TRUE
  /\ dropped' = dropped \union ({m_dwStopCookie, commands'} \ {0})
  /\ UNCHANGED <<filter, streaming, now, stopped>>

StopNever ==
  /\ m_tStopTime # MAX_TIME
  /\ Becomes([CancelStop(Control) EXCEPT
                !.state = FromStopped(m_tStartTime < MAX_TIME, "discarding")])
  /\ m_bStopSendExtra' = FALSE /\ m_bStopExtraSent' = FALSE
  /\ Replaces(m_dwStopCookie)
  /\ UNCHANGED <<filter, m_StreamEvent, streaming, now, commands, stopped>>

StartAt(t) ==
  /\ commands < MaxCommands
  /\ commands' = commands + 1
  /\ Becomes([Control EXCEPT !.state = FromStopped(m_tStopTime >= t, "discarding"),
                             !.start = t, !.startCookie = commands'])
  /\ m_StreamEvent' = TRUE
  /\ Replaces(m_dwStartCookie)
  /\ UNCHANGED <<extra, filter, streaming, now, stopped>>

StartNow ==
  /\ commands < MaxCommands /\ commands' = commands + 1
  /\ Becomes([CancelStart(Control) EXCEPT !.state = "flowing"])
  /\ m_StreamEvent' = TRUE
  /\ dropped' = dropped \union ({m_dwStartCookie, commands'} \ {0})
  /\ UNCHANGED <<extra, filter, streaming, now, stopped>>

StartNever ==
  /\ m_tStartTime # MAX_TIME
  /\ Becomes([CancelStart(Control) EXCEPT
                !.state = FromStopped(m_tStopTime < MAX_TIME, "flowing")])
  /\ Replaces(m_dwStartCookie)
  /\ UNCHANGED <<extra, filter, m_StreamEvent, streaming, now, commands, stopped>>

-----------------------------------------------------------------------------
(* The filter.                                                             *)

PendingDone(c) ==
  CASE c.start # MAX_TIME /\ c.stop = MAX_TIME -> ExecuteStart(c)
    [] c.stop # MAX_TIME /\ c.start = MAX_TIME -> ExecuteStop(c)
    [] c.stop # MAX_TIME /\ c.start # MAX_TIME -> ExecuteBoth(c)
    [] OTHER -> c

NotifyStopped ==
  /\ m_FilterState # "Stopped"
  /\ Becomes([PendingDone(Control) EXCEPT !.state = "flowing"])
  /\ m_FilterState' = "Stopped" /\ m_StreamEvent' = TRUE
  /\ stopped' = FALSE
  /\ UNCHANGED <<extra, m_bIsFlushing, m_pRefClock, streaming, now, commands, dropped>>

NotifyFilterState(state) ==
  /\ state \in {"Paused", "Running"} \ {m_FilterState}
  /\ m_FilterState = "Stopped" => at = "out"
  /\ m_FilterState' = state /\ m_StreamEvent' = TRUE
  /\ now' = IF m_FilterState = "Stopped" THEN 0 ELSE now
  /\ sample' = IF m_FilterState = "Stopped" THEN 0 ELSE sample
  /\ UNCHANGED <<commandState, extra, m_bIsFlushing, m_pRefClock, at, waitUntil,
                 history>>

Flushing(bInProgress) ==
  /\ m_bIsFlushing # bInProgress /\ (m_bIsFlushing => at = "out")
  /\ m_bIsFlushing' = bInProgress /\ m_StreamEvent' = TRUE
  /\ UNCHANGED <<commandState, extra, m_FilterState, m_pRefClock, streaming, now, history>>

(* Only while the filter is stopped: no thread is inside.                  *)
SetSyncSource ==
  /\ m_FilterState = "Stopped" /\ at = "out"
  /\ m_pRefClock' = ~m_pRefClock
  /\ UNCHANGED <<commandState, extra, m_bIsFlushing, m_FilterState, m_StreamEvent, streaming,
                 now, history>>

-----------------------------------------------------------------------------
(* CheckStreamState, on the streaming thread.                              *)

First == Length * sample
Last == Length * (sample + 1)

(* CheckStreamState returns: the sample flows or is discarded.             *)
Answer == at' = "out" /\ sample' = sample + 1 /\ waitUntil' = 0

Receive ==
  /\ at = "out" /\ m_FilterState # "Stopped" /\ ~m_bIsFlushing /\ sample < MaxSamples
  /\ at' = "flags"
  /\ UNCHANGED <<commandState, extra, filter, m_StreamEvent, sample, waitUntil, now, history>>

(* Mutant: a flush does not end the wait.                                  *)
OnlyStopEnds == m_FilterState = "Stopped"

MustReturn == m_bIsFlushing \/ m_FilterState = "Stopped"

LookAtFlags ==
  /\ at = "flags"
  /\ IF MustReturn THEN Answer
                   ELSE at' = "times" /\ UNCHANGED <<sample, waitUntil>>
  /\ UNCHANGED <<commandState, extra, filter, m_StreamEvent, now, history>>

WantsExtra == /\ m_bStopSendExtra /\ ~m_bStopExtraSent
              /\ m_tStopTime = MAX_TIME /\ m_FilterState # "Stopped"

LookAtTimes ==
  LET c == CheckSampleTimes(Control, First, Last) IN
  /\ at = "times"
  /\ Becomes(c)
  /\ stopped' = (stopped \/ (m_tStopTime < Last /\ c.stop = MAX_TIME))
  /\ IF c.state = "flowing" THEN Answer
                            ELSE at' = "extra" /\ UNCHANGED <<sample, waitUntil>>
  /\ UNCHANGED <<extra, filter, m_StreamEvent, now, commands, dropped>>

(* Without the lock.                                                       *)
LookAtExtra ==
  /\ at = "extra"
  /\ IF WantsExtra THEN Answer /\ m_bStopExtraSent' = TRUE
                   ELSE at' = "wait" /\ UNCHANGED <<sample, waitUntil, m_bStopExtraSent>>
  /\ UNCHANGED <<commandState, m_bStopSendExtra, filter, m_StreamEvent, now, history>>

(* Mutant: a paused filter does not wait.                                  *)
WaitIfRunning == IF m_FilterState = "Paused" THEN 0 ELSE First

WaitTime == IF m_FilterState = "Paused" THEN Forever ELSE First

BeginWait ==
  /\ at = "wait"
  /\ IF ~m_pRefClock \/ WaitTime < now + 1
     THEN Answer
     ELSE at' = "blocked" /\ waitUntil' = WaitTime /\ UNCHANGED sample
  /\ UNCHANGED <<commandState, extra, filter, m_StreamEvent, now, history>>

WokenUp ==
  /\ at = "blocked" /\ m_StreamEvent
  /\ m_StreamEvent' = FALSE /\ at' = "flags" /\ waitUntil' = 0
  /\ UNCHANGED <<commandState, extra, filter, sample, now, history>>

TimedOut ==
  /\ at = "blocked" /\ ~m_StreamEvent /\ waitUntil <= now
  /\ Answer
  /\ UNCHANGED <<commandState, extra, filter, m_StreamEvent, now, history>>

Tick == /\ m_FilterState = "Running" /\ now < MaxNow
        /\ now' = now + 1
        /\ UNCHANGED <<commandState, extra, filter, m_StreamEvent, streaming, history>>

Application == \/ \E t \in Times : StartAt(t) \/ StopAt(t, TRUE) \/ StopAt(t, FALSE)
               \/ StartNow \/ StartNever \/ StopNow \/ StopNever

Filter == \/ \E state \in {"Paused", "Running"} : NotifyFilterState(state)
          \/ NotifyStopped \/ SetSyncSource \/ \E b \in BOOLEAN : Flushing(b)

CheckStreamState == LookAtFlags \/ LookAtTimes \/ LookAtExtra \/ BeginWait \/ WokenUp \/ TimedOut

ControlNext == Application \/ Filter \/ Receive \/ CheckStreamState \/ Tick

Spec == Init /\ [][ControlNext]_controlVars /\ WF_controlVars(CheckStreamState)
             /\ WF_controlVars(Tick)

-----------------------------------------------------------------------------
TypeOK ==
  /\ {m_StreamState, m_StreamStateOnStop} \subseteq {"flowing", "discarding"}
  /\ {m_tStartTime, m_tStopTime} \subseteq 0 .. MAX_TIME
  /\ {m_dwStartCookie, m_dwStopCookie} \subseteq 0 .. MaxCommands
  /\ {m_bIsFlushing, m_bStopSendExtra, m_bStopExtraSent, m_StreamEvent, m_pRefClock, stopped}
       \subseteq BOOLEAN
  /\ m_FilterState \in {"Stopped", "Paused", "Running"}
  /\ at \in {"out", "flags", "times", "extra", "wait", "blocked"} /\ sample \in 0 .. MaxSamples
  /\ waitUntil \in 0 .. Forever /\ now \in 0 .. MaxNow
  /\ commands \in 0 .. MaxCommands /\ dropped \subseteq Cookies
  /\ notified \in [Cookies -> Nat]

(* Whoever waits for the notification of a command (strmctl.cpp 208-210,   *)
(* 359) gets it once: a cookie given is still pending, or was notified     *)
(* once, or its command was taken back, and only one of these.             *)
EveryCookieAccountedFor ==
  \A c \in 1 .. commands :
    \/ c \in {m_dwStartCookie, m_dwStopCookie} /\ notified[c] = 0 /\ c \notin dropped
    \/ c \notin {m_dwStartCookie, m_dwStopCookie} /\ notified[c] + (IF c \in dropped THEN 1 ELSE 0) = 1

(* A stop that is pending is one with a state to go to, and the reverse.   *)
StopHasAState == (m_tStopTime = MAX_TIME) = (m_StreamStateOnStop = "flowing")

ControlSafety == TypeOK /\ EveryCookieAccountedFor /\ StopHasAState

(* A sample is discarded in a timely fashion (strmctl.cpp 318-336): with a *)
(* clock, not before its time, unless the filter stopped or flushes,       *)
(* whatever woke the thread meanwhile.                                     *)
DiscardsInTime ==
  [][ (at \in {"wait", "blocked"} /\ at' = "out" /\ m_pRefClock) => (now + 1 > First) ]_controlVars

(* A filter that stops or flushes gets its streaming thread back.          *)
Released == at # "out" /\ (m_bIsFlushing \/ m_FilterState = "Stopped") ~> at = "out"

(* The extra frame is the one after a stop (strmctl.cpp 302-304): none is  *)
(* sent in a run in which no stop came.                                    *)
ExtraFollowsStop == [][at = "extra" /\ at' = "out" => stopped]_controlVars

(* ASSERT( !m_bIsFlushing ), strmctl.cpp 239.                              *)
TimesLookedAtUnflushed == at = "times" => ~m_bIsFlushing
=============================================================================
