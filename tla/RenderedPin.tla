---------------------------- MODULE RenderedPin ----------------------------
(***************************************************************************)
(* CRenderedInputPin (amextra.cpp) in a CBaseFilter: who tells the graph   *)
(* EC_COMPLETE, the streaming thread in EndOfStream or the application in  *)
(* Run.  Run, Pause, Stop and EndFlush hold the filter lock from their     *)
(* first to their last step; whether EndOfStream does is up to its caller   *)
(* ("caller should do any necessary stream level locking").                *)
(***************************************************************************)
EXTENDS Naturals

CONSTANT EndOfStreamLocks

VARIABLES
    m_State,                  \* of the filter
    m_bAtEndOfStream, m_bCompleteNotified,
    m_bFlushingPin,           \* CBaseInputPin::m_bFlushing
    runPc, eosPc, lockedBy,   \* Run and EndOfStream under way, holder of the filter lock
    stateSeen,                \* the answer of GetState
    completes                 \* EC_COMPLETEs sent since the last start or flush

pinRunVars == <<m_State, m_bAtEndOfStream, m_bCompleteNotified, m_bFlushingPin, runPc, eosPc,
                lockedBy, stateSeen, completes>>

Init ==
    /\ m_State = "Stopped"
    /\ m_bAtEndOfStream = FALSE /\ m_bCompleteNotified = FALSE /\ m_bFlushingPin = FALSE
    /\ runPc = "idle" /\ eosPc = "idle" /\ lockedBy = "nobody"
    /\ stateSeen = "Stopped" /\ completes = 0

DoCompleteHandling ==
    /\ m_bCompleteNotified' = TRUE
    /\ LET one == IF m_bCompleteNotified THEN 0 ELSE 1
       IN  completes' = completes + one

(* Active, from Pause of a stopped filter. *)
Pause ==
    /\ lockedBy = "nobody" /\ m_State # "Paused" /\ m_State' = "Paused"
    /\ IF m_State = "Stopped"
       THEN m_bAtEndOfStream' = FALSE /\ m_bCompleteNotified' = FALSE /\ completes' = 0
       ELSE UNCHANGED <<m_bAtEndOfStream, m_bCompleteNotified, completes>>
    /\ UNCHANGED <<m_bFlushingPin, runPc, eosPc, lockedBy, stateSeen>>

(* Stop waits for the streaming thread. *)
Stop ==
    /\ lockedBy = "nobody" /\ m_State # "Stopped" /\ eosPc = "idle"
    /\ m_State' = "Stopped" /\ m_bFlushingPin' = FALSE
    /\ UNCHANGED <<m_bAtEndOfStream, m_bCompleteNotified, runPc, eosPc, lockedBy, stateSeen,
                   completes>>

(* The filter's Run: the pin's, in three steps, then the new state. *)
RunPin ==
    /\ lockedBy = "nobody" /\ runPc = "idle" /\ m_State = "Paused"
    /\ lockedBy' = "run" /\ runPc' = "test"
    /\ m_bCompleteNotified' = FALSE /\ completes' = 0
    /\ UNCHANGED <<m_State, m_bAtEndOfStream, m_bFlushingPin, eosPc, stateSeen>>

(* A mutant: Run leaves EC_COMPLETE to EndOfStream.                        *)
RunForgets ==
    /\ runPc = "test" /\ runPc' = "set"
    /\ UNCHANGED <<m_State, m_bAtEndOfStream, m_bCompleteNotified, m_bFlushingPin, eosPc, lockedBy,
                   stateSeen, completes>>

RunTests ==
    /\ runPc = "test"
    /\ runPc' = IF m_bAtEndOfStream THEN "complete" ELSE "set"
    /\ UNCHANGED <<m_State, m_bAtEndOfStream, m_bCompleteNotified, m_bFlushingPin, eosPc, lockedBy,
                   stateSeen, completes>>

RunCompletes ==
    /\ runPc = "complete" /\ runPc' = "set" /\ DoCompleteHandling
    /\ UNCHANGED <<m_State, m_bAtEndOfStream, m_bFlushingPin, eosPc, lockedBy, stateSeen>>

RunReturns ==
    /\ runPc = "set" /\ runPc' = "idle" /\ lockedBy' = "nobody" /\ m_State' = "Running"
    /\ UNCHANGED <<m_bAtEndOfStream, m_bCompleteNotified, m_bFlushingPin, eosPc, stateSeen,
                   completes>>

(* EndOfStream: CheckStreaming, the mark, GetState (no lock), EC_COMPLETE. *)
EndOfStream ==
    /\ eosPc = "idle" /\ m_State # "Stopped" /\ ~m_bFlushingPin
    /\ EndOfStreamLocks => lockedBy = "nobody"
    /\ ~m_bAtEndOfStream /\ m_bAtEndOfStream' = TRUE
    /\ eosPc' = "asks" /\ lockedBy' = IF EndOfStreamLocks THEN "eos" ELSE lockedBy
    /\ UNCHANGED <<m_State, m_bCompleteNotified, m_bFlushingPin, runPc, stateSeen, completes>>

EosGetState ==
    /\ eosPc = "asks" /\ stateSeen' = m_State /\ eosPc' = "knows"
    /\ UNCHANGED <<m_State, m_bAtEndOfStream, m_bCompleteNotified, m_bFlushingPin, runPc, lockedBy,
                   completes>>

EosReturns ==
    /\ eosPc = "knows" /\ eosPc' = "idle"
    /\ lockedBy' = IF EndOfStreamLocks THEN "nobody" ELSE lockedBy
    /\ IF stateSeen = "Running" THEN DoCompleteHandling
       ELSE UNCHANGED <<m_bCompleteNotified, completes>>
    /\ UNCHANGED <<m_State, m_bAtEndOfStream, m_bFlushingPin, runPc, stateSeen>>

(* A flush comes from upstream: no other call is then in the pin. *)
BeginFlush ==
    /\ m_State # "Stopped" /\ ~m_bFlushingPin /\ lockedBy = "nobody" /\ eosPc = "idle"
    /\ m_bFlushingPin' = TRUE
    /\ UNCHANGED <<m_State, m_bAtEndOfStream, m_bCompleteNotified, runPc, eosPc, lockedBy,
                   stateSeen, completes>>

EndFlush ==
    /\ m_bFlushingPin /\ m_bFlushingPin' = FALSE /\ lockedBy = "nobody"
    /\ m_bAtEndOfStream' = FALSE /\ m_bCompleteNotified' = FALSE /\ completes' = 0
    /\ UNCHANGED <<m_State, runPc, eosPc, lockedBy, stateSeen>>

RenderedNext ==
    \/ Pause \/ Stop
    \/ RunPin \/ RunTests \/ RunCompletes \/ RunReturns
    \/ EndOfStream \/ EosGetState \/ EosReturns
    \/ BeginFlush \/ EndFlush

(* Between two starts, or flushes, EC_COMPLETE is sent at most once, and it *)
(* has been sent whenever the filter runs, the stream has ended and no call *)
(* is under way: neither thread may leave it to the other.                  *)
CompletesOnce ==
    /\ completes <= 1
    /\ m_State = "Running" /\ m_bAtEndOfStream /\ eosPc = "idle" /\ runPc = "idle"
         => completes = 1
=============================================================================
