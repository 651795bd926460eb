---------------------------- MODULE FilterLinks ----------------------------
(***************************************************************************)
(* What a CBaseFilter (amfilter.cpp) holds of the outside: the reference    *)
(* clock, which it counts, and the graph with its event sink, which it does *)
(* not.  The application sets them; a worker of the filter asks the clock   *)
(* for the stream time ("Caller must lock for synchronization") and sends   *)
(* events, without the lock.                                               *)
(***************************************************************************)
EXTENDS Naturals, FiniteSets

CONSTANTS Clocks, NoClock, CallerLocks

VARIABLES
    m_pClock, clockRefs,        \* the filter's clock; references on each clock
    ours,                       \* clocks the application has a reference on
    setPc, newClock,            \* SetSyncSource under way
    filterLock,                 \* holder of m_pLock
    timePc, timeClock,          \* StreamTime under way and the clock it calls
    m_pGraph, m_pSink, graphThere,
    streams,                    \* the worker runs: between Pause and Stop
    sendPc                      \* NotifyEvent under way, the sink it has read

clockVars == <<m_pClock, clockRefs, ours, setPc, newClock, timePc, timeClock>>
graphVars == <<m_pGraph, m_pSink, graphThere, streams, sendPc>>
linkVars  == <<m_pClock, clockRefs, ours, setPc, newClock, filterLock, timePc, timeClock,
               m_pGraph, m_pSink, graphThere, streams, sendPc>>

Init ==
    /\ m_pClock = NoClock /\ clockRefs = [c \in Clocks |-> 1] /\ ours = Clocks
    /\ setPc = "idle" /\ newClock = NoClock /\ filterLock = "nobody"
    /\ timePc = "idle" /\ timeClock = NoClock
    /\ m_pGraph = FALSE /\ m_pSink = FALSE /\ graphThere = TRUE
    /\ streams = FALSE /\ sendPc = "idle"

Alive(c) == clockRefs[c] > 0
AddedRef(c) == IF c = NoClock THEN clockRefs ELSE [clockRefs EXCEPT ![c] = @ + 1]
ReleasedRef(c) == IF c = NoClock THEN clockRefs ELSE [clockRefs EXCEPT ![c] = @ - 1]

(* A mutant: a clock that is the old one is not counted again.             *)
SetOtherSource(c) ==
    /\ setPc = "idle" /\ filterLock = "nobody" /\ c \in ours \cup {m_pClock, NoClock}
    /\ filterLock' = "application" /\ setPc' = "release" /\ newClock' = c
    /\ clockRefs' = IF c = m_pClock THEN clockRefs ELSE AddedRef(c)
    /\ UNCHANGED <<m_pClock, ours, timePc, timeClock, graphVars>>

(* SetSyncSource: the new clock is counted before the old one is released,  *)
(* "even if the same as the old".  The application may pass a clock it got   *)
(* from GetSyncSource of this filter and released since.                    *)
SetSyncSource(c) ==
    /\ setPc = "idle" /\ filterLock = "nobody" /\ c \in ours \cup {m_pClock, NoClock}
    /\ filterLock' = "application" /\ setPc' = "release" /\ newClock' = c
    /\ clockRefs' = AddedRef(c)
    /\ UNCHANGED <<m_pClock, ours, timePc, timeClock, graphVars>>

SetReleases ==
    /\ setPc = "release" /\ setPc' = "assign"
    /\ clockRefs' = ReleasedRef(m_pClock)
    /\ UNCHANGED <<m_pClock, ours, newClock, filterLock, timePc, timeClock, graphVars>>

SetAssigns ==
    /\ setPc = "assign" /\ setPc' = "idle" /\ filterLock' = "nobody"
    /\ m_pClock' = newClock /\ newClock' = NoClock
    /\ UNCHANGED <<clockRefs, ours, timePc, timeClock, graphVars>>

GetSyncSource ==
    /\ filterLock = "nobody" /\ m_pClock # NoClock /\ m_pClock \notin ours
    /\ clockRefs' = AddedRef(m_pClock) /\ ours' = ours \cup {m_pClock}
    /\ UNCHANGED <<m_pClock, setPc, newClock, filterLock, timePc, timeClock, graphVars>>

ApplicationReleases(c) ==
    /\ setPc = "idle" /\ c \in ours
    /\ ours' = ours \ {c} /\ clockRefs' = ReleasedRef(c)
    /\ UNCHANGED <<m_pClock, setPc, newClock, filterLock, timePc, timeClock, graphVars>>

(* StreamTime: m_pClock is tested, and then called. *)
StreamTime ==
    /\ timePc = "idle" /\ m_pClock # NoClock
    /\ CallerLocks => filterLock = "nobody"
    /\ filterLock' = IF CallerLocks THEN "worker" ELSE filterLock
    /\ timePc' = "ask" /\ timeClock' = m_pClock
    /\ UNCHANGED <<m_pClock, clockRefs, ours, setPc, newClock, graphVars>>

StreamTimeReturns ==
    /\ timePc = "ask" /\ timePc' = "idle" /\ timeClock' = NoClock
    /\ filterLock' = IF CallerLocks THEN "nobody" ELSE filterLock
    /\ UNCHANGED <<m_pClock, clockRefs, ours, setPc, newClock, graphVars>>

---------------------------------------------------------------------------
(* A graph hosts the filter while it is stopped, with an event sink or not; *)
(* a graph that is destroyed has told its filters to leave.                 *)

JoinFilterGraph ==
    /\ graphThere /\ ~m_pGraph /\ ~streams /\ filterLock = "nobody"
    /\ m_pGraph' = TRUE
    /\ \E sinks \in BOOLEAN : m_pSink' = sinks
    /\ UNCHANGED <<graphThere, streams, sendPc, clockVars, filterLock>>

LeaveFilterGraph ==
    /\ m_pGraph /\ ~streams /\ filterLock = "nobody"
    /\ m_pGraph' = FALSE /\ m_pSink' = FALSE
    /\ UNCHANGED <<graphThere, streams, sendPc, clockVars, filterLock>>

GraphGoes ==
    /\ graphThere /\ ~m_pGraph /\ graphThere' = FALSE
    /\ UNCHANGED <<m_pGraph, m_pSink, streams, sendPc, clockVars, filterLock>>

GraphComes ==
    /\ ~graphThere /\ graphThere' = TRUE
    /\ UNCHANGED <<m_pGraph, m_pSink, streams, sendPc, clockVars, filterLock>>

(* Stop waits for the worker. *)
Streams ==
    /\ m_pGraph \/ streams
    /\ streams' = ~streams
    /\ streams => sendPc = "idle"
    /\ UNCHANGED <<m_pGraph, m_pSink, graphThere, sendPc, clockVars, filterLock>>

NotifyEvent ==
    /\ streams /\ sendPc = "idle" /\ m_pSink /\ sendPc' = "notify"
    /\ UNCHANGED <<m_pGraph, m_pSink, graphThere, streams, clockVars, filterLock>>

NotifyReturns ==
    /\ sendPc = "notify" /\ sendPc' = "idle"
    /\ UNCHANGED <<m_pGraph, m_pSink, graphThere, streams, clockVars, filterLock>>

LinksNext ==
    \/ \E c \in Clocks \cup {NoClock} : SetSyncSource(c)
    \/ SetReleases \/ SetAssigns \/ GetSyncSource
    \/ \E c \in Clocks : ApplicationReleases(c)
    \/ StreamTime \/ StreamTimeReturns
    \/ JoinFilterGraph \/ LeaveFilterGraph \/ GraphGoes \/ GraphComes
    \/ Streams \/ NotifyEvent \/ NotifyReturns

(* The clock the filter keeps, or asks for the time, is there; every        *)
(* reference is somebody's; and an event goes to a graph that is there, also *)
(* when the filter has changed graphs.                                      *)
LinksLive ==
    /\ m_pClock # NoClock /\ setPc # "assign" => Alive(m_pClock)
    /\ timeClock # NoClock => Alive(timeClock)
    /\ \A c \in Clocks :
          clockRefs[c] = (IF c \in ours THEN 1 ELSE 0) + (IF newClock = c THEN 1 ELSE 0)
                         + (IF m_pClock = c /\ setPc # "assign" THEN 1 ELSE 0)
    /\ m_pSink \/ sendPc = "notify" => graphThere
=============================================================================
