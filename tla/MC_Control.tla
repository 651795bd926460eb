----------------------------- MODULE MC_Control -----------------------------
(***************************************************************************)
(* Four components an application steers a graph with, side by side: a     *)
(* behaviour is one of a command queue, of the seeking chain, of a dynamic *)
(* output pin or of an in-place transform and its neighbours.              *)
(***************************************************************************)
EXTENDS Seeking, DynamicPin

CONSTANTS Commands, Times, Offsets, MaxNow, MaxCalls,
          MaxGraphCalls

VARIABLES
  which,
  m_time, m_bStream, m_pQueue, m_cRef, ran, m_listPresentation, m_listStream, m_evDue,
  m_dwAdvise, m_tCurrentAdvise, m_pClock, m_bRunning, m_StreamTimeOffset, clockNow, calls,
  workerPc, held, ownerPc, owns, newTime, crashed,
  m_bModifiesData, chain, bytes, pending, streaming, m_bSampleSkipped, last, graphCalls

cmdVars == <<m_time, m_bStream, m_pQueue, m_cRef, ran, m_listPresentation, m_listStream,
             m_evDue, m_dwAdvise, m_tCurrentAdvise, m_pClock, m_bRunning, m_StreamTimeOffset,
             clockNow, calls, workerPc, held, ownerPc, owns, newTime, crashed>>
tipVars == <<m_bModifiesData, chain, bytes, pending, streaming, m_bSampleSkipped, last,
             graphCalls>>
vars == <<which, cmdVars, seekVars, pinVars, tipVars>>

(* The sources and sinks of the chain: who lends or insists on which       *)
(* allocator, accepts which types and needs which buffers.                 *)
Source(alloc, need, insists, readOnly, types) ==
  [types |-> types, alloc |-> alloc, need |-> need, insists |-> insists, readOnly |-> readOnly]
Sources == {Source("s1", 2, FALSE, FALSE, {"A", "B"}), Source("s1", 1, TRUE, FALSE, {"A"}),
            Source("s2", 2, FALSE, TRUE, {"A", "B"}), Source("s2", 2, TRUE, TRUE, {"B"})}
Sinks == [types : {{"A", "B"}, {"B"}}, lends : {"its own", "the current"}, takesAny : BOOLEAN]
         \union {[types |-> {"A", "B"}, lends |-> "nothing", takesAny |-> TRUE]}
Limits == [temporary |-> 2, own |-> 2, sink |-> 1, s1 |-> 2, s2 |-> 2]

(* Commands are numbered from 1, and a graph runs from a time that is not  *)
(* before the clock's zero.                                                *)
ASSUME ControlAssumption ==
  /\ Commands \subseteq Nat \ {0} /\ Times \subseteq Nat \ {0} /\ Offsets \subseteq Nat
  /\ {"temporary", "own", "sink"} \union {s.alloc : s \in Sources} \subseteq DOMAIN Limits
  /\ \A a \in DOMAIN Limits : Limits[a] \in Nat
  /\ \A r \in Sinks : r.lends \in {"its own", "the current", "nothing"}

C == INSTANCE CmdQueue
T == INSTANCE TransInPlace WITH TransformTypes <- {"A", "B"}

Queues == which = "queue"
Seeks == which = "seek"
Pins == which = "pin"
Chains == which = "chain"

(* What a component may begin with is fixed for the others.                *)
ControlInit ==
  /\ which \in {"queue", "seek", "pin", "chain"}
  /\ C!Init /\ SeekInit /\ PinInit /\ T!Init
  /\ (~Seeks => kind = "seeking")
  /\ (~Pins => pinType = CHOOSE mt \in MediaTypes : TRUE)
  /\ (~Chains => m_bModifiesData)

ButCmd == UNCHANGED <<which, seekVars, pinVars, tipVars>>
ButSeek == UNCHANGED <<which, cmdVars, pinVars, tipVars>>
ButPin == UNCHANGED <<which, cmdVars, seekVars, tipVars>>
ButTip == UNCHANGED <<which, cmdVars, seekVars, pinVars>>

Next == \/ Queues /\ C!CmdNext /\ ButCmd
        \/ Seeks /\ SeekNext /\ ButSeek
        \/ Pins /\ PinNext /\ ButPin
        \/ Chains /\ T!TipNext /\ ButTip

Spec ==
  /\ ControlInit /\ [][Next]_vars
  /\ WF_cmdVars(Queues /\ C!Fetch) /\ WF_cmdVars(Queues /\ C!Executes)
  /\ WF_cmdVars(Queues /\ C!ClockFires)
  /\ WF_pinVars(Pins /\ Enters) /\ WF_pinVars(Pins /\ Changes)
  /\ SF_pinVars(Pins /\ Leaves)
  /\ \A t \in Apps : WF_pinVars(Pins /\ Blocked(t))
  /\ WF_tipVars(Chains /\ T!ReconnectUp) /\ WF_tipVars(Chains /\ T!ReconnectDown)

(* See CmdQueue.                                                           *)
CmdSafety == C!CmdSafety

(* See TransInPlace.                                                       *)
TipSafety == T!TipSafety

(* Again and again nothing is left to do: every command that is due is     *)
(* fetched, every Block returns, a pin that is stopped lets its streaming  *)
(* thread go, and reconnections come to an end.  (Of the components that   *)
(* are not the one that lives, this holds from the beginning.)             *)
NobodyWaitsForever == []<>(C!NothingIsLeftDue /\ NobodyIsKept /\ T!Resting)
=============================================================================
