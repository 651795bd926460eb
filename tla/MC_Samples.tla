----------------------------- MODULE MC_Samples -----------------------------
(***************************************************************************)
(* The pool that samples come from and the filter that most of them go     *)
(* through, side by side: a behaviour is one of a CMemAllocator and its    *)
(* threads, or of a CTransformFilter between its neighbours.               *)
(***************************************************************************)
EXTENDS MemAllocator, TransformFilter

AnyResults == {"S_OK", "S_FALSE", "E_FAIL"}
AnyFaults == {"start", "stop", "commit", "type"}

VARIABLE which

samplesVars == <<which, vars, transformVars>>

Pools == which = "pool"
Transforms == which = "transform"
ButPool == UNCHANGED <<which, transformVars>>
ButTransform == UNCHANGED <<which, vars>>

(* What a transform may begin with is fixed for a pool, and the reverse.   *)
SamplesInit ==
  /\ which \in {"pool", "transform"} /\ Init /\ TransformInit
  /\ (Pools => m_Connected = {})
  /\ (Transforms => clients = {CHOOSE t \in Threads : TRUE})

SamplesNext == \/ Pools /\ Next /\ ButPool
               \/ Transforms /\ TransformNext /\ ButTransform

(* The fairness of MemAllocator and of TransformFilter.                    *)
SamplesSpec ==
  /\ SamplesInit /\ [][SamplesNext]_samplesVars
  /\ \A t \in Threads : WF_vars(Pools /\ InCall(t)) /\ WF_vars(Pools /\ Wake(t))
  /\ WF_transformVars(Transforms /\ ControlStep) /\ WF_transformVars(Transforms /\ Stream)
=============================================================================
