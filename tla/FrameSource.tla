---------------------------- MODULE FrameSource ----------------------------
(***************************************************************************)
(* What a push source promises downstream: each pin delivers the frames    *)
(* 0, 1, 2, ... without a gap or a repetition, for as long as the filter   *)
(* lives, and none while the filter is stopped.                            *)
(***************************************************************************)
EXTENDS Integers

CONSTANTS Pins, CountMod

VARIABLES state,   \* "Stopped", "Paused", "Running", or "Changing" in a call
          last     \* the last frame each pin delivered, -1 before the first

sourceVars == <<state, last>>

Init == state = "Stopped" /\ last = [p \in Pins |-> -1]

ChangeState == /\ state' \in {"Stopped", "Paused", "Running", "Changing"}
               /\ {state, state'} \in {{"Changing", s} : s \in {"Stopped", "Paused", "Running"}}
                                      \union {{"Paused", "Running"}}
               /\ UNCHANGED last

DeliverFrame(p) == /\ state # "Stopped"
                   /\ last' = [last EXCEPT ![p] = (@ + 1) % CountMod]
                   /\ UNCHANGED state

Next == ChangeState \/ \E p \in Pins : DeliverFrame(p)

Spec == Init /\ [][Next]_sourceVars
=============================================================================
