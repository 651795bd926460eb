---------------------------- MODULE AlarmService ----------------------------
(***************************************************************************)
(* What a reference clock promises the clients that ask to be advised,     *)
(* without its thread, its event, its sorted list or its waits: the alarm  *)
(* due first rings first, none rings before the clock came within          *)
(* Resolution of its time, a one-shot rings once, a periodic one once for  *)
(* each period, cancelling takes away the alarm one asked for and no       *)
(* other, and the time told to clients does not go back.                   *)
(***************************************************************************)
EXTENDS Naturals

CONSTANTS Clients, Resolution

VARIABLES pending,   \* the alarms not yet rung for the last time
          asked,     \* how many were ever asked for
          signals,   \* how often each client's latest alarm has rung
          reached,   \* the latest time the clock has had
          told       \* the latest time a client was told

alarmVars == <<pending, asked, signals, reached, told>>

Init == /\ pending = {} /\ asked = 0 /\ signals = [c \in Clients |-> 0]
        /\ reached \in Nat /\ told = 0

Ask(c) == /\ asked' = asked + 1
          /\ signals' = [signals EXCEPT ![c] = 0]
          /\ \E a \in pending' : /\ a.cookie = asked' /\ a.client = c
                                 /\ pending' = pending \union {a}
          /\ UNCHANGED <<reached, told>>

Cancel(c) == /\ \E a \in pending : a.client = c /\ pending' = pending \ {a}
             /\ UNCHANGED <<asked, signals, reached, told>>

Ring(a) == /\ \A b \in pending : a.time <= b.time
           /\ a.time <= reached + Resolution
           /\ signals' = [signals EXCEPT ![a.client] = @ + 1]
           /\ pending' = (pending \ {a}) \union
                           (IF a.periodic THEN {[a EXCEPT !.time = @ + a.period]} ELSE {})
           /\ UNCHANGED <<asked, reached, told>>

Advance == /\ reached' >= reached /\ told' >= told /\ told' <= reached'
           /\ UNCHANGED <<pending, asked, signals>>

GoAway == pending' = {} /\ UNCHANGED <<asked, signals, reached, told>>

Next == \/ \E c \in Clients : Ask(c) \/ Cancel(c)
        \/ \E a \in pending : Ring(a)
        \/ Advance \/ GoAway

Spec == Init /\ [][Next]_alarmVars
=============================================================================
