------------------------------ MODULE SyncCall ------------------------------
(***************************************************************************)
(* What CAMThread::CallWorker promises: a command is handed to the worker, *)
(* the worker answers it exactly once, and the answer to that command, and *)
(* to no other, is what the call returns; one call at a time.              *)
(***************************************************************************)
CONSTANTS Commands, NoCommand

VARIABLES phase,     \* "none", "asked" or "answered"
          command,   \* the command of the call, while there is one
          answer     \* the command whose answer is waiting for the caller

callVars == <<phase, command, answer>>

Init == phase = "none" /\ command = NoCommand /\ answer = NoCommand

Ask == /\ phase = "none"
       /\ phase' = "asked"
       /\ command' \in Commands
       /\ UNCHANGED answer

Answer == /\ phase = "asked"
          /\ phase' = "answered"
          /\ answer' = command
          /\ UNCHANGED command

Return == /\ phase = "answered"
          /\ phase' = "none" /\ command' = NoCommand /\ answer' = NoCommand

Next == Ask \/ Answer \/ Return

Spec == Init /\ [][Next]_callVars
=============================================================================
