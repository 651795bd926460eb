----------------------------- MODULE BufferPool -----------------------------
(***************************************************************************)
(* What an IMemAllocator promises to the filters that share it, without    *)
(* the lock, the semaphore, the reference counts or the deferred decommit  *)
(* of its implementation: a set of identical buffers that may be replaced  *)
(* only while the pool is closed and every buffer is home, that are issued *)
(* only while the pool is open, and of which no buffer is ever issued to a *)
(* second owner before the first one gave it back.                         *)
(***************************************************************************)
EXTENDS Naturals

CONSTANT MaxBuffers   \* bound on the number of buffers a client asks for

VARIABLES open,       \* GetBuffer may succeed
          count,      \* number of buffers provided, named 1..count
          out         \* the buffers issued and not yet returned

poolVars == <<open, count, out>>

Init == open = FALSE /\ count = 0 /\ out = {}

(* The buffers are created, replaced or destroyed; the pool may open.      *)
Provide == /\ ~open
           /\ out = {}
           /\ count' \in 0..MaxBuffers
           /\ open' \in BOOLEAN
           /\ open' => count' > 0
           /\ UNCHANGED out

(* Opening again keeps the buffers, also those that are still out.         *)
Open == ~open /\ count > 0 /\ open' = TRUE /\ UNCHANGED <<count, out>>

Close == open /\ open' = FALSE /\ UNCHANGED <<count, out>>

Issue == /\ open
         /\ \E b \in (1..count) \ out : out' = out \union {b}
         /\ UNCHANGED <<open, count>>

Return == /\ \E b \in out : out' = out \ {b}
          /\ UNCHANGED <<open, count>>

Next == Provide \/ Open \/ Close \/ Issue \/ Return

Spec == Init /\ [][Next]_poolVars
=============================================================================
