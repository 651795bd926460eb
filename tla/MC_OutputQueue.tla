-------------------------- MODULE MC_OutputQueue --------------------------
(* Small instances of OutputQueue for TLC.                                 *)
EXTENDS OutputQueue

AllCalls == {"Receive", "SendAnyway", "NewSegment", "EOS"}

Mode(q, e, n, o, resets, late) ==
  [queued |-> q, exact |-> e, size |-> n, opt |-> o, resets |-> resets, late |-> late]

(* Batches of one, of up to two and of exactly two samples; an owner that  *)
(* never calls Reset, with and without the flushing optimization, and one  *)
(* that does, whose NewSegment and SendAnyway never run into a flush.      *)
QueuedModes ==
  {Mode(TRUE, FALSE, 1, TRUE, FALSE, AllCalls), Mode(TRUE, FALSE, 2, FALSE, FALSE, AllCalls),
   Mode(TRUE, TRUE, 2, FALSE, FALSE, AllCalls), Mode(TRUE, TRUE, 2, FALSE, TRUE, {"Receive", "EOS"})}
DirectModes == {Mode(FALSE, e, 2, FALSE, TRUE, AllCalls) : e \in BOOLEAN}
AllModes == QueuedModes \union DirectModes
ASSUME AllModesAreUsedWell == UsedWell(AllModes)

ResettingModes == {Mode(TRUE, FALSE, 1, FALSE, TRUE, AllCalls)}
ExactModes == {Mode(TRUE, TRUE, 2, FALSE, FALSE, AllCalls)}

AnyFaults == {"downstream"}
=============================================================================
