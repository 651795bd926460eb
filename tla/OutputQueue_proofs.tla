------------------------- MODULE OutputQueue_proofs -------------------------
(***************************************************************************)
(* Proofs about OutputQueue, for any calls, faults and bounds.             *)
(*                                                                         *)
(* WakeInv: a worker that waits on its semaphore has no packet and no      *)
(* complete batch to send, so no call forgets to wake it.                  *)
(*                                                                         *)
(* OwnInv: what the worker has taken out, the batch, the list and what a   *)
(* call still has form one line of samples, and each of them is owed one   *)
(* release; so no sample is lost, repeated or overtaken.                   *)
(*                                                                         *)
(* EraInv, where UsedWell holds: what is in the line was handed over after *)
(* the last flush, for EndFlush goes on only when nothing else is left.    *)
(***************************************************************************)
EXTENDS OutputQueue, TLAPS, FiniteSetTheorems, WellFoundedInduction

Entry == [kind : {"sample", "SEND_PACKET", "EOS_PACKET", "RESET_PACKET", "NEW_SEGMENT",
                  "packet"},
          id : Nat, era : Nat]

(* There is a worker in queued mode only; its wait is announced until it   *)
(* is signalled, and then the semaphore has its one count.                 *)
WaitInv ==
  /\ mode \in Modes
  /\ wpc = "none" <=> ~mode.queued
  /\ m_lWaiting \in 0 .. 1 /\ m_hSem \in 0 .. 1
  /\ m_lWaiting + m_hSem = IF wpc = "wait" THEN 1 ELSE 0

(* What is queued while the worker waits; what a call brings.              *)
EntriesInv ==
  /\ era \in Nat /\ sent \in Nat
  /\ wpc = "wait" => m_List \in Seq(Entry)
  /\ spc = "call" => todo \in Seq(Entry)
  /\ spc = "call" /\ call = "Receive" => \A i \in DOMAIN todo : IsSample(todo[i])

(* The steps of a call that fill a batch and send it themselves.           *)
DirectInv == spc \in {"anyway", "batch", "deliver", "segment", "eos"} => ~mode.queued

WakeInv == WaitInv /\ EntriesInv /\ DirectInv /\ WorkerNotForgotten

LEMMA InitHolds == Init => WakeInv
<1> SUFFICES ASSUME Init PROVE WakeInv
  OBVIOUS
<1>1. mode \in Modes /\ mode.queued \in BOOLEAN
  BY ModesAreModes DEF Init
<1> QED
  BY <1>1 DEF Init, WakeInv, WaitInv, EntriesInv, DirectInv, WorkerNotForgotten, wait

(* Steps that touch neither the worker's wait nor what a call has under    *)
(* way need no more than this.                                             *)
LEMMA Elsewhere ==
  ASSUME WakeInv, UNCHANGED <<mode, wpc, m_List, wait, m_bTerminate, spc, call, todo, sent>>,
         era' \in Nat, m_ppSamples' = m_ppSamples \/ ~mode.queued
  PROVE  WakeInv'
<1>1. WaitInv' /\ DirectInv' /\ EntriesInv'
  BY DEF WakeInv, WaitInv, DirectInv, EntriesInv, wait, IsSample
<1>2. WorkerNotForgotten'
  BY DEF WakeInv, WorkerNotForgotten, WaitInv, wait, BatchExact, IsSample
<1> QED
  BY <1>1, <1>2 DEF WakeInv

(* The worker's steps between two waits, and into one: with nothing to do. *)
LEMMA WorkerKeeps == ASSUME WakeInv, WorkerStep PROVE WakeInv'
<1>1. UNCHANGED <<mode, era, callers>> /\ wpc # "none" /\ wpc' # "none"
  BY DEF WorkerStep, Terminate, FlushQueue, GetBatch, GetLast, Wait, StartSend, SkipSend, AfterSend,
     NextRound, Deliver, StoreResult, CheckEos, SendEos, SendNewSegment, ClearResult,
     SignalReset, MayGet, fixed, callers, stream, control
<1>2. DirectInv'
  BY <1>1 DEF WakeInv, DirectInv, callers, stream
<1>3. wpc' = "wait" => /\ m_List' = <<>> /\ ~m_bTerminate'
                        /\ m_lWaiting' = 1 /\ m_hSem' = 0
  <2>1. wpc # "wait" => m_lWaiting = 0 /\ m_hSem = 0
    BY DEF WakeInv, WaitInv
  <2> QED
    BY <2>1 DEF WorkerStep, Terminate, FlushQueue, GetBatch, GetLast, Wait, StartSend, SkipSend,
       AfterSend, NextRound, Deliver, StoreResult, CheckEos, SendEos, SendNewSegment, ClearResult,
       SignalReset, MayGet, FreeSamples, wait, flags
<1>4. wpc' # "wait" => m_lWaiting' = 0 /\ m_hSem' = 0
  <2>1. IF Wait THEN m_lWaiting = 0 /\ m_hSem = 1
        ELSE wpc # "wait" /\ m_lWaiting = 0 /\ m_hSem = 0
    BY DEF WakeInv, WaitInv, WorkerStep, Terminate, FlushQueue, GetBatch, GetLast, Wait, StartSend,
       SkipSend, Deliver, StoreResult, CheckEos, SendEos, SendNewSegment,
       ClearResult, SignalReset, MayGet
  <2>2. CASE Wait
    BY <2>1, <2>2 DEF Wait
  <2>3. CASE ~Wait /\ wpc' # "wait"
    BY <2>1, <2>3 DEF WorkerStep, Terminate, FlushQueue, GetBatch, GetLast, StartSend,
       SkipSend, Deliver, StoreResult, CheckEos, SendEos, SendNewSegment,
       ClearResult, SignalReset, wait, queueState
  <2> QED
    BY <2>2, <2>3
<1>5. WaitInv'
  BY <1>1, <1>3, <1>4 DEF WakeInv, WaitInv
<1>6. EntriesInv'
  <2>1. call' = call /\ spc' = spc /\ todo' = todo /\ sent' = sent /\ era' = era
    BY <1>1 DEF callers, stream
  <2>2. <<>> \in Seq(Entry)
    OBVIOUS
  <2> QED
    BY <1>3, <2>1, <2>2 DEF WakeInv, EntriesInv, IsSample
<1>7. WorkerNotForgotten'
  BY <1>3 DEF WorkerNotForgotten
<1> QED
  BY <1>2, <1>5, <1>6, <1>7 DEF WakeInv

(* Whoever puts something on the list wakes the worker, or has made sure   *)
(* that it completes no batch.                                             *)
LEMMA QueueKeeps ==
  ASSUME WakeInv, NEW s \in Seq(Entry), QueueSamples(s), UNCHANGED <<mode, era, wpc, sent>>,
         UNCHANGED <<m_ppSamples, m_bTerminate>>,
         \/ NotifyThread
         \/ /\ UNCHANGED wait /\ BatchExact /\ ~BatchIsFull
            /\ \A i \in DOMAIN s : IsSample(s[i])
  PROVE  WaitInv' /\ (wpc' = "wait" => m_List' \in Seq(Entry)) /\ WorkerNotForgotten'
<1>1. WaitInv'
  BY DEF WakeInv, WaitInv, wait, NotifyThread
<1>2. wpc = "wait" => m_List \in Seq(Entry) /\ m_List' = m_List \o s /\ m_List' \in Seq(Entry)
  BY DEF WakeInv, EntriesInv, QueueSamples
<1>3. CASE NotifyThread
  <2>1. wpc = "wait" => m_hSem' = 1
    BY <1>3 DEF NotifyThread, WakeInv, WaitInv, wait
  <2> QED
    BY <1>1, <1>2, <2>1 DEF WorkerNotForgotten
<1>4. CASE /\ UNCHANGED wait /\ BatchExact /\ ~BatchIsFull
           /\ \A i \in DOMAIN s : IsSample(s[i])
  <2> SUFFICES ASSUME wpc = "wait", m_hSem = 0
               PROVE  WorkerNotForgotten'
    BY <1>1, <1>2, <1>4 DEF WorkerNotForgotten, wait
  <2>1. m_lWaiting = 1 /\ ~m_bTerminate /\ \A i \in DOMAIN m_List : IsSample(m_List[i])
    BY <1>2 DEF WakeInv, WorkerNotForgotten
  <2>2. \A i \in DOMAIN m_List' : IsSample(m_List'[i])
    <3>1. m_List' = m_List \o s /\ m_List \in Seq(Entry)
      BY <1>2
    <3> SUFFICES ASSUME NEW i \in DOMAIN m_List' PROVE m_List'[i].kind = "sample"
      BY DEF IsSample
    <3>2. i \in 1 .. Len(m_List) + Len(s)
      BY <3>1
    <3>3. CASE i \in 1 .. Len(m_List)
      BY <2>1, <3>1, <3>3 DEF IsSample
    <3>4. CASE i \notin 1 .. Len(m_List)
      <4>1. m_List'[i] = s[i - Len(m_List)] /\ i - Len(m_List) \in DOMAIN s
        BY <3>1, <3>2, <3>4
      <4> QED
        BY <1>4, <4>1 DEF IsSample
    <3> QED
      BY <3>3, <3>4
  <2>3. BatchExact' /\ ~(Len(m_ppSamples') + Len(m_List') >= mode'.size)
    BY <1>4 DEF BatchExact, BatchIsFull
  <2>4. m_lWaiting' = 1 /\ ~m_bTerminate'
    BY <1>4, <2>1 DEF wait
  <2> QED
    BY <2>2, <2>3, <2>4 DEF WorkerNotForgotten
<1> QED
  BY <1>1, <1>2, <1>3, <1>4

PacketKinds == {"SEND_PACKET", "EOS_PACKET", "RESET_PACKET", "NEW_SEGMENT", "packet"}

LEMMA PacketsAreEntries ==
  ASSUME WakeInv, NEW k \in PacketKinds, NEW j \in PacketKinds
  PROVE  <<Packet(k)>> \in Seq(Entry) /\ <<Packet(k), Packet(j)>> \in Seq(Entry)
<1>1. Packet(k) \in Entry /\ Packet(j) \in Entry
  BY DEF Packet, Entry, WakeInv, EntriesInv, PacketKinds
<1> QED
  BY <1>1

LEMMA StartCallKeeps == ASSUME WakeInv, StartCall PROVE WakeInv'
<1> PICK c \in Calls, n \in 0 .. 2 :
      /\ call' = c /\ sent' = sent + n
      /\ todo' = [i \in 1 .. n |-> Sample(sent + i)]
  BY DEF StartCall
<1>1. spc' = "call" /\ UNCHANGED <<queueState, fixed, worker>>
  BY DEF StartCall
<1>2. sent \in Nat /\ era \in Nat
  BY DEF WakeInv, EntriesInv
<1>3. \A i \in 1 .. n : Sample(sent + i) \in Entry /\ IsSample(Sample(sent + i))
  BY <1>2 DEF Sample, Entry, IsSample
<1>4. todo' \in Seq(Entry) /\ \A i \in DOMAIN todo' : IsSample(todo'[i])
  BY <1>3
<1>5. WaitInv' /\ DirectInv' /\ WorkerNotForgotten'
  BY <1>1 DEF WakeInv, WaitInv, DirectInv, WorkerNotForgotten, queueState, queue, wait, flags,
     fixed, worker, BatchExact, IsSample
<1>6. EntriesInv'
  BY <1>1, <1>2, <1>4 DEF EntriesInv, WakeInv, fixed, queueState, queue, worker, IsSample
<1> QED
  BY <1>5, <1>6 DEF WakeInv

(* The calls of the streaming thread.                                      *)
LEMMA StreamKeeps == ASSUME WakeInv, StreamStep PROVE WakeInv'
<1>1. UNCHANGED <<mode, era, sent, wpc, m_bTerminate>>
  BY DEF StreamStep, Discard, QueueReceive, QueueSendAnyway, QueueEos, CheckNewSegment,
     QueueNewSegment, DirectReceive, FillBatch, DirectDeliver, DirectSendAnyway, DirectEos,
     BatchDone, DirectSendEos, DirectNewSegment, fixed, stream, worker, flags, queueState
<1>2. spc' # "call" /\ (mode.queued => spc' \notin {"anyway", "batch", "deliver", "segment", "eos"})
  BY DEF WakeInv, DirectInv, StreamStep, Discard, QueueReceive, QueueSendAnyway, QueueEos,
     CheckNewSegment, QueueNewSegment, DirectReceive, FillBatch, DirectDeliver, DirectSendAnyway,
     DirectEos, BatchDone, DirectSendEos, DirectNewSegment, Return
<1>3. DirectInv' /\ era' \in Nat /\ sent' \in Nat
  BY <1>1, <1>2 DEF DirectInv, WakeInv, EntriesInv
<1>4. \/ UNCHANGED <<m_List, wait>> /\ (m_ppSamples' = m_ppSamples \/ ~mode.queued)
      \/ QueueReceive \/ QueueSendAnyway \/ QueueEos \/ QueueNewSegment
  BY DEF WakeInv, DirectInv, StreamStep, Discard,
     CheckNewSegment, DirectReceive, FillBatch, DirectDeliver, DirectSendAnyway,
     DirectEos, BatchDone, DirectSendEos, DirectNewSegment, Return, queueState, queue
<1>5. ASSUME UNCHANGED <<m_List, wait>>, m_ppSamples' = m_ppSamples \/ ~mode.queued
      PROVE  WaitInv' /\ (wpc' = "wait" => m_List' \in Seq(Entry)) /\ WorkerNotForgotten'
  BY <1>1, <1>5 DEF WakeInv, WaitInv, EntriesInv, WorkerNotForgotten, wait, BatchExact, IsSample
<1>6. CASE QueueReceive
  <2>1. todo \in Seq(Entry) /\ \A i \in DOMAIN todo : IsSample(todo[i])
    BY <1>6 DEF QueueReceive, WakeInv, EntriesInv
  <2>2. QueueSamples(todo) /\ UNCHANGED m_ppSamples
        /\ (NotifyThread \/ (UNCHANGED wait /\ BatchExact /\ ~BatchIsFull))
    BY <1>6 DEF QueueReceive
  <2>3. WaitInv' /\ (wpc' = "wait" => m_List' \in Seq(Entry)) /\ WorkerNotForgotten'
    BY <1>1, <2>1, <2>2, QueueKeeps
  <2> QED
    BY <1>2, <1>3, <2>3 DEF WakeInv, EntriesInv
<1>7. ASSUME NEW s \in Seq(Entry), QueueSamples(s), NotifyThread, UNCHANGED m_ppSamples
      PROVE  WakeInv'
  BY <1>1, <1>2, <1>3, <1>7, QueueKeeps DEF WakeInv, EntriesInv
<1>8. CASE QueueSendAnyway
  BY <1>7, <1>8, PacketsAreEntries DEF QueueSendAnyway, PacketKinds
<1>9. CASE QueueEos /\ m_hr = "S_OK"
  BY <1>7, <1>9, PacketsAreEntries DEF QueueEos, PacketKinds
<1>10. CASE QueueEos /\ m_hr # "S_OK"
  BY <1>2, <1>3, <1>5, <1>10 DEF QueueEos, WakeInv, EntriesInv
<1>11. CASE QueueNewSegment
  BY <1>7, <1>11, PacketsAreEntries DEF QueueNewSegment, PacketKinds
<1> QED
  BY <1>2, <1>3, <1>4, <1>5, <1>6, <1>8, <1>9, <1>10, <1>11 DEF WakeInv, EntriesInv

(* The calls of the control thread and what is left of them.               *)
LEMMA ControlKeeps == ASSUME WakeInv, ControlCall \/ ControlStep PROVE WakeInv'
<1>1. UNCHANGED <<mode, stream, wpc>>
  BY DEF ControlCall, ControlStep, BeginFlush, EndFlushNoop, EndFlush, DirectReset, Reset,
     DestroyDirect, Destroy, BeginFlushLocked, DeliverBeginFlush, WaitComplete, LeaveFlush,
     DeliverEndFlush, EndFlushReturn, Join, fixed, worker, callers
<1>2. era' \in Nat
  BY DEF WakeInv, EntriesInv, ControlCall, ControlStep, BeginFlush, EndFlushNoop, EndFlush,
     DirectReset, Reset, DestroyDirect, Destroy, BeginFlushLocked, DeliverBeginFlush, WaitComplete,
     LeaveFlush,
     DeliverEndFlush, EndFlushReturn, Join, fixed
<1>3. DirectInv' /\ (EntriesInv' <=> (wpc' = "wait" => m_List' \in Seq(Entry)))
  BY <1>1, <1>2 DEF WakeInv, DirectInv, EntriesInv, stream, IsSample
<1>4. CASE Reset
  <2>1. <<Packet("RESET_PACKET")>> \in Seq(Entry)
    BY PacketsAreEntries DEF PacketKinds
  <2>2. QueueSamples(<<Packet("RESET_PACKET")>>) /\ NotifyThread
        /\ UNCHANGED <<mode, era, wpc, sent>> /\ UNCHANGED <<m_ppSamples, m_bTerminate>>
    BY <1>1, <1>4 DEF Reset, fixed, flags, stream
  <2>3. WaitInv' /\ (wpc' = "wait" => m_List' \in Seq(Entry)) /\ WorkerNotForgotten'
    BY <2>1, <2>2, QueueKeeps
  <2> QED
    BY <1>3, <2>3 DEF WakeInv
<1>5. ASSUME NotifyThread, UNCHANGED queue PROVE WakeInv'
  <2>1. WaitInv' /\ (wpc' = "wait" => m_hSem' = 1)
    BY <1>1, <1>5 DEF WakeInv, WaitInv, wait, NotifyThread
  <2>2. EntriesInv'
    BY <1>1, <1>3, <1>5 DEF WakeInv, EntriesInv, queue
  <2> QED
    BY <1>3, <2>1, <2>2 DEF WakeInv, WorkerNotForgotten
<1>6. CASE Destroy
  BY <1>5, <1>6 DEF Destroy
<1>7. CASE BeginFlushLocked /\ NotifyThread
  BY <1>5, <1>7 DEF BeginFlushLocked
<1>8. CASE EndFlush \/ DestroyDirect
  <2>1. UNCHANGED <<wait, m_bTerminate>> /\ (~mode.queued \/ UNCHANGED queue)
    BY <1>8 DEF EndFlush, DestroyDirect, flags
  <2>2. CASE ~mode.queued
    BY <1>1, <1>3, <2>1, <2>2 DEF WakeInv, WaitInv, WorkerNotForgotten, wait
  <2>3. CASE UNCHANGED queue
    BY <1>1, <1>2, <2>1, <2>3, Elsewhere DEF queue, stream
  <2> QED
    BY <2>1, <2>2, <2>3
<1>9. \/ Reset \/ Destroy \/ (BeginFlushLocked /\ NotifyThread) \/ EndFlush \/ DestroyDirect
      \/ UNCHANGED <<queue, wait, m_bTerminate>>
  BY DEF ControlCall, ControlStep, BeginFlush, EndFlushNoop, DirectReset, BeginFlushLocked,
     DeliverBeginFlush, WaitComplete, LeaveFlush, DeliverEndFlush, EndFlushReturn, Join,
     queueState, flags
<1>10. CASE UNCHANGED <<queue, wait, m_bTerminate>>
  BY <1>1, <1>2, <1>10, Elsewhere DEF queue, stream
<1> QED
  BY <1>4, <1>6, <1>7, <1>8, <1>9, <1>10

LEMMA WakeKept == ASSUME WakeInv, [Next]_vars PROVE WakeInv'
<1>1. era \in Nat
  BY DEF WakeInv, EntriesInv
<1>2. CASE UNCHANGED vars
  BY <1>1, <1>2, Elsewhere DEF vars, fixed, queueState, queue, flags, worker, callers, stream
<1>3. CASE DownstreamPause
  BY <1>1, <1>3, Elsewhere DEF DownstreamPause, fixed, queueState, queue, flags, worker, callers,
     stream
<1> QED
  BY <1>2, <1>3, WorkerKeeps, StartCallKeeps, StreamKeeps, ControlKeeps DEF Next, Destroyed

(* A worker that is blocked on its semaphore has announced it, and has     *)
(* left no packet and no complete batch behind, however the calls of both  *)
(* threads meet its rounds (SendAnyway, BeginFlush and ~COutputQueue wake  *)
(* it, ReceiveMultiple when the batch is full).                            *)
THEOREM WorkerIsNeverForgotten == Spec => []WorkerNotForgotten
<1>1. WakeInv => WorkerNotForgotten
  BY DEF WakeInv
<1> QED
  BY <1>1, InitHolds, WakeKept, PTL DEF Spec
-----------------------------------------------------------------------------
(***************************************************************************)
(* Sequences of samples and packets                                        *)
(***************************************************************************)

InOrder(s) ==
  \A i, j \in DOMAIN s : i < j /\ IsSample(s[i]) /\ IsSample(s[j]) => s[i].id < s[j].id
AllSamples(s) == \A i \in DOMAIN s : IsSample(s[i])
Before(I, J) == \A i \in I, j \in J : i < j

LEMMA LeastNumber ==
  ASSUME NEW W, W \subseteq Nat, W # {}
  PROVE  \E x \in W : \A y \in W : x <= y
<1>1. PICK x \in W : \A y \in W : ~(<<y, x>> \in OpToRel(<, Nat))
  BY NatLessThanWellFounded, WFMin
<1>2. \A y \in W : ~(y < x)
  BY <1>1 DEF OpToRel
<1> QED
  BY <1>2

LEMMA CountType ==
  ASSUME NEW s, NEW i \in Nat
  PROVE  IsFiniteSet(SamplesUpTo(s, i)) /\ Cardinality(SamplesUpTo(s, i)) \in Nat
<1>1. IsFiniteSet(1 .. i)
  BY FS_Interval
<1>2. SamplesUpTo(s, i) \subseteq 1 .. i
  BY DEF SamplesUpTo
<1>3. IsFiniteSet(SamplesUpTo(s, i))
  BY <1>1, <1>2, FS_Subset
<1> QED
  BY <1>3, FS_CardinalityType

LEMMA CountNone == \A s : Cardinality(SamplesUpTo(s, 0)) = 0
<1> TAKE s
<1>1. SamplesUpTo(s, 0) = {}
  BY DEF SamplesUpTo
<1> QED
  BY <1>1, FS_EmptySet

LEMMA CountStep ==
  ASSUME NEW s, NEW i \in Nat
  PROVE  Cardinality(SamplesUpTo(s, i + 1)) =
           IF IsSample(s[i + 1]) THEN Cardinality(SamplesUpTo(s, i)) + 1
           ELSE Cardinality(SamplesUpTo(s, i))
<1>1. CASE IsSample(s[i + 1])
  <2>1. SamplesUpTo(s, i + 1) = SamplesUpTo(s, i) \union {i + 1} /\ i + 1 \notin SamplesUpTo(s, i)
    BY <1>1 DEF SamplesUpTo
  <2> QED
    BY <1>1, <2>1, CountType, FS_AddElement
<1>2. CASE ~IsSample(s[i + 1])
  <2>1. SamplesUpTo(s, i + 1) = SamplesUpTo(s, i)
    BY <1>2 DEF SamplesUpTo
  <2> QED
    BY <1>2, <2>1
<1> QED
  BY <1>1, <1>2

LEMMA CountGrows ==
  ASSUME NEW s, NEW i \in Nat, NEW j \in Nat, i <= j
  PROVE  /\ Cardinality(SamplesUpTo(s, i)) <= Cardinality(SamplesUpTo(s, j))
         /\ i < j /\ IsSample(s[j]) =>
              Cardinality(SamplesUpTo(s, i)) < Cardinality(SamplesUpTo(s, j))
<1>1. ASSUME NEW k \in Nat, i <= k
      PROVE  Cardinality(SamplesUpTo(s, i)) <= Cardinality(SamplesUpTo(s, k))
  <2>1. SamplesUpTo(s, i) \subseteq SamplesUpTo(s, k)
    BY <1>1 DEF SamplesUpTo
  <2> QED
    BY <2>1, CountType, FS_Subset
<1>2. ASSUME i < j, IsSample(s[j])
      PROVE  Cardinality(SamplesUpTo(s, i)) < Cardinality(SamplesUpTo(s, j))
  <2>1. j - 1 \in Nat /\ i <= j - 1 /\ (j - 1) + 1 = j
    BY <1>2
  <2>2. Cardinality(SamplesUpTo(s, j)) = Cardinality(SamplesUpTo(s, j - 1)) + 1
    BY <1>2, <2>1, CountStep
  <2> QED
    BY <1>1, <2>1, <2>2, CountType
<1> QED
  BY <1>1, <1>2

(* Counting the samples one by one reaches every number.                   *)
LEMMA NthIsThere ==
  ASSUME NEW s \in Seq(Item), NEW n \in 1 .. Cardinality(SamplesUpTo(s, Len(s)))
  PROVE  /\ Nth(s, n) \in DOMAIN s /\ IsSample(s[Nth(s, n)])
         /\ Cardinality(SamplesUpTo(s, Nth(s, n))) = n
<1> DEFINE W == {i \in Nat : Cardinality(SamplesUpTo(s, i)) >= n}
<1>1. Len(s) \in W /\ n \in Nat
  BY CountType
<1>2. PICK i \in W : \A j \in W : i <= j
  BY <1>1, LeastNumber
<1>3. i # 0
  BY <1>1, CountNone
<1>4. i - 1 \in Nat /\ (i - 1) + 1 = i /\ i - 1 \notin W
  BY <1>2, <1>3
<1>5. Cardinality(SamplesUpTo(s, i)) >= n /\ ~(Cardinality(SamplesUpTo(s, i - 1)) >= n)
  BY <1>4
<1>6. IsSample(s[i]) /\ Cardinality(SamplesUpTo(s, i)) = n
  <2>1. Cardinality(SamplesUpTo(s, (i - 1) + 1)) =
          IF IsSample(s[(i - 1) + 1]) THEN Cardinality(SamplesUpTo(s, i - 1)) + 1
          ELSE Cardinality(SamplesUpTo(s, i - 1))
    BY <1>4, CountStep
  <2>2. Cardinality(SamplesUpTo(s, i)) \in Nat /\ Cardinality(SamplesUpTo(s, i - 1)) \in Nat
    BY <1>4, CountType
  <2> QED
    BY <1>1, <1>4, <1>5, <2>1, <2>2
<1>7. i \in DOMAIN s
  BY <1>1, <1>2, <1>3
<1> HIDE DEF W
<1> QED
  BY <1>6, <1>7 DEF Nth

LEMMA NthGrows ==
  ASSUME NEW s \in Seq(Item), NEW m \in 1 .. Cardinality(SamplesUpTo(s, Len(s))),
         NEW n \in 1 .. Cardinality(SamplesUpTo(s, Len(s))), m < n
  PROVE  Nth(s, m) < Nth(s, n)
<1>1. Nth(s, m) \in Nat /\ Nth(s, n) \in Nat
  BY NthIsThere
<1>2. Cardinality(SamplesUpTo(s, Nth(s, m))) = m /\ Cardinality(SamplesUpTo(s, Nth(s, n))) = n
  BY NthIsThere
<1>3. ~(Nth(s, n) <= Nth(s, m))
  BY <1>1, <1>2, CountGrows, CountType
<1> QED
  BY <1>1, <1>3

LEMMA NthOfCount ==
  ASSUME NEW s \in Seq(Item), NEW i \in DOMAIN s, IsSample(s[i])
  PROVE  /\ Cardinality(SamplesUpTo(s, i)) \in 1 .. Cardinality(SamplesUpTo(s, Len(s)))
         /\ Nth(s, Cardinality(SamplesUpTo(s, i))) = i
<1> DEFINE n == Cardinality(SamplesUpTo(s, i))
<1>1. i \in Nat /\ 0 < i /\ i <= Len(s) /\ Len(s) \in Nat
  OBVIOUS
<1>2. n \in Nat /\ 0 < n /\ n <= Cardinality(SamplesUpTo(s, Len(s)))
  <2>1. Cardinality(SamplesUpTo(s, 0)) < n
    BY <1>1, CountGrows
  <2>2. n \in Nat /\ n <= Cardinality(SamplesUpTo(s, Len(s)))
    BY <1>1, CountGrows, CountType
  <2> QED
    BY <2>1, <2>2, CountNone
<1>3. Cardinality(SamplesUpTo(s, Len(s))) \in Nat
  BY <1>1, CountType
<1>4. n \in 1 .. Cardinality(SamplesUpTo(s, Len(s)))
  BY <1>2, <1>3
<1>5. Nth(s, n) \in DOMAIN s /\ IsSample(s[Nth(s, n)]) /\ Cardinality(SamplesUpTo(s, Nth(s, n))) = n
  BY <1>4, NthIsThere
<1>6. ~(Nth(s, n) < i) /\ ~(i < Nth(s, n))
  BY <1>1, <1>2, <1>5, CountGrows
<1> QED
  BY <1>1, <1>4, <1>5, <1>6

LEMMA IdsOf == \A s \in Seq(Item) : Ids(s) = {s[i].id : i \in {j \in DOMAIN s : IsSample(s[j])}}
  BY DEF Ids, SamplesUpTo

(* SamplesOf returns the samples of a sequence, all of them, in order.     *)
LEMMA SamplesOfIsTheSamples ==
  ASSUME NEW s \in Seq(Item)
  PROVE  /\ SamplesOf(s) \in Seq(Item) /\ AllSamples(SamplesOf(s))
         /\ Len(SamplesOf(s)) = Cardinality(SamplesUpTo(s, Len(s)))
         /\ Ids(SamplesOf(s)) = Ids(s)
         /\ InOrder(s) => InOrder(SamplesOf(s))
         /\ Range(SamplesOf(s)) \subseteq Range(s)
<1> DEFINE n == Cardinality(SamplesUpTo(s, Len(s)))
           t == SamplesOf(s)
<1>1. n \in Nat
  BY CountType
<1>2. \A i \in 1 .. n : Nth(s, i) \in DOMAIN s /\ IsSample(s[Nth(s, i)]) /\ s[Nth(s, i)] \in Item
  BY NthIsThere
<1>3. t = [i \in 1 .. n |-> s[Nth(s, i)]]
  BY DEF SamplesOf
<1> HIDE DEF n, t
<1>4. t \in Seq(Item) /\ Len(t) = n /\ \A i \in 1 .. n : t[i] = s[Nth(s, i)]
  BY <1>1, <1>2, <1>3
<1>5. AllSamples(t)
  BY <1>1, <1>2, <1>4 DEF AllSamples
<1>6. Ids(t) = Ids(s)
  <2>1. Ids(t) = {t[i].id : i \in 1 .. n}
    BY <1>1, <1>4, <1>5, IdsOf DEF AllSamples
  <2>2. ASSUME NEW i \in 1 .. n PROVE t[i].id \in Ids(s)
    BY <1>2, <1>4, IdsOf
  <2>3. ASSUME NEW j \in DOMAIN s, IsSample(s[j])
        PROVE  \E i \in 1 .. n : t[i].id = s[j].id
    <3>1. Cardinality(SamplesUpTo(s, j)) \in 1 .. n /\ Nth(s, Cardinality(SamplesUpTo(s, j))) = j
      BY <2>3, NthOfCount DEF n
    <3> QED
      BY <1>4, <3>1
  <2> QED
    BY <2>1, <2>2, <2>3, IdsOf
<1>7. ASSUME InOrder(s) PROVE InOrder(t)
  <2> SUFFICES ASSUME NEW i \in 1 .. n, NEW j \in 1 .. n, i < j PROVE t[i].id < t[j].id
    BY <1>1, <1>4 DEF InOrder
  <2>1. Nth(s, i) < Nth(s, j)
    BY NthGrows DEF n
  <2> QED
    BY <1>2, <1>4, <1>7, <2>1 DEF InOrder
<1>8. Range(t) \subseteq Range(s)
  BY <1>1, <1>2, <1>4 DEF Range
<1> QED
  BY <1>4, <1>5, <1>6, <1>7, <1>8 DEF n, t

LEMMA Joined ==
  ASSUME NEW r \in Seq(Item), NEW s \in Seq(Item)
  PROVE  /\ r \o s \in Seq(Item) /\ Len(r \o s) = Len(r) + Len(s)
         /\ Range(r \o s) = Range(r) \union Range(s)
         /\ Ids(r \o s) = Ids(r) \union Ids(s)
         /\ AllSamples(r) /\ AllSamples(s) => AllSamples(r \o s)
         /\ InOrder(r) /\ InOrder(s) /\ Before(Ids(r), Ids(s)) => InOrder(r \o s)
<1> DEFINE t == r \o s
<1>1. t \in Seq(Item) /\ Len(t) = Len(r) + Len(s) /\ Len(r) \in Nat /\ Len(s) \in Nat
  OBVIOUS
<1>2. \A i \in 1 .. Len(r) : i \in DOMAIN r /\ i \in DOMAIN t /\ t[i] = r[i]
  OBVIOUS
<1>3. \A i \in 1 .. Len(s) : i \in DOMAIN s /\ Len(r) + i \in DOMAIN t /\ t[Len(r) + i] = s[i]
  OBVIOUS
<1>4. \A i \in DOMAIN t : \/ i \in 1 .. Len(r) /\ t[i] = r[i]
                          \/ i - Len(r) \in 1 .. Len(s) /\ t[i] = s[i - Len(r)]
  OBVIOUS
<1> HIDE DEF t
<1>5. \A i \in DOMAIN t : (\E j \in DOMAIN r : t[i] = r[j]) \/ (\E j \in DOMAIN s : t[i] = s[j])
  BY <1>2, <1>3, <1>4
<1>6. Ids(t) = Ids(r) \union Ids(s)
  <2>1. ASSUME NEW i \in DOMAIN t, IsSample(t[i]) PROVE t[i].id \in Ids(r) \union Ids(s)
    BY <1>5, <2>1, IdsOf
  <2>2. ASSUME NEW i \in DOMAIN r, IsSample(r[i]) PROVE r[i].id \in Ids(t)
    <3>1. i \in DOMAIN t /\ t[i] = r[i]
      BY <1>2
    <3> QED
      BY <1>1, <2>2, <3>1, IdsOf
  <2>3. ASSUME NEW i \in DOMAIN s, IsSample(s[i]) PROVE s[i].id \in Ids(t)
    <3>1. Len(r) + i \in DOMAIN t /\ t[Len(r) + i] = s[i]
      BY <1>3
    <3> QED
      BY <1>1, <2>3, <3>1, IdsOf
  <2> QED
    BY <1>1, <2>1, <2>2, <2>3, IdsOf, SMTT(30)
<1>7. AllSamples(r) /\ AllSamples(s) => AllSamples(t)
  BY <1>5 DEF AllSamples, IsSample
<1>8. ASSUME InOrder(r), InOrder(s), Before(Ids(r), Ids(s)) PROVE InOrder(t)
  <2> SUFFICES ASSUME NEW i \in DOMAIN t, NEW j \in DOMAIN t, i < j,
                      IsSample(t[i]), IsSample(t[j])
               PROVE  t[i].id < t[j].id
    BY DEF InOrder
  <2>1. i \in Nat /\ j \in Nat
    BY <1>1
  <2>2. CASE i \in 1 .. Len(r) /\ j \in 1 .. Len(r)
    BY <1>2, <1>8, <2>2 DEF InOrder
  <2>3. CASE i \in 1 .. Len(r) /\ j \notin 1 .. Len(r)
    <3>1. t[i] = r[i] /\ j - Len(r) \in 1 .. Len(s) /\ t[j] = s[j - Len(r)]
      BY <1>2, <1>4, <2>3
    <3>2. t[i].id \in Ids(r) /\ t[j].id \in Ids(s)
      BY <2>3, <3>1, IdsOf
    <3> QED
      BY <1>8, <3>2 DEF Before
  <2>4. CASE i \notin 1 .. Len(r)
    <3>1. i - Len(r) \in 1 .. Len(s) /\ t[i] = s[i - Len(r)]
      BY <1>4, <2>4
    <3>2. j \notin 1 .. Len(r)
      BY <1>1, <2>1, <2>4
    <3>3. j - Len(r) \in 1 .. Len(s) /\ t[j] = s[j - Len(r)]
      BY <1>4, <3>2
    <3>4. i - Len(r) < j - Len(r)
      BY <1>1, <2>1
    <3> QED
      BY <1>8, <3>1, <3>3, <3>4 DEF InOrder
  <2> QED
    BY <2>2, <2>3, <2>4
<1>9. Range(t) = Range(r) \union Range(s)
  <2>1. Range(r) \subseteq Range(t)
    BY <1>2 DEF Range
  <2>2. Range(s) \subseteq Range(t)
    BY <1>3 DEF Range
  <2>3. Range(t) \subseteq Range(r) \union Range(s)
    BY <1>5 DEF Range
  <2> QED
    BY <2>1, <2>2, <2>3
<1> QED
  BY <1>1, <1>6, <1>7, <1>8, <1>9 DEF t

LEMMA Part ==
  ASSUME NEW s \in Seq(Item), NEW m \in Nat \ {0}, NEW n \in 0 .. Len(s)
  PROVE  /\ SubSeq(s, m, n) \in Seq(Item)
         /\ Len(SubSeq(s, m, n)) = IF m <= n THEN n - m + 1 ELSE 0
         /\ \A i \in DOMAIN SubSeq(s, m, n) :
              i + m - 1 \in m .. n /\ i + m - 1 \in DOMAIN s /\ SubSeq(s, m, n)[i] = s[i + m - 1]
         /\ \A i \in m .. n :
              i - m + 1 \in DOMAIN SubSeq(s, m, n) /\ SubSeq(s, m, n)[i - m + 1] = s[i]
         /\ Range(SubSeq(s, m, n)) \subseteq Range(s)
         /\ AllSamples(s) => AllSamples(SubSeq(s, m, n))
         /\ InOrder(s) => InOrder(SubSeq(s, m, n))
<1> DEFINE t == SubSeq(s, m, n)
<1>1. t \in Seq(Item) /\ Len(t) = IF m <= n THEN n - m + 1 ELSE 0
  OBVIOUS
<1>2. \A i \in 1 .. Len(t) : i + m - 1 \in m .. n /\ i + m - 1 \in DOMAIN s /\ t[i] = s[i + m - 1]
  OBVIOUS
<1>3. \A i \in m .. n : i - m + 1 \in 1 .. Len(t) /\ t[i - m + 1] = s[i]
  BY <1>1
<1> HIDE DEF t
<1>4. DOMAIN t = 1 .. Len(t)
  BY <1>1
<1>5. AllSamples(s) => AllSamples(t)
  BY <1>2, <1>4 DEF AllSamples
<1>6. ASSUME InOrder(s) PROVE InOrder(t)
  <2> SUFFICES ASSUME NEW i \in DOMAIN t, NEW j \in DOMAIN t, i < j,
                      IsSample(t[i]), IsSample(t[j])
               PROVE  t[i].id < t[j].id
    BY DEF InOrder
  <2>1. t[i] = s[i + m - 1] /\ t[j] = s[j + m - 1] /\ i + m - 1 < j + m - 1
        /\ i + m - 1 \in DOMAIN s /\ j + m - 1 \in DOMAIN s
    BY <1>1, <1>2, <1>4
  <2> QED
    BY <1>6, <2>1 DEF InOrder
<1>7. Range(t) \subseteq Range(s)
  BY <1>2, <1>4 DEF Range
<1> QED
  BY <1>1, <1>2, <1>3, <1>4, <1>5, <1>6, <1>7 DEF t

(* A sequence cut in two, perhaps with a packet dropped between.           *)
LEMMA Cut ==
  ASSUME NEW s \in Seq(Item), NEW k \in 0 .. Len(s), NEW m \in {k + 1, k + 2},
         m = k + 2 => k + 1 \in DOMAIN s /\ ~IsSample(s[k + 1])
  PROVE  /\ Ids(s) = Ids(SubSeq(s, 1, k)) \union Ids(SubSeq(s, m, Len(s)))
         /\ InOrder(s) => Before(Ids(SubSeq(s, 1, k)), Ids(SubSeq(s, m, Len(s))))
<1> DEFINE a == SubSeq(s, 1, k)
           b == SubSeq(s, m, Len(s))
<1>1. m \in Nat \ {0} /\ Len(s) \in 0 .. Len(s) /\ 1 \in Nat \ {0} /\ k \in Nat
  OBVIOUS
<1>2. a \in Seq(Item) /\ b \in Seq(Item)
  BY <1>1, Part
<1>3. /\ \A i \in DOMAIN a : i + 1 - 1 \in 1 .. k /\ i + 1 - 1 \in DOMAIN s /\ a[i] = s[i + 1 - 1]
      /\ \A i \in 1 .. k : i - 1 + 1 \in DOMAIN a /\ a[i - 1 + 1] = s[i]
      /\ \A i \in DOMAIN b : i + m - 1 \in m .. Len(s) /\ i + m - 1 \in DOMAIN s /\ b[i] = s[i + m - 1]
      /\ \A i \in m .. Len(s) : i - m + 1 \in DOMAIN b /\ b[i - m + 1] = s[i]
  BY <1>1, Part
<1> HIDE DEF a, b
<1>4. \A x \in Ids(a) : \E i \in 1 .. k : i \in DOMAIN s /\ IsSample(s[i]) /\ x = s[i].id
  BY <1>2, <1>3, IdsOf
<1>5. \A x \in Ids(b) : \E i \in m .. Len(s) : i \in DOMAIN s /\ IsSample(s[i]) /\ x = s[i].id
  <2> TAKE x \in Ids(b)
  <2>1. PICK j \in DOMAIN b : IsSample(b[j]) /\ x = b[j].id
    BY <1>2, IdsOf
  <2>2. j + m - 1 \in m .. Len(s) /\ j + m - 1 \in DOMAIN s /\ b[j] = s[j + m - 1]
    BY <1>3
  <2> QED
    BY <2>1, <2>2
<1>6. ASSUME NEW i \in DOMAIN s, IsSample(s[i]) PROVE s[i].id \in Ids(a) \union Ids(b)
  <2>1. i \in 1 .. k \/ i \in m .. Len(s)
    BY <1>1, <1>6
  <2>2. CASE i \in 1 .. k
    <3>1. i - 1 + 1 \in DOMAIN a /\ a[i - 1 + 1] = s[i]
      BY <1>3, <2>2
    <3> QED
      BY <1>2, <1>6, <3>1, IdsOf
  <2>3. CASE i \in m .. Len(s)
    <3>1. i - m + 1 \in DOMAIN b /\ b[i - m + 1] = s[i]
      BY <1>3, <2>3
    <3> QED
      BY <1>2, <1>6, <3>1, IdsOf
  <2> QED
    BY <2>1, <2>2, <2>3
<1>7. Ids(s) = Ids(a) \union Ids(b)
  BY <1>4, <1>5, <1>6, IdsOf
<1>8. InOrder(s) => Before(Ids(a), Ids(b))
  <2> SUFFICES ASSUME InOrder(s), NEW x \in Ids(a), NEW y \in Ids(b) PROVE x < y
    BY DEF Before
  <2>1. PICK i \in 1 .. k : i \in DOMAIN s /\ IsSample(s[i]) /\ x = s[i].id
    BY <1>4
  <2>2. PICK j \in m .. Len(s) : j \in DOMAIN s /\ IsSample(s[j]) /\ y = s[j].id
    BY <1>5
  <2>3. i < j
    BY <1>1, <2>1, <2>2
  <2> QED
    BY <2>1, <2>2, <2>3 DEF InOrder
<1> QED
  BY <1>7, <1>8 DEF a, b

LEMMA Empty ==
  /\ Ids(<<>>) = {} /\ Range(<<>>) = {}
  /\ AllSamples(<<>>) /\ InOrder(<<>>) /\ <<>> \in Seq(Item) /\ Len(<<>>) = 0
<1>1. <<>> \in Seq(Item) /\ DOMAIN <<>> = {} /\ Len(<<>>) = 0
  OBVIOUS
<1> QED
  BY <1>1, IdsOf DEF AllSamples, InOrder, Range

LEMMA IdsInRange ==
  \A s \in Seq(Item) : Ids(s) = {x.id : x \in {y \in Range(s) : IsSample(y)}}
  BY IdsOf DEF Range

-----------------------------------------------------------------------------
(***************************************************************************)
(* Batches                                                                 *)
(***************************************************************************)

LEMMA CountOfPart ==
  ASSUME NEW s \in Seq(Item), NEW i \in 0 .. Len(s)
  PROVE  Len(SamplesOf(SubSeq(s, 1, i))) = Cardinality(SamplesUpTo(s, i))
<1>1. SubSeq(s, 1, i) \in Seq(Item) /\ Len(SubSeq(s, 1, i)) = i
  BY Part
<1>2. \A j \in 1 .. i : SubSeq(s, 1, i)[j] = s[j]
  OBVIOUS
<1>3. SamplesUpTo(SubSeq(s, 1, i), i) = SamplesUpTo(s, i)
  BY <1>2 DEF SamplesUpTo
<1> QED
  BY <1>1, <1>3, SamplesOfIsTheSamples

(* What the worker has when it has looked at i entries of the list.        *)
LEMMA BatchedIs ==
  ASSUME NEW i \in 0 .. Len(m_List), m_List \in Seq(Item), m_ppSamples \in Seq(Item),
         AllSamples(m_ppSamples), InOrder(m_ppSamples), InOrder(m_List),
         Before(Ids(m_ppSamples), Ids(m_List))
  PROVE  /\ Batched(i) \in Seq(Item) /\ AllSamples(Batched(i)) /\ InOrder(Batched(i))
         /\ Ids(Batched(i)) = Ids(m_ppSamples) \union Ids(SubSeq(m_List, 1, i))
         /\ Len(Batched(i)) = Len(m_ppSamples) + Cardinality(SamplesUpTo(m_List, i))
         /\ Range(Batched(i)) \subseteq Range(m_ppSamples) \union Range(m_List)
<1> DEFINE a == SubSeq(m_List, 1, i)
           t == SamplesOf(a)
<1>1. a \in Seq(Item) /\ InOrder(a) /\ Range(a) \subseteq Range(m_List)
  <2>1. 1 \in Nat \ {0}
    OBVIOUS
  <2> QED
    BY <2>1, Part
<1>2. /\ t \in Seq(Item) /\ AllSamples(t) /\ InOrder(t) /\ Ids(t) = Ids(a)
      /\ Range(t) \subseteq Range(a)
  BY <1>1, SamplesOfIsTheSamples
<1>3. Len(t) = Cardinality(SamplesUpTo(m_List, i))
  BY CountOfPart
<1> HIDE DEF a
<1>4. Ids(a) \subseteq Ids(m_List)
  BY <1>1, IdsInRange
<1>5. Before(Ids(m_ppSamples), Ids(t))
  BY <1>2, <1>4 DEF Before
<1>6. Batched(i) = m_ppSamples \o t
  BY DEF Batched, a
<1> HIDE DEF t
<1>7. /\ m_ppSamples \o t \in Seq(Item) /\ AllSamples(m_ppSamples \o t) /\ InOrder(m_ppSamples \o t)
      /\ Ids(m_ppSamples \o t) = Ids(m_ppSamples) \union Ids(t)
      /\ Len(m_ppSamples \o t) = Len(m_ppSamples) + Len(t)
      /\ Range(m_ppSamples \o t) = Range(m_ppSamples) \union Range(t)
  BY <1>2, <1>5, Joined
<1>8. Range(Batched(i)) \subseteq Range(m_ppSamples) \union Range(m_List)
  BY <1>1, <1>2, <1>6, <1>7
<1> QED
  BY <1>2, <1>3, <1>6, <1>7, <1>8 DEF a

(* As long as no entry ends the batch, there is room in it.                *)
LEMMA RoomInBatch ==
  ASSUME NEW i \in 0 .. Len(m_List), m_List \in Seq(Item), m_ppSamples \in Seq(Item),
         AllSamples(m_ppSamples), InOrder(m_ppSamples), InOrder(m_List),
         Before(Ids(m_ppSamples), Ids(m_List)),
         mode.size \in Nat \ {0}, Len(m_ppSamples) < mode.size,
         \A j \in 1 .. i : ~EndsBatch(j)
  PROVE  Len(Batched(i)) < mode.size
<1> DEFINE W == {j \in 0 .. i : ~(Len(Batched(j)) < mode.size)}
<1>1. SUFFICES ASSUME W # {} PROVE FALSE
  OBVIOUS
<1> W \subseteq Nat
  OBVIOUS
<1>2. PICK n \in W : \A j \in W : n <= j
  <2> HIDE DEF W
  <2> QED
    BY <1>1, LeastNumber
<1>3. n # 0
  <2>1. Len(Batched(0)) = Len(m_ppSamples) + Cardinality(SamplesUpTo(m_List, 0))
    BY BatchedIs
  <2> QED
    BY <1>2, <2>1, CountNone
<1>4. n - 1 \in 0 .. Len(m_List) /\ n \in 0 .. Len(m_List) /\ n \in 1 .. i /\ n - 1 \in 0 .. i
      /\ (n - 1) + 1 = n
  BY <1>2, <1>3
<1>5. n - 1 \notin W
  BY <1>2, <1>4
<1>6. Len(Batched(n - 1)) < mode.size /\ ~(Len(Batched(n)) < mode.size)
  BY <1>2, <1>4, <1>5
<1> HIDE DEF W
<1>7. /\ Len(Batched(n - 1)) = Len(m_ppSamples) + Cardinality(SamplesUpTo(m_List, n - 1))
      /\ Len(Batched(n)) = Len(m_ppSamples) + Cardinality(SamplesUpTo(m_List, n))
  BY <1>4, BatchedIs
<1>8. Cardinality(SamplesUpTo(m_List, n - 1)) \in Nat /\ Cardinality(SamplesUpTo(m_List, n)) \in Nat
  BY <1>4, CountType
<1>9. Cardinality(SamplesUpTo(m_List, (n - 1) + 1)) =
        IF IsSample(m_List[(n - 1) + 1]) THEN Cardinality(SamplesUpTo(m_List, n - 1)) + 1
        ELSE Cardinality(SamplesUpTo(m_List, n - 1))
  BY <1>4, CountStep
<1>10. IsSample(m_List[n]) /\ Len(Batched(n)) = Len(Batched(n - 1)) + 1
  BY <1>4, <1>6, <1>7, <1>8, <1>9, SMTT(30)
<1>11. Len(Batched(n)) = mode.size
  BY <1>6, <1>7, <1>8, <1>10, SMTT(30)
<1>12. EndsBatch(n)
  BY <1>10, <1>11 DEF EndsBatch
<1> QED
  BY <1>4, <1>12

(* The batch that ends at the first entry to end one fits in the array.    *)
LEMMA FirstEnd ==
  ASSUME m_List \in Seq(Item), m_ppSamples \in Seq(Item),
         AllSamples(m_ppSamples), InOrder(m_ppSamples), InOrder(m_List),
         Before(Ids(m_ppSamples), Ids(m_List)),
         mode.size \in Nat \ {0}, Len(m_ppSamples) < mode.size, Ends # {}
  PROVE  /\ Min(Ends) \in 1 .. Len(m_List)
         /\ Len(Batched(Min(Ends))) <= mode.size
<1>1. Ends \subseteq Nat
  BY DEF Ends
<1>2. PICK n \in Ends : \A j \in Ends : n <= j
  BY <1>1, LeastNumber
<1>3. Min(Ends) \in Ends /\ \A j \in Ends : Min(Ends) <= j
  BY <1>2 DEF Min
<1> DEFINE i == Min(Ends)
<1> HIDE DEF i
<1>4. i \in 1 .. Len(m_List) /\ i \in 0 .. Len(m_List) /\ i - 1 \in 0 .. Len(m_List) /\ i - 1 \in Nat
      /\ i \in Nat /\ (i - 1) + 1 = i
  BY <1>3 DEF i, Ends
<1>5. \A j \in 1 .. i - 1 : ~EndsBatch(j)
  <2> TAKE j \in 1 .. i - 1
  <2>1. j \in DOMAIN m_List /\ ~(i <= j)
    BY <1>4
  <2> QED
    BY <1>3, <2>1 DEF i, Ends
<1>6. Len(Batched(i - 1)) < mode.size
  BY <1>4, <1>5, RoomInBatch
<1>7. /\ Len(Batched(i - 1)) = Len(m_ppSamples) + Cardinality(SamplesUpTo(m_List, i - 1))
      /\ Len(Batched(i)) = Len(m_ppSamples) + Cardinality(SamplesUpTo(m_List, i))
  BY <1>4, BatchedIs
<1>8. Cardinality(SamplesUpTo(m_List, i - 1)) \in Nat /\ Cardinality(SamplesUpTo(m_List, i)) \in Nat
  BY <1>4, CountType
<1>9. Cardinality(SamplesUpTo(m_List, (i - 1) + 1)) =
        IF IsSample(m_List[(i - 1) + 1]) THEN Cardinality(SamplesUpTo(m_List, i - 1)) + 1
        ELSE Cardinality(SamplesUpTo(m_List, i - 1))
  BY <1>4, CountStep
<1>10. Len(Batched(i)) <= Len(Batched(i - 1)) + 1
  BY <1>4, <1>7, <1>8, <1>9
<1>11. Len(Batched(i)) <= mode.size
  BY <1>6, <1>7, <1>8, <1>10
<1> QED
  BY <1>4, <1>11 DEF i

-----------------------------------------------------------------------------
(***************************************************************************)
(* The invariant                                                           *)
(***************************************************************************)

(* Where the calls of the two threads are, and what goes with it.  A flush *)
(* is counted when it is over, so there is room for its number until then. *)
CallInv ==
  /\ mode \in Modes
  /\ era \in 0 .. MaxFlushes /\ sent \in 0 .. MaxSamples /\ last \in 0 .. sent
  /\ m_evFlushComplete \in BOOLEAN /\ m_bFlushing \in BOOLEAN /\ m_bFlushed \in BOOLEAN
  /\ m_bTerminate \in BOOLEAN /\ filterFlushing \in BOOLEAN
  /\ downPaused \in BOOLEAN /\ downFlushing \in BOOLEAN
  /\ m_hr \in {"S_OK", "S_FALSE", "E_FAIL"} /\ hr \in {"S_OK", "S_FALSE", "E_FAIL"}
  /\ wpc \in {"none", "get", "wait", "send", "deliver", "store", "packet", "eos", "signal",
              "exited"}
  /\ call \in Calls \union {"none"}
  /\ spc \in {"idle", "call", "queue", "anyway", "batch", "deliver", "eos", "segment"}
  /\ (spc = "idle") <=> (call = "none")
  /\ spc = "queue" => call = "NewSegment"
  /\ op \in {"none", "BeginFlush", "EndFlush", "Reset", "Destroy", "destroyed"}
  /\ op \in {"none", "destroyed"} => step = "idle"
  /\ op = "BeginFlush" => step \in {"lock", "down"}
  /\ op = "EndFlush" => step \in {"wait", "leave", "down", "clear"}
  /\ op = "Reset" => step = "wait"
  /\ op = "Destroy" => step = "join"
  /\ op \in {"BeginFlush", "EndFlush"} => filterFlushing
  /\ op \in {"Reset", "Destroy", "destroyed"} => ~filterFlushing
  /\ filterFlushing /\ step # "clear" => era < MaxFlushes
  /\ op \in {"EndFlush", "Reset", "Destroy", "destroyed"} => spc = "idle"
  /\ m_bTerminate => op \in {"Destroy", "destroyed"}

(* Who has samples in which step, and the packet that ended a batch.       *)
PlaceInv ==
  /\ wpc \in {"deliver", "store"} => sending # <<>>
  /\ wpc \notin {"send", "deliver", "store"} => sending = <<>>
  /\ wpc \in {"none", "get", "wait", "exited"} => pSample = NoPacket
  /\ wpc = "eos" => pSample.kind = "EOS_PACKET"
  /\ wpc = "signal" => pSample.kind = "RESET_PACKET"
  /\ spc = "deliver" => m_ppSamples # <<>>
  /\ todo # <<>> => call = "Receive" /\ spc \in {"call", "batch", "deliver"}
  /\ ~mode.queued => m_List = <<>> /\ spc # "queue"

(* A batch that is not on its way has room for a sample; NEW_SEGMENT is    *)
(* followed by the packet with its arguments.                              *)
SeqInv ==
  /\ m_List \in Seq(Item) /\ m_ppSamples \in Seq(Item) /\ sending \in Seq(Item)
  /\ todo \in Seq(Item) /\ pSample \in Item
  /\ AllSamples(m_ppSamples) /\ AllSamples(sending) /\ AllSamples(todo)
  /\ InOrder(m_List) /\ InOrder(m_ppSamples) /\ InOrder(sending) /\ InOrder(todo)
  /\ Len(sending) <= mode.size
  /\ Len(m_ppSamples) < mode.size \/ (spc = "deliver" /\ Len(m_ppSamples) = mode.size)
  /\ \A i \in DOMAIN m_List : m_List[i].kind = "NEW_SEGMENT" =>
       i + 1 \in DOMAIN m_List /\ m_List[i + 1].kind = "packet"

(* The sets of samples in the four places, what is owed for them, and the  *)
(* latest one that was received downstream.                                *)
Lined(A, B, C, D) ==
  /\ Before(A, B) /\ Before(A, C) /\ Before(A, D)
  /\ Before(B, C) /\ Before(B, D) /\ Before(C, D)
Owed(S) == [i \in Samples |-> IF i \in S THEN 1 ELSE 0]
Held(A, B, C, D) ==
  /\ Lined(A, B, C, D)
  /\ refs = Owed(A \union B \union C \union D)
  /\ \A i \in A \union B \union C \union D : i <= sent
  /\ \A i \in B \union C \union D : last < i
  /\ wpc # "store" => \A i \in A : last < i
OwedInv == Held(Ids(sending), Ids(m_ppSamples), Ids(m_List), Ids(todo))

OwnInv == CallInv /\ PlaceInv /\ SeqInv /\ OwedInv

LEMMA ModesOf ==
  ASSUME mode \in Modes
  PROVE  /\ mode.queued \in BOOLEAN /\ mode.exact \in BOOLEAN /\ mode.opt \in BOOLEAN
         /\ mode.resets \in BOOLEAN /\ mode.size \in Nat \ {0} /\ mode.late \in SUBSET Calls
  BY ModesAreModes

LEMMA BoundsOf == MaxSamples \in Nat /\ MaxFlushes \in Nat
  BY BoundsAreNat

LEMMA IdsType == \A s \in Seq(Item) : Ids(s) \subseteq 0 .. MaxSamples
<1> TAKE s \in Seq(Item)
<1>1. \A i \in DOMAIN s : s[i] \in Item
  OBVIOUS
<1>2. \A x \in Item : x.id \in 0 .. MaxSamples
  BY DEF Item
<1> QED
  BY <1>1, <1>2, IdsOf

LEMMA Thing == NoPacket \in Item /\ ~IsSample(NoPacket)
  BY BoundsOf DEF NoPacket, Item, IsSample

LEMMA OwnInit == Init => OwnInv
<1> SUFFICES ASSUME Init PROVE OwnInv
  OBVIOUS
<1>1. mode \in Modes /\ mode.size \in Nat \ {0}
  BY ModesOf DEF Init
<1>2. CallInv
  <2>1. /\ wpc \in {"get", "none"} /\ last = 0 /\ sent = 0 /\ era = 0
        /\ call = "none" /\ spc = "idle" /\ op = "none" /\ step = "idle"
    BY DEF Init
  <2>2. /\ m_evFlushComplete = FALSE /\ m_bFlushing = FALSE /\ m_bFlushed = TRUE
        /\ m_bTerminate = FALSE /\ filterFlushing = FALSE
        /\ downPaused = FALSE /\ downFlushing = FALSE /\ m_hr = "S_OK" /\ hr = "S_OK"
    BY DEF Init
  <2>3. /\ m_evFlushComplete \in BOOLEAN /\ m_bFlushing \in BOOLEAN /\ m_bFlushed \in BOOLEAN
        /\ m_bTerminate \in BOOLEAN /\ filterFlushing \in BOOLEAN
        /\ downPaused \in BOOLEAN /\ downFlushing \in BOOLEAN
    BY <2>2
  <2>4. era \in 0 .. MaxFlushes /\ sent \in 0 .. MaxSamples /\ last \in 0 .. sent
    BY <2>1, BoundsOf
  <2>5. ~filterFlushing /\ ~m_bTerminate
    BY <2>2
  <2> QED
    BY <1>1, <2>1, <2>2, <2>3, <2>4, <2>5 DEF CallInv
<1>3. PlaceInv
  BY <1>1 DEF Init, PlaceInv
<1>4. SeqInv
  <2>1. m_List = <<>> /\ m_ppSamples = <<>> /\ sending = <<>> /\ todo = <<>> /\ pSample = NoPacket
    BY DEF Init
  <2> QED
    BY <1>1, <2>1, Empty, Thing DEF SeqInv
<1>5. OwedInv
  <2>1. m_List = <<>> /\ m_ppSamples = <<>> /\ sending = <<>> /\ todo = <<>>
    BY DEF Init
  <2>2. refs = Owed({})
    BY DEF Init, Owed
  <2> QED
    BY <2>1, <2>2, Empty DEF OwedInv, Held, Lined, Before
<1> QED
  BY <1>2, <1>3, <1>4, <1>5 DEF OwnInv

(* Where the two threads are after a step of the worker.                   *)
LEMMA WorkerCalls == ASSUME OwnInv, WorkerStep PROVE CallInv'
<1>1. UNCHANGED <<mode, era, sent, call, spc, op, step, filterFlushing>>
  BY DEF WorkerStep, Terminate, FlushQueue, GetBatch, GetLast, Wait, StartSend, SkipSend, AfterSend,
     NextRound, Deliver, StoreResult, CheckEos, SendEos, SendNewSegment, ClearResult,
     SignalReset, MayGet, fixed, callers, stream, control
<1>2. UNCHANGED <<m_bFlushing, m_bFlushed, m_bTerminate, downPaused, downFlushing>>
  BY DEF WorkerStep, Terminate, FlushQueue, GetBatch, GetLast, Wait, StartSend, SkipSend, AfterSend,
     NextRound, Deliver, StoreResult, CheckEos, SendEos, SendNewSegment, ClearResult,
     SignalReset, MayGet, queueState, flags, down
<1>3. m_evFlushComplete' \in BOOLEAN /\ m_hr' \in {"S_OK", "S_FALSE", "E_FAIL"}
      /\ hr' \in {"S_OK", "S_FALSE", "E_FAIL"}
  BY DEF OwnInv, CallInv, WorkerStep, Terminate, FlushQueue, GetBatch, GetLast, Wait, StartSend,
     SkipSend, Deliver, StoreResult, CheckEos, SendEos, SendNewSegment, ClearResult,
     SignalReset, MayGet, queueState
<1>4. wpc' \in {"none", "get", "wait", "send", "deliver", "store", "packet", "eos", "signal",
                "exited"}
  BY DEF OwnInv, CallInv, WorkerStep, Terminate, FlushQueue, GetBatch, GetLast, Wait, StartSend,
     SkipSend, Deliver, StoreResult, CheckEos, SendEos, SendNewSegment, ClearResult,
     SignalReset, MayGet, AfterSend, NextRound
<1>5. last' \in 0 .. sent
  <2>1. CASE ~Deliver
    BY <2>1 DEF OwnInv, CallInv, WorkerStep, Terminate, FlushQueue, GetBatch, GetLast, Wait,
       StartSend,
       SkipSend, StoreResult, CheckEos, SendEos, SendNewSegment, ClearResult, SignalReset, down
  <2>2. CASE Deliver
    <3>1. sending \in Seq(Item) /\ AllSamples(sending) /\ sending # <<>>
      BY <2>2 DEF Deliver, OwnInv, SeqInv, PlaceInv
    <3>2. \A i \in Ids(sending) : i \in 0 .. sent
      BY <3>1, IdsType DEF OwnInv, OwedInv, Held, CallInv
    <3>3. Last(sending).id \in Ids(sending)
      <4>1. Len(sending) \in DOMAIN sending
        BY <3>1
      <4> QED
        BY <3>1, <4>1, IdsOf DEF Last, AllSamples
    <3>4. PICK r \in {"S_OK", "S_FALSE", "E_FAIL"} : Received(sending, r)
      BY <2>2 DEF Deliver
    <3>5. last' \in {last} \union Ids(sending)
      BY <3>3, <3>4 DEF Received
    <3> QED
      BY <3>2, <3>5 DEF OwnInv, CallInv
  <2> QED
    BY <2>1, <2>2
<1> QED
  BY <1>1, <1>2, <1>3, <1>4, <1>5 DEF OwnInv, CallInv

LEMMA StartCallCalls == ASSUME OwnInv, StartCall PROVE CallInv'
<1> PICK c \in Calls, n \in 0 .. 2 : call' = c /\ sent' = sent + n /\ sent + n <= MaxSamples
  BY DEF StartCall
<1>1. spc = "idle" /\ spc' = "call" /\ op = "none" /\ ~filterFlushing
  BY DEF StartCall
<1>2. UNCHANGED <<queueState, fixed, worker, control, down, m_hr>>
  BY DEF StartCall
<1>3. sent' \in 0 .. MaxSamples /\ last \in 0 .. sent'
  BY BoundsOf DEF OwnInv, CallInv
<1>4. "none" \notin Calls
  BY CallsAreKnown
<1> QED
  BY <1>1, <1>2, <1>3, <1>4 DEF OwnInv, CallInv, queueState, flags, fixed, worker, control, down

LEMMA StreamCalls == ASSUME OwnInv, StreamStep PROVE CallInv'
<1>1. UNCHANGED <<mode, era, sent, wpc, hr, op, step, filterFlushing, m_bFlushing, m_bTerminate,
                  m_evFlushComplete, downPaused, downFlushing>>
  BY DEF StreamStep, Discard, QueueReceive, QueueSendAnyway, QueueEos, CheckNewSegment,
     QueueNewSegment, DirectReceive, FillBatch, DirectDeliver, DirectSendAnyway, DirectEos,
     BatchDone, DirectSendEos, DirectNewSegment, fixed, stream, worker, control, flags, queueState,
     down
<1>2. m_bFlushed' \in BOOLEAN /\ m_hr' \in {"S_OK", "S_FALSE", "E_FAIL"}
  BY DEF OwnInv, CallInv, StreamStep, Discard, QueueReceive, QueueSendAnyway, QueueEos,
     CheckNewSegment, QueueNewSegment, DirectReceive, FillBatch, DirectDeliver, DirectSendAnyway,
     DirectEos, BatchDone, DirectSendEos, DirectNewSegment, flags, queueState
<1>3. spc # "idle"
  BY DEF StreamStep, Discard, QueueReceive, QueueSendAnyway, QueueEos, CheckNewSegment,
     QueueNewSegment, DirectReceive, FillBatch, DirectDeliver, DirectSendAnyway, DirectEos,
     BatchDone, DirectSendEos, DirectNewSegment
<1>4. /\ spc' \in {"idle", "call", "queue", "anyway", "batch", "deliver", "eos", "segment"}
      /\ IF spc' = "idle" THEN call' = "none" ELSE call' = call
      /\ spc' = "queue" => call = "NewSegment"
  BY DEF OwnInv, CallInv, StreamStep, Discard, QueueReceive, QueueSendAnyway, QueueEos,
     CheckNewSegment, QueueNewSegment, DirectReceive, FillBatch, DirectDeliver, DirectSendAnyway,
     DirectEos, BatchDone, DirectSendEos, DirectNewSegment, Return
<1>5. last' \in 0 .. sent
  <2>1. CASE ~DirectDeliver
    BY <2>1 DEF OwnInv, CallInv, StreamStep, Discard, QueueReceive, QueueSendAnyway, QueueEos,
       CheckNewSegment, QueueNewSegment, DirectReceive, FillBatch, DirectSendAnyway, DirectEos,
       BatchDone, DirectSendEos, DirectNewSegment, down
  <2>2. CASE DirectDeliver
    <3>1. m_ppSamples \in Seq(Item) /\ AllSamples(m_ppSamples) /\ m_ppSamples # <<>>
      BY <2>2 DEF DirectDeliver, OwnInv, SeqInv, PlaceInv
    <3>2. \A i \in Ids(m_ppSamples) : i \in 0 .. sent
      BY <3>1, IdsType DEF OwnInv, OwedInv, Held, CallInv
    <3>3. Last(m_ppSamples).id \in Ids(m_ppSamples)
      <4>1. Len(m_ppSamples) \in DOMAIN m_ppSamples
        BY <3>1
      <4> QED
        BY <3>1, <4>1, IdsOf DEF Last, AllSamples
    <3>4. PICK r \in {"S_OK", "S_FALSE", "E_FAIL"} : Received(m_ppSamples, r)
      BY <2>2 DEF DirectDeliver
    <3>5. last' \in {last} \union Ids(m_ppSamples)
      BY <3>3, <3>4 DEF Received
    <3> QED
      BY <3>2, <3>5 DEF OwnInv, CallInv
  <2> QED
    BY <2>1, <2>2
<1>6. op \in {"none", "BeginFlush"}
  BY <1>3 DEF OwnInv, CallInv
<1> QED
  BY <1>1, <1>2, <1>3, <1>4, <1>5, <1>6 DEF OwnInv, CallInv

LEMMA ControlCalls == ASSUME OwnInv, ControlCall \/ ControlStep PROVE CallInv'
<1>1. UNCHANGED <<mode, call, spc, sent, wpc, hr, last, downPaused>>
  BY DEF ControlCall, ControlStep, BeginFlush, EndFlushNoop, EndFlush, DirectReset, Reset,
     DestroyDirect, Destroy, BeginFlushLocked, DeliverBeginFlush, WaitComplete, LeaveFlush,
     DeliverEndFlush, EndFlushReturn, Join, fixed, worker, stream, callers, down
<1>2. /\ m_evFlushComplete' \in BOOLEAN /\ m_bFlushing' \in BOOLEAN /\ m_bFlushed' \in BOOLEAN
      /\ m_bTerminate' \in BOOLEAN /\ filterFlushing' \in BOOLEAN /\ downFlushing' \in BOOLEAN
  BY ZenonT(60)
     DEF OwnInv, CallInv, ControlCall, ControlStep, BeginFlush, EndFlushNoop, EndFlush, DirectReset,
     Reset, DestroyDirect, Destroy, BeginFlushLocked, DeliverBeginFlush, WaitComplete, LeaveFlush,
     DeliverEndFlush, EndFlushReturn, Join, queueState, flags, down, control, callers, ClearSignal
<1>7. m_hr' \in {"S_OK", "S_FALSE", "E_FAIL"}
  BY DEF OwnInv, CallInv, ControlCall, ControlStep, BeginFlush, EndFlushNoop, EndFlush, DirectReset,
     Reset, DestroyDirect, Destroy, BeginFlushLocked, DeliverBeginFlush, WaitComplete, LeaveFlush,
     DeliverEndFlush, EndFlushReturn, Join
<1>3. /\ op' \in {"none", "BeginFlush", "EndFlush", "Reset", "Destroy", "destroyed"}
      /\ op' \in {"none", "destroyed"} => step' = "idle"
      /\ op' = "BeginFlush" => step' \in {"lock", "down"}
      /\ op' = "EndFlush" => step' \in {"wait", "leave", "down", "clear"}
      /\ op' = "Reset" => step' = "wait"
      /\ op' = "Destroy" => step' = "join"
  BY DEF OwnInv, CallInv, ControlCall, ControlStep, BeginFlush, EndFlushNoop, EndFlush, DirectReset,
     Reset, DestroyDirect, Destroy, BeginFlushLocked, DeliverBeginFlush, WaitComplete, LeaveFlush,
     DeliverEndFlush, EndFlushReturn, Join, control, callers, ControlIdle, ReturnControl,
     FirstFlushStep
<1>4. /\ op' \in {"BeginFlush", "EndFlush"} => filterFlushing'
      /\ op' \in {"Reset", "Destroy", "destroyed"} => ~filterFlushing'
      /\ op' \in {"EndFlush", "Reset", "Destroy", "destroyed"} => spc = "idle"
  BY DEF OwnInv, CallInv, ControlCall, ControlStep, BeginFlush, EndFlushNoop, EndFlush, DirectReset,
     Reset, DestroyDirect, Destroy, BeginFlushLocked, DeliverBeginFlush, WaitComplete, LeaveFlush,
     DeliverEndFlush, EndFlushReturn, Join, control, callers, ControlIdle, ReturnControl
<1>5. m_bTerminate' => op' \in {"Destroy", "destroyed"}
  BY DEF OwnInv, CallInv, ControlCall, ControlStep, BeginFlush, EndFlushNoop, EndFlush, DirectReset,
     Reset, DestroyDirect, Destroy, BeginFlushLocked, DeliverBeginFlush, WaitComplete, LeaveFlush,
     DeliverEndFlush, EndFlushReturn, Join, control, callers, ControlIdle, ReturnControl,
     queueState, flags
<1>6. era' \in 0 .. MaxFlushes /\ (filterFlushing' /\ step' # "clear" => era' < MaxFlushes)
  BY BoundsOf DEF OwnInv, CallInv, ControlCall, ControlStep, BeginFlush, EndFlushNoop, EndFlush,
     DirectReset, Reset, DestroyDirect, Destroy, BeginFlushLocked, DeliverBeginFlush, WaitComplete,
     LeaveFlush, DeliverEndFlush, EndFlushReturn, Join, control, callers, ControlIdle,
     ReturnControl, fixed
<1> QED
  BY <1>1, <1>2, <1>3, <1>4, <1>5, <1>6, <1>7 DEF OwnInv, CallInv

(* Who has samples in which step.                                          *)
LEMMA WorkerPlaces == ASSUME WakeInv, OwnInv, WorkerStep PROVE PlaceInv'
<1>1. UNCHANGED <<mode, call, spc, todo>> /\ mode.queued
  BY ModesOf DEF WorkerStep, Terminate, FlushQueue, GetBatch, GetLast, Wait, StartSend, SkipSend,
     AfterSend,
     NextRound, Deliver, StoreResult, CheckEos, SendEos, SendNewSegment, ClearResult,
     SignalReset, MayGet, fixed, callers, stream, WakeInv, WaitInv, OwnInv, CallInv
<1>2. spc # "deliver"
  BY <1>1 DEF WakeInv, DirectInv
<1>3. /\ wpc' \in {"deliver", "store"} => sending' # <<>>
      /\ wpc' \notin {"send", "deliver", "store"} => sending' = <<>>
  BY DEF OwnInv, PlaceInv, WorkerStep, Terminate, FlushQueue, GetBatch, GetLast, Wait, StartSend,
     SkipSend, AfterSend, NextRound, Deliver, StoreResult, CheckEos, SendEos, SendNewSegment,
     ClearResult, SignalReset, MayGet
<1>4. /\ wpc' \in {"none", "get", "wait", "exited"} => pSample' = NoPacket
      /\ wpc' = "eos" => pSample'.kind = "EOS_PACKET"
      /\ wpc' = "signal" => pSample'.kind = "RESET_PACKET"
  BY DEF OwnInv, PlaceInv, WorkerStep, Terminate, FlushQueue, GetBatch, GetLast, Wait, StartSend,
     SkipSend, AfterSend, NextRound, Deliver, StoreResult, CheckEos, SendEos, SendNewSegment,
     ClearResult, SignalReset, MayGet
<1> QED
  BY <1>1, <1>2, <1>3, <1>4 DEF OwnInv, PlaceInv

LEMMA StreamPlaces == ASSUME WakeInv, OwnInv, StreamStep PROVE PlaceInv'
<1>1. UNCHANGED <<mode, wpc, sending, pSample>>
  BY DEF StreamStep, Discard, QueueReceive, QueueSendAnyway, QueueEos, CheckNewSegment,
     QueueNewSegment, DirectReceive, FillBatch, DirectDeliver, DirectSendAnyway, DirectEos,
     BatchDone, DirectSendEos, DirectNewSegment, fixed, worker
<1>2. ASSUME ~mode.queued PROVE m_List' = <<>> /\ spc' # "queue"
  <2>1. m_List = <<>> /\ spc # "queue"
    BY <1>2 DEF OwnInv, PlaceInv
  <2>2. ~QueueReceive /\ ~QueueSendAnyway /\ ~QueueEos /\ ~QueueNewSegment
    BY <1>2, <2>1 DEF QueueReceive, QueueSendAnyway, QueueEos, QueueNewSegment
  <2>3. m_List' = m_List
    BY <2>2 DEF StreamStep, Discard, CheckNewSegment, DirectReceive, FillBatch, DirectDeliver,
       DirectSendAnyway, DirectEos, BatchDone, DirectSendEos, DirectNewSegment, queueState, queue
  <2>4. spc' # "queue"
    BY <1>2, <2>2 DEF StreamStep, Discard, CheckNewSegment, DirectReceive, FillBatch, DirectDeliver,
       DirectSendAnyway, DirectEos, BatchDone, DirectSendEos, DirectNewSegment, Return
  <2> QED
    BY <2>1, <2>3, <2>4
<1>3. todo' # <<>> => call' = "Receive" /\ spc' \in {"call", "batch", "deliver"}
  BY DEF OwnInv, PlaceInv, StreamStep, Discard, QueueReceive, QueueSendAnyway, QueueEos,
     CheckNewSegment,
     QueueNewSegment, DirectReceive, FillBatch, DirectDeliver, DirectSendAnyway, DirectEos,
     BatchDone, DirectSendEos, DirectNewSegment, Return
<1>4. spc' = "deliver" => m_ppSamples' # <<>>
  <2>1. CASE FillBatch
    <3>1. mode.size \in Nat \ {0}
      BY ModesOf DEF OwnInv, CallInv
    <3>2. spc' = "deliver" => Len(m_ppSamples') = mode.size
      BY <2>1 DEF FillBatch
    <3> QED
      BY <3>1, <3>2
  <2>2. CASE ~FillBatch
    BY <2>2 DEF OwnInv, PlaceInv, StreamStep, Discard, QueueReceive, QueueSendAnyway, QueueEos,
       CheckNewSegment, QueueNewSegment, DirectReceive, DirectDeliver, DirectSendAnyway, DirectEos,
       BatchDone, DirectSendEos, DirectNewSegment, Return, queue
  <2> QED
    BY <2>1, <2>2
<1> QED
  BY <1>1, <1>2, <1>3, <1>4 DEF OwnInv, PlaceInv

LEMMA OtherPlaces ==
  ASSUME WakeInv, OwnInv, StartCall \/ ControlCall \/ ControlStep
  PROVE  PlaceInv'
<1>1. UNCHANGED <<mode, wpc, sending, pSample>>
  BY DEF StartCall, ControlCall, ControlStep, BeginFlush, EndFlushNoop, EndFlush, DirectReset,
     Reset,
     DestroyDirect, Destroy, BeginFlushLocked, DeliverBeginFlush, WaitComplete, LeaveFlush,
     DeliverEndFlush, EndFlushReturn, Join, fixed, worker
<1>2. ~mode.queued => m_List' = <<>>
  BY DEF OwnInv, PlaceInv, StartCall, ControlCall, ControlStep, BeginFlush, EndFlushNoop, EndFlush,
     DirectReset, Reset, DestroyDirect, Destroy, BeginFlushLocked, DeliverBeginFlush, WaitComplete,
     LeaveFlush, DeliverEndFlush, EndFlushReturn, Join, queueState, queue, FreeSamples
<1>3. CASE StartCall
  <2> PICK c \in Calls, n \in 0 .. 2 :
        call' = c /\ (n > 0 <=> c = "Receive") /\ todo' = [i \in 1 .. n |-> Sample(sent + i)]
    BY <1>3 DEF StartCall
  <2>1. spc' = "call" /\ (todo' # <<>> => call' = "Receive")
    BY <1>3 DEF StartCall
  <2> QED
    BY <1>1, <1>2, <2>1 DEF OwnInv, PlaceInv
<1>4. CASE ControlCall \/ ControlStep
  <2>1. UNCHANGED <<call, spc, todo>>
    BY <1>4 DEF ControlCall, ControlStep, BeginFlush, EndFlushNoop, EndFlush, DirectReset, Reset,
       DestroyDirect, Destroy, BeginFlushLocked, DeliverBeginFlush, WaitComplete, LeaveFlush,
       DeliverEndFlush, EndFlushReturn, Join, stream, callers
  <2>2. spc = "deliver" => m_ppSamples' = m_ppSamples
    BY <1>4 DEF ControlCall, ControlStep, BeginFlush, EndFlushNoop, EndFlush, DirectReset, Reset,
       DestroyDirect, Destroy, BeginFlushLocked, DeliverBeginFlush, WaitComplete, LeaveFlush,
       DeliverEndFlush, EndFlushReturn, Join, queue, queueState, ControlIdle
  <2> QED
    BY <1>1, <1>2, <2>1, <2>2 DEF OwnInv, PlaceInv
<1> QED
  BY <1>3, <1>4

-----------------------------------------------------------------------------
(***************************************************************************)
(* Samples stay in line                                                    *)
(***************************************************************************)

LEMMA SameSequences ==
  ASSUME OwnInv, UNCHANGED <<mode, m_List, m_ppSamples, sending, todo>>, pSample' \in Item,
         spc = "deliver" => spc' = "deliver"
  PROVE  SeqInv'
  BY DEF OwnInv, SeqInv, InOrder, AllSamples, IsSample

LEMMA SameHeld ==
  ASSUME OwnInv, UNCHANGED <<m_List, m_ppSamples, sending, todo, refs, sent, last>>,
         wpc = "store" => wpc' = "store"
  PROVE  OwedInv'
<1>1. /\ Ids(sending)' = Ids(sending) /\ Ids(m_ppSamples)' = Ids(m_ppSamples)
      /\ Ids(m_List)' = Ids(m_List) /\ Ids(todo)' = Ids(todo)
  BY DEF Ids, SamplesUpTo, IsSample
<1> QED
  BY <1>1 DEF OwnInv, OwedInv, Held

LEMMA FourSets ==
  ASSUME OwnInv
  PROVE  /\ Ids(sending) \subseteq Nat /\ Ids(m_ppSamples) \subseteq Nat
         /\ Ids(m_List) \subseteq Nat /\ Ids(todo) \subseteq Nat
         /\ Held(Ids(sending), Ids(m_ppSamples), Ids(m_List), Ids(todo))
         /\ m_List \in Seq(Item) /\ m_ppSamples \in Seq(Item) /\ sending \in Seq(Item)
         /\ todo \in Seq(Item)
<1>1. 0 .. MaxSamples \subseteq Nat
  OBVIOUS
<1> QED
  BY <1>1, IdsType DEF OwnInv, SeqInv, OwedInv

LEMMA Apart ==
  ASSUME NEW I \in SUBSET Nat, NEW J \in SUBSET Nat, Before(I, J)
  PROVE  I \intersect J = {}
<1> SUFFICES ASSUME NEW x \in I, x \in J PROVE FALSE
  OBVIOUS
<1>1. x < x /\ x \in Nat
  BY DEF Before
<1> QED
  BY <1>1

(* What is owed when some of the samples have been released.               *)
LEMMA Released ==
  ASSUME NEW S, refs = Owed(S), NEW s, Release(s), Ids(s) \subseteq S
  PROVE  refs' = Owed(S \ Ids(s))
<1>1. \A i \in Samples : refs[i] = IF i \in S THEN 1 ELSE 0
  BY DEF Owed
<1>2. refs' = [i \in Samples |-> IF i \in Ids(s) THEN refs[i] - 1 ELSE refs[i]]
  BY DEF Release
<1>3. \A i \in Samples : (IF i \in Ids(s) THEN refs[i] - 1 ELSE refs[i])
                           = IF i \in S \ Ids(s) THEN 1 ELSE 0
  BY <1>1
<1> QED
  BY <1>2, <1>3 DEF Owed

(* The samples keep their number and the line its order, when some move    *)
(* forward a place together or leave it.                                   *)
LEMMA HeldMoves ==
  ASSUME OwnInv,
         NEW A \in SUBSET Nat, NEW B \in SUBSET Nat, NEW C \in SUBSET Nat, NEW D \in SUBSET Nat,
         A = Ids(sending)', B = Ids(m_ppSamples)', C = Ids(m_List)', D = Ids(todo)',
         Lined(A, B, C, D), refs' = Owed(A \union B \union C \union D),
         A \union B \union C \union D \subseteq
           Ids(sending) \union Ids(m_ppSamples) \union Ids(m_List) \union Ids(todo),
         B \union C \union D \subseteq Ids(m_ppSamples) \union Ids(m_List) \union Ids(todo),
         wpc' # "store" /\ wpc = "store" => A = {},
         UNCHANGED <<sent, last>>
  PROVE  OwedInv'
<1>1. Held(Ids(sending), Ids(m_ppSamples), Ids(m_List), Ids(todo))
  BY DEF OwnInv, OwedInv
<1>2. \A i \in A \union B \union C \union D : i <= sent
  BY <1>1 DEF Held
<1>3. \A i \in B \union C \union D : last < i
  BY <1>1 DEF Held
<1>4. wpc' # "store" => \A i \in A : last < i
  BY <1>1 DEF Held
<1> QED
  BY <1>2, <1>3, <1>4 DEF OwedInv, Held

LEMMA FreeKeeps ==
  ASSUME OwnInv, FreeSamples, UNCHANGED <<mode, sending, todo, sent, last, pSample, spc>>,
         wpc = "store" => wpc' = "store"
  PROVE  SeqInv' /\ OwedInv'
<1>1. m_List' = <<>> /\ m_ppSamples' = <<>>
  BY DEF FreeSamples
<1>2. SeqInv'
  <2>1. mode.size \in Nat \ {0}
    BY ModesOf DEF OwnInv, CallInv
  <2> QED
    BY <1>1, <2>1, Empty DEF OwnInv, SeqInv, InOrder, AllSamples, IsSample
<1>3. OwedInv'
  <2> DEFINE A == Ids(sending)
             B == Ids(m_ppSamples)
             C == Ids(m_List)
             D == Ids(todo)
  <2>1. Ids(sending)' = A /\ Ids(todo)' = D
    BY DEF Ids, SamplesUpTo, IsSample
  <2>2. Ids(m_List)' = {} /\ Ids(m_ppSamples)' = {}
    <3>1. Ids(m_List)' = Ids(m_List') /\ Ids(m_ppSamples)' = Ids(m_ppSamples')
      BY DEF Ids, SamplesUpTo, IsSample
    <3> QED
      BY <1>1, <3>1, Empty
  <2>3. Ids(m_List \o m_ppSamples) = C \union B
    BY FourSets, Joined
  <2>4. /\ A \in SUBSET Nat /\ B \in SUBSET Nat /\ C \in SUBSET Nat /\ D \in SUBSET Nat
        /\ Held(A, B, C, D)
    BY FourSets
  <2> HIDE DEF A, B, C, D
  <2>5. A \intersect B = {} /\ A \intersect C = {} /\ B \intersect D = {} /\ C \intersect D = {}
    BY <2>4, Apart DEF Held, Lined
  <2>6. refs' = Owed((A \union B \union C \union D) \ Ids(m_List \o m_ppSamples))
    BY <2>3, <2>4, Released DEF FreeSamples, Held
  <2>7. (A \union B \union C \union D) \ (C \union B) = A \union {} \union {} \union D
    BY <2>5
  <2>8. Lined(A, {}, {}, D)
    BY <2>4 DEF Held, Lined, Before
  <2> QED
    BY <2>1, <2>2, <2>3, <2>4, <2>6, <2>7, <2>8, HeldMoves DEF A, B, C, D
<1> QED
  BY <1>2, <1>3

(* A batch is released when it has been sent or is not to be sent.         *)
LEMMA ReleaseBatchKeeps ==
  ASSUME OwnInv, Release(sending), sending' = <<>>, pSample' \in Item,
         UNCHANGED <<mode, m_List, m_ppSamples, todo, sent, last, spc>>
  PROVE  SeqInv' /\ OwedInv'
<1>1. SeqInv'
  <2>1. mode.size \in Nat \ {0}
    BY ModesOf DEF OwnInv, CallInv
  <2> QED
    BY <2>1, Empty DEF OwnInv, SeqInv, InOrder, AllSamples, IsSample
<1>2. OwedInv'
  <2> DEFINE A == Ids(sending)
             B == Ids(m_ppSamples)
             C == Ids(m_List)
             D == Ids(todo)
  <2>1. Ids(m_ppSamples)' = B /\ Ids(m_List)' = C /\ Ids(todo)' = D
    BY DEF Ids, SamplesUpTo, IsSample
  <2>2. Ids(sending)' = {}
    <3>1. Ids(sending)' = Ids(sending')
      BY DEF Ids, SamplesUpTo, IsSample
    <3> QED
      BY <3>1, Empty
  <2>3. /\ A \in SUBSET Nat /\ B \in SUBSET Nat /\ C \in SUBSET Nat /\ D \in SUBSET Nat
        /\ Held(A, B, C, D)
    BY FourSets
  <2>4. refs' = Owed((A \union B \union C \union D) \ A)
    BY <2>3, Released DEF Held
  <2> HIDE DEF A, B, C, D
  <2>5. A \intersect B = {} /\ A \intersect C = {} /\ A \intersect D = {}
    BY <2>3, Apart DEF Held, Lined
  <2>6. (A \union B \union C \union D) \ A = {} \union B \union C \union D
    BY <2>5
  <2>7. Lined({}, B, C, D)
    BY <2>3 DEF Held, Lined, Before
  <2> QED
    BY <2>1, <2>2, <2>3, <2>4, <2>6, <2>7, HeldMoves DEF A, B, C, D
<1> QED
  BY <1>1, <1>2

LEMMA IdsPrime ==
  /\ Ids(sending)' = Ids(sending') /\ Ids(m_ppSamples)' = Ids(m_ppSamples')
  /\ Ids(m_List)' = Ids(m_List') /\ Ids(todo)' = Ids(todo')
  BY DEF Ids, SamplesUpTo, IsSample

LEMMA Primes ==
  /\ AllSamples(sending)' <=> AllSamples(sending')
  /\ InOrder(sending)' <=> InOrder(sending')
  /\ AllSamples(m_ppSamples)' <=> AllSamples(m_ppSamples')
  /\ InOrder(m_ppSamples)' <=> InOrder(m_ppSamples')
  /\ AllSamples(todo)' <=> AllSamples(todo')
  /\ InOrder(todo)' <=> InOrder(todo')
  /\ InOrder(m_List)' <=> InOrder(m_List')
  BY DEF AllSamples, InOrder, IsSample

LEMMA WorkerAtGet ==
  ASSUME WakeInv, OwnInv, wpc = "get"
  PROVE  /\ mode.queued /\ sending = <<>> /\ Len(m_ppSamples) < mode.size
         /\ mode.size \in Nat \ {0}
         /\ AllSamples(m_ppSamples) /\ InOrder(m_ppSamples) /\ InOrder(m_List)
         /\ Before(Ids(m_ppSamples), Ids(m_List))
<1>1. mode.queued /\ mode.size \in Nat \ {0}
  BY ModesOf DEF WakeInv, WaitInv, OwnInv, CallInv
<1>2. spc # "deliver"
  BY <1>1 DEF WakeInv, DirectInv
<1> QED
  BY <1>1, <1>2 DEF OwnInv, PlaceInv, SeqInv, OwedInv, Held, Lined

(* The batch that the worker takes is the front of the line.               *)
LEMMA GetBatchKeeps == ASSUME WakeInv, OwnInv, GetBatch PROVE SeqInv' /\ OwedInv'
<1> DEFINE i == Min(Ends)
           taken == IF m_List[i].kind = "NEW_SEGMENT" THEN i + 1 ELSE i
           a == SubSeq(m_List, 1, i)
           b == SubSeq(m_List, taken + 1, Len(m_List))
<1>1. wpc = "get" /\ Ends # {}
  BY DEF GetBatch, MayGet
<1>2. /\ sending' = Batched(i) /\ pSample' = m_List[i] /\ m_List' = b /\ m_ppSamples' = <<>>
      /\ wpc' = "send" /\ UNCHANGED <<mode, todo, sent, last, refs, spc>>
  BY DEF GetBatch, fixed, callers, stream, down
<1>3. m_List \in Seq(Item) /\ m_ppSamples \in Seq(Item)
  BY FourSets
<1>4. i \in 1 .. Len(m_List) /\ Len(Batched(i)) <= mode.size
  BY <1>1, <1>3, WorkerAtGet, FirstEnd
<1> HIDE DEF i
<1>5. i \in 0 .. Len(m_List) /\ i \in DOMAIN m_List
  BY <1>3, <1>4
<1>6. /\ Batched(i) \in Seq(Item) /\ AllSamples(Batched(i)) /\ InOrder(Batched(i))
      /\ Ids(Batched(i)) = Ids(m_ppSamples) \union Ids(a)
  BY <1>1, <1>3, <1>5, WorkerAtGet, BatchedIs
<1>7. /\ taken \in {i, i + 1} /\ taken + 1 \in {i + 1, i + 2}
      /\ taken + 1 = i + 2 => i + 1 \in DOMAIN m_List /\ ~IsSample(m_List[i + 1])
      /\ taken + 1 \in Nat \ {0} /\ taken <= Len(m_List)
  BY <1>3, <1>5 DEF OwnInv, SeqInv, IsSample
<1> HIDE DEF taken
<1>8. /\ b \in Seq(Item) /\ InOrder(b)
      /\ Len(b) = IF taken + 1 <= Len(m_List) THEN Len(m_List) - (taken + 1) + 1 ELSE 0
      /\ \A j \in DOMAIN b : j + (taken + 1) - 1 \in DOMAIN m_List
                             /\ b[j] = m_List[j + (taken + 1) - 1]
  <2>1. Len(m_List) \in 0 .. Len(m_List)
    BY <1>3
  <2> QED
    BY <1>1, <1>3, <1>7, <2>1, WorkerAtGet, Part
<1> HIDE DEF b
<1>9. \A j \in DOMAIN b : b[j].kind = "NEW_SEGMENT" => j + 1 \in DOMAIN b /\ b[j + 1].kind = "packet"
  <2> SUFFICES ASSUME NEW j \in DOMAIN b, b[j].kind = "NEW_SEGMENT"
               PROVE  j + 1 \in DOMAIN b /\ b[j + 1].kind = "packet"
    OBVIOUS
  <2> DEFINE n == j + (taken + 1) - 1
  <2>1. n \in DOMAIN m_List /\ b[j] = m_List[n] /\ j \in Nat
    BY <1>8
  <2>2. n + 1 \in DOMAIN m_List /\ m_List[n + 1].kind = "packet"
    BY <2>1 DEF OwnInv, SeqInv
  <2>3. j + 1 \in DOMAIN b
    BY <1>3, <1>7, <1>8, <2>1, <2>2, SMTT(30)
  <2>4. b[j + 1] = m_List[(j + 1) + (taken + 1) - 1]
    BY <1>8, <2>3
  <2>5. (j + 1) + (taken + 1) - 1 = n + 1
    BY <1>7, <2>1
  <2> QED
    BY <2>2, <2>3, <2>4, <2>5
<1>10. m_List[i] \in Item /\ mode.size \in Nat \ {0}
  BY <1>1, <1>3, <1>5, WorkerAtGet
<1>11. SeqInv'
  <2>1. sending' \in Seq(Item) /\ AllSamples(sending)' /\ InOrder(sending)' /\ Len(sending') <= mode'.size
    BY <1>2, <1>4, <1>6 DEF AllSamples, InOrder, IsSample
  <2>2. m_List' \in Seq(Item) /\ InOrder(m_List)'
    BY <1>2, <1>8 DEF InOrder, IsSample
  <2>3. m_ppSamples' \in Seq(Item) /\ AllSamples(m_ppSamples)' /\ InOrder(m_ppSamples)'
        /\ Len(m_ppSamples') < mode'.size
    BY <1>2, <1>10, Empty DEF AllSamples, InOrder
  <2>4. todo' \in Seq(Item) /\ AllSamples(todo)' /\ InOrder(todo)' /\ pSample' \in Item
    BY <1>2, <1>10 DEF OwnInv, SeqInv, AllSamples, InOrder, IsSample
  <2>5. \A j \in DOMAIN m_List' : m_List'[j].kind = "NEW_SEGMENT" =>
          j + 1 \in DOMAIN m_List' /\ m_List'[j + 1].kind = "packet"
    BY <1>2, <1>9
  <2> QED
    BY <2>1, <2>2, <2>3, <2>4, <2>5 DEF SeqInv
<1>12. OwedInv'
  <2> DEFINE B == Ids(m_ppSamples)
             C == Ids(m_List)
             D == Ids(todo)
             C1 == Ids(a)
             C2 == Ids(b)
  <2>1. C = C1 \union C2 /\ Before(C1, C2)
    <3>1. InOrder(m_List)
      BY <1>1, WorkerAtGet
    <3> QED
      BY <1>3, <1>5, <1>7, <3>1, Cut DEF b
  <2>2. /\ Ids(sending)' = B \union C1 /\ Ids(m_ppSamples)' = {} /\ Ids(m_List)' = C2
        /\ Ids(todo)' = D
    BY <1>2, <1>6, IdsPrime, Empty
  <2>3. Ids(sending) = {}
    BY <1>1, WorkerAtGet, Empty
  <2>4. /\ B \in SUBSET Nat /\ C \in SUBSET Nat /\ D \in SUBSET Nat /\ Held({}, B, C, D)
    BY <2>3, FourSets
  <2> HIDE DEF B, C, D, C1, C2
  <2>5. refs' = Owed((B \union C1) \union {} \union C2 \union D)
    <3>1. {} \union B \union C \union D = (B \union C1) \union {} \union C2 \union D
      BY <2>1
    <3> QED
      BY <1>2, <2>4, <3>1 DEF Held
  <2>6. Lined(B \union C1, {}, C2, D)
    BY <2>1, <2>4 DEF Held, Lined, Before
  <2>7. C1 \in SUBSET Nat /\ C2 \in SUBSET Nat
    BY <2>1, <2>4
  <2> QED
    BY <1>1, <1>2, <2>1, <2>2, <2>3, <2>4, <2>5, <2>6, <2>7, HeldMoves DEF B, C, D
<1> QED
  BY <1>11, <1>12

(* At the end of the list, everything is in the batch.                     *)
LEMMA GetLastKeeps == ASSUME WakeInv, OwnInv, GetLast PROVE SeqInv' /\ OwedInv'
<1> DEFINE all == Batched(Len(m_List))
<1>1. wpc = "get" /\ Ends = {}
  BY DEF GetLast, MayGet
<1>2. /\ m_List' = <<>> /\ wpc' # "store" /\ UNCHANGED <<mode, todo, sent, last, refs, spc>>
      /\ \/ m_ppSamples' = all /\ UNCHANGED <<sending, pSample>>
         \/ sending' = all /\ pSample' = NoPacket /\ m_ppSamples' = <<>>
  BY DEF GetLast, fixed, callers, stream, down
<1>3. /\ m_List \in Seq(Item) /\ m_ppSamples \in Seq(Item) /\ Len(m_List) \in 0 .. Len(m_List)
      /\ sending = <<>> /\ mode.size \in Nat \ {0}
  BY <1>1, FourSets, WorkerAtGet
<1>4. \A j \in 1 .. Len(m_List) : ~EndsBatch(j)
  BY <1>1, <1>3 DEF Ends
<1>5. Len(all) < mode.size
  BY <1>1, <1>3, <1>4, WorkerAtGet, RoomInBatch
<1>6. /\ all \in Seq(Item) /\ AllSamples(all) /\ InOrder(all)
      /\ Ids(all) = Ids(m_ppSamples) \union Ids(SubSeq(m_List, 1, Len(m_List)))
  BY <1>1, <1>3, WorkerAtGet, BatchedIs
<1>7. SubSeq(m_List, 1, Len(m_List)) = m_List
  BY <1>3
<1> HIDE DEF all
<1>8. SeqInv'
  <2>1. /\ todo' \in Seq(Item) /\ AllSamples(todo)' /\ InOrder(todo)' /\ pSample' \in Item
        /\ m_List' = <<>> /\ m_List' \in Seq(Item) /\ InOrder(m_List)'
    BY <1>2, Thing, Empty DEF OwnInv, SeqInv, AllSamples, InOrder, IsSample
  <2>2. /\ m_ppSamples' \in Seq(Item) /\ AllSamples(m_ppSamples)' /\ InOrder(m_ppSamples)'
        /\ Len(m_ppSamples') < mode'.size
    <3>1. m_ppSamples' = all \/ m_ppSamples' = <<>>
      BY <1>2
    <3>2. m_ppSamples' \in Seq(Item) /\ Len(m_ppSamples') < mode'.size
      <4>1. mode' = mode /\ all \in Seq(Item) /\ <<>> \in Seq(Item) /\ Len(<<>>) = 0
        BY <1>2, <1>6
      <4>2. 0 < mode.size
        BY <1>3
      <4>3. CASE m_ppSamples' = all
        BY <1>5, <4>1, <4>3
      <4>4. CASE m_ppSamples' = <<>>
        BY <4>1, <4>2, <4>4
      <4> QED
        BY <3>1, <4>3, <4>4
    <3>3. AllSamples(m_ppSamples') /\ InOrder(m_ppSamples')
      BY <1>6, <3>1, Empty, Zenon
    <3> QED
      BY <3>2, <3>3, Primes
  <2>3. /\ sending' \in Seq(Item) /\ AllSamples(sending)' /\ InOrder(sending)'
        /\ Len(sending') <= mode'.size
    <3>1. sending' = all \/ sending' = <<>>
      BY <1>2, <1>3
    <3>2. Len(all) \in Nat
      BY <1>6
    <3>3. sending' \in Seq(Item) /\ Len(sending') <= mode'.size
      <4>1. mode' = mode /\ all \in Seq(Item) /\ <<>> \in Seq(Item) /\ Len(<<>>) = 0
        BY <1>2, <1>6
      <4>2. 0 <= mode.size /\ Len(all) <= mode.size
        BY <1>3, <1>5, <3>2
      <4>3. CASE sending' = all
        BY <4>1, <4>2, <4>3
      <4>4. CASE sending' = <<>>
        BY <4>1, <4>2, <4>4
      <4> QED
        BY <3>1, <4>3, <4>4
    <3>4. AllSamples(sending') /\ InOrder(sending')
      BY <1>6, <3>1, Empty, Zenon
    <3> QED
      BY <3>3, <3>4, Primes
  <2> QED
    BY <2>1, <2>2, <2>3 DEF SeqInv
<1>9. OwedInv'
  <2> DEFINE B == Ids(m_ppSamples)
             C == Ids(m_List)
             D == Ids(todo)
  <2>1. Ids(sending) = {} /\ Ids(all) = B \union C
    BY <1>3, <1>6, <1>7, Empty
  <2>2. /\ Ids(m_List)' = {} /\ Ids(todo)' = D
        /\ \/ Ids(m_ppSamples)' = B \union C /\ Ids(sending)' = {}
           \/ Ids(m_ppSamples)' = {} /\ Ids(sending)' = B \union C
    BY <1>2, <2>1, IdsPrime, Empty
  <2>3. /\ B \in SUBSET Nat /\ C \in SUBSET Nat /\ D \in SUBSET Nat /\ Held({}, B, C, D)
    BY <2>1, FourSets
  <2> HIDE DEF B, C, D
  <2>4. /\ {} \union B \union C \union D = {} \union (B \union C) \union {} \union D
        /\ {} \union B \union C \union D = (B \union C) \union {} \union {} \union D
    OBVIOUS
  <2>5. Lined({}, B \union C, {}, D) /\ Lined(B \union C, {}, {}, D)
    BY <2>3 DEF Held, Lined, Before
  <2>6. refs' = Owed({} \union B \union C \union D)
    BY <1>2, <2>3 DEF Held
  <2>7. CASE Ids(m_ppSamples)' = B \union C /\ Ids(sending)' = {}
    BY <1>1, <1>2, <2>1, <2>2, <2>3, <2>4, <2>5, <2>6, <2>7, HeldMoves DEF B, C, D
  <2>8. CASE Ids(m_ppSamples)' = {} /\ Ids(sending)' = B \union C
    BY <1>1, <1>2, <2>1, <2>2, <2>3, <2>4, <2>5, <2>6, <2>8, HeldMoves DEF B, C, D
  <2> QED
    BY <2>2, <2>7, <2>8
<1> QED
  BY <1>8, <1>9

LEMMA AfterStep ==
  ASSUME OwnInv, wpc \in {"send", "store"}, AfterSend
  PROVE  pSample' \in Item /\ wpc' # "store"
  BY Thing DEF AfterSend, NextRound, OwnInv, SeqInv

(* A batch that is received, in whole or in part, was the front of the     *)
(* line: what is behind it is later.                                       *)
LEMMA DeliverKeeps == ASSUME WakeInv, OwnInv, Deliver PROVE SeqInv' /\ OwedInv'
<1>1. /\ UNCHANGED <<mode, m_List, m_ppSamples, sending, todo, pSample, refs, sent, spc>>
      /\ wpc = "deliver" /\ wpc' = "store"
  BY DEF Deliver, queueState, queue, callers, stream, fixed
<1>2. SeqInv'
  BY <1>1, SameSequences DEF OwnInv, SeqInv
<1>3. OwedInv'
  <2> DEFINE A == Ids(sending)
             B == Ids(m_ppSamples)
             C == Ids(m_List)
             D == Ids(todo)
  <2>1. Ids(sending)' = A /\ Ids(m_ppSamples)' = B /\ Ids(m_List)' = C /\ Ids(todo)' = D
    BY <1>1, IdsPrime
  <2>2. /\ A \in SUBSET Nat /\ B \in SUBSET Nat /\ C \in SUBSET Nat /\ D \in SUBSET Nat
        /\ Held(A, B, C, D) /\ sending \in Seq(Item)
    BY FourSets
  <2>3. last' \in {last} \union A
    <3>1. AllSamples(sending) /\ sending # <<>>
      BY <1>1 DEF OwnInv, SeqInv, PlaceInv
    <3>2. Len(sending) \in DOMAIN sending
      BY <2>2, <3>1
    <3>3. Last(sending).id \in A
      BY <2>2, <3>1, <3>2, IdsOf DEF Last, AllSamples
    <3>4. PICK r \in {"S_OK", "S_FALSE", "E_FAIL"} : Received(sending, r)
      BY DEF Deliver
    <3> QED
      BY <3>3, <3>4 DEF Received
  <2> HIDE DEF A, B, C, D
  <2>4. \A i \in B \union C \union D : last' < i
    BY <2>2, <2>3 DEF Held, Lined, Before
  <2> QED
    BY <1>1, <2>1, <2>2, <2>4 DEF OwedInv, Held, A, B, C, D
<1> QED
  BY <1>2, <1>3

LEMMA WorkerKeepsOwn == ASSUME WakeInv, OwnInv, WorkerStep PROVE OwnInv'
<1>1. CallInv' /\ PlaceInv'
  BY WorkerCalls, WorkerPlaces
<1>2. CASE Terminate \/ FlushQueue
  <2>1. /\ FreeSamples /\ UNCHANGED <<mode, sending, todo, sent, last, pSample, spc>>
        /\ wpc = "get"
    BY <1>2 DEF Terminate, FlushQueue, fixed, callers, stream, down
  <2> QED
    BY <1>1, <2>1, FreeKeeps DEF OwnInv
<1>3. CASE SkipSend \/ StoreResult
  <2>1. /\ Release(sending) /\ sending' = <<>> /\ wpc \in {"send", "store"} /\ AfterSend
        /\ UNCHANGED <<mode, m_List, m_ppSamples, todo, sent, last, spc>>
    BY <1>3 DEF SkipSend, StoreResult, fixed, callers, stream, down, queueState, queue
  <2> QED
    BY <1>1, <2>1, AfterStep, ReleaseBatchKeeps DEF OwnInv
<1>4. CASE Wait \/ StartSend \/ CheckEos \/ SendEos \/ SendNewSegment \/ ClearResult \/ SignalReset
  <2>1. /\ UNCHANGED <<mode, m_List, m_ppSamples, sending, todo, refs, sent, last, spc>>
        /\ wpc # "store"
    BY <1>4 DEF Wait, StartSend, CheckEos, SendEos, SendNewSegment, ClearResult, SignalReset,
       fixed, callers, stream, down, queueState, queue
  <2>2. pSample' \in {pSample, NoPacket}
    BY <1>4 DEF Wait, StartSend, CheckEos, SendEos, SendNewSegment, ClearResult, SignalReset,
       NextRound
  <2>3. pSample' \in Item
    BY <2>2, Thing DEF OwnInv, SeqInv
  <2> QED
    BY <1>1, <2>1, <2>3, SameSequences, SameHeld DEF OwnInv
<1> QED
  BY <1>1, <1>2, <1>3, <1>4, GetBatchKeeps, GetLastKeeps, DeliverKeeps DEF WorkerStep, OwnInv

(* New samples go to the end of the line.                                  *)
LEMMA StartCallKeepsOwn == ASSUME WakeInv, OwnInv, StartCall PROVE OwnInv'
<1> PICK c \in Calls, n \in 0 .. 2 :
      /\ call' = c /\ sent' = sent + n /\ sent + n <= MaxSamples
      /\ todo' = [i \in 1 .. n |-> Sample(sent + i)]
      /\ refs' = [i \in Samples |-> IF i \in sent + 1 .. sent + n THEN 1 ELSE refs[i]]
  BY DEF StartCall
<1>1. /\ UNCHANGED <<mode, m_List, m_ppSamples, sending, pSample, last, wpc>>
      /\ spc = "idle"
  BY DEF StartCall, queueState, queue, fixed, worker, down
<1>2. todo = <<>> /\ sent \in 0 .. MaxSamples /\ era \in 0 .. MaxFlushes /\ MaxSamples \in Nat
      /\ MaxFlushes \in Nat
  BY <1>1, BoundsOf DEF OwnInv, PlaceInv, CallInv
<1>3. \A i \in 1 .. n : Sample(sent + i) \in Item /\ IsSample(Sample(sent + i))
                        /\ Sample(sent + i).id = sent + i
  BY <1>2 DEF Sample, Item, IsSample
<1>4. /\ todo' \in Seq(Item) /\ Len(todo') = n
      /\ \A i \in 1 .. n : todo'[i] = Sample(sent + i)
  BY <1>3
<1>5. AllSamples(todo') /\ InOrder(todo')
  BY <1>2, <1>3, <1>4, SMTT(30) DEF AllSamples, InOrder
<1>6. Ids(todo') = sent + 1 .. sent + n
  <2>1. Ids(todo') = {todo'[i].id : i \in 1 .. n}
    BY <1>4, <1>5, IdsOf DEF AllSamples
  <2>2. Ids(todo') = {sent + i : i \in 1 .. n}
    BY <1>3, <1>4, <2>1
  <2>3. \A x \in sent + 1 .. sent + n : \E i \in 1 .. n : x = sent + i
    <3> TAKE x \in sent + 1 .. sent + n
    <3>1. x - sent \in 1 .. n /\ x = sent + (x - sent)
      BY <1>2
    <3> QED
      BY <3>1
  <2>4. \A i \in 1 .. n : sent + i \in sent + 1 .. sent + n
    BY <1>2
  <2> QED
    BY <2>2, <2>3, <2>4
<1>7. SeqInv'
  <2>1. spc = "deliver" => spc' = "deliver"
    BY <1>1
  <2>2. /\ m_List' \in Seq(Item) /\ m_ppSamples' \in Seq(Item) /\ sending' \in Seq(Item)
        /\ pSample' \in Item /\ AllSamples(m_ppSamples') /\ AllSamples(sending')
        /\ InOrder(m_List') /\ InOrder(m_ppSamples') /\ InOrder(sending')
    BY <1>1 DEF OwnInv, SeqInv
  <2>3. /\ Len(sending') <= mode'.size /\ Len(m_ppSamples') < mode'.size
        /\ \A i \in DOMAIN m_List' : m_List'[i].kind = "NEW_SEGMENT" =>
             i + 1 \in DOMAIN m_List' /\ m_List'[i + 1].kind = "packet"
    BY <1>1 DEF OwnInv, SeqInv
  <2> QED
    BY <1>4, <1>5, <2>2, <2>3, Primes DEF SeqInv
<1>8. OwedInv'
  <2> DEFINE A == Ids(sending)
             B == Ids(m_ppSamples)
             C == Ids(m_List)
             D == sent + 1 .. sent + n
  <2>1. Ids(sending)' = A /\ Ids(m_ppSamples)' = B /\ Ids(m_List)' = C /\ Ids(todo)' = D
    BY <1>1, <1>6, IdsPrime
  <2>2. /\ A \in SUBSET Nat /\ B \in SUBSET Nat /\ C \in SUBSET Nat
        /\ Held(A, B, C, {})
    BY <1>2, FourSets, Empty
  <2> HIDE DEF A, B, C
  <2>3. \A x \in A \union B \union C : x <= sent /\ x \in Nat
    BY <2>2 DEF Held
  <2>4. \A x \in D : sent < x /\ x \in Nat /\ x <= sent + n
    BY <1>2
  <2>5. Lined(A, B, C, D)
    BY <1>2, <2>2, <2>3, <2>4 DEF Held, Lined, Before
  <2>6. refs' = Owed(A \union B \union C \union D)
    <3>1. \A i \in Samples : refs[i] = IF i \in A \union B \union C \union {} THEN 1 ELSE 0
      BY <2>2 DEF Held, Owed
    <3>2. \A i \in Samples : (IF i \in sent + 1 .. sent + n THEN 1 ELSE refs[i])
                               = IF i \in A \union B \union C \union D THEN 1 ELSE 0
      BY <3>1
    <3> QED
      BY <3>2 DEF Owed
  <2>7. \A x \in A \union B \union C \union D : x <= sent'
    BY <1>2, <2>3, <2>4
  <2>8. last \in 0 .. sent
    BY DEF OwnInv, CallInv
  <2>9. \A x \in B \union C \union D : last < x
    <3>1. \A x \in B \union C : last < x
      BY <2>2 DEF Held
    <3> QED
      BY <1>2, <2>4, <2>8, <3>1
  <2>10. wpc # "store" => \A x \in A : last < x
    BY <2>2 DEF Held
  <2> HIDE DEF D
  <2> QED
    BY <1>1, <2>1, <2>5, <2>6, <2>7, <2>9, <2>10 DEF OwedInv, Held
<1> QED
  BY <1>7, <1>8, StartCallCalls, OtherPlaces DEF OwnInv

(* The calls of the streaming thread.                                      *)
LEMMA DiscardKeeps == ASSUME OwnInv, Discard PROVE SeqInv' /\ OwedInv'
<1>1. /\ UNCHANGED <<mode, m_List, m_ppSamples, sending, pSample, sent, last, wpc>>
      /\ todo' = <<>> /\ Release(todo) /\ spc = "call"
  BY DEF Discard, Return, queueState, queue, fixed, worker, down
<1>2. SeqInv'
  <2>1. /\ m_List' \in Seq(Item) /\ m_ppSamples' \in Seq(Item) /\ sending' \in Seq(Item)
        /\ pSample' \in Item /\ AllSamples(m_ppSamples') /\ AllSamples(sending')
        /\ InOrder(m_List') /\ InOrder(m_ppSamples') /\ InOrder(sending')
    BY <1>1 DEF OwnInv, SeqInv
  <2>2. /\ Len(sending') <= mode'.size /\ Len(m_ppSamples') < mode'.size
        /\ \A i \in DOMAIN m_List' : m_List'[i].kind = "NEW_SEGMENT" =>
             i + 1 \in DOMAIN m_List' /\ m_List'[i + 1].kind = "packet"
    BY <1>1 DEF OwnInv, SeqInv
  <2>3. todo' \in Seq(Item) /\ AllSamples(todo') /\ InOrder(todo')
    BY <1>1, Empty
  <2> QED
    BY <2>1, <2>2, <2>3, Primes DEF SeqInv
<1>3. OwedInv'
  <2> DEFINE A == Ids(sending)
             B == Ids(m_ppSamples)
             C == Ids(m_List)
             D == Ids(todo)
  <2>1. Ids(sending)' = A /\ Ids(m_ppSamples)' = B /\ Ids(m_List)' = C /\ Ids(todo)' = {}
    BY <1>1, IdsPrime, Empty
  <2>2. /\ A \in SUBSET Nat /\ B \in SUBSET Nat /\ C \in SUBSET Nat /\ D \in SUBSET Nat
        /\ Held(A, B, C, D)
    BY FourSets
  <2>3. refs' = Owed((A \union B \union C \union D) \ D)
    BY <1>1, <2>2, Released DEF Held
  <2> HIDE DEF A, B, C, D
  <2>4. A \intersect D = {} /\ B \intersect D = {} /\ C \intersect D = {}
    BY <2>2, Apart DEF Held, Lined
  <2>5. (A \union B \union C \union D) \ D = A \union B \union C \union {}
    BY <2>4
  <2>6. Lined(A, B, C, {})
    BY <2>2 DEF Held, Lined, Before
  <2> QED
    BY <1>1, <2>1, <2>2, <2>3, <2>5, <2>6, HeldMoves DEF A, B, C, D
<1> QED
  BY <1>2, <1>3

(* What a call puts at the end of the list: its samples, which are the end *)
(* of the line, or packets.                                                *)
LEMMA QueueKeepsOwn ==
  ASSUME OwnInv, NEW s \in Seq(Item), QueueSamples(s), todo' = <<>>, spc # "deliver",
         UNCHANGED <<mode, m_ppSamples, sending, pSample, sent, last, wpc, refs>>,
         Ids(s) = Ids(todo), InOrder(s),
         \A i \in DOMAIN s : s[i].kind = "NEW_SEGMENT" =>
           i + 1 \in DOMAIN s /\ s[i + 1].kind = "packet"
  PROVE  SeqInv' /\ OwedInv'
<1>1. m_List' = m_List \o s /\ m_List \in Seq(Item)
  BY FourSets DEF QueueSamples
<1>2. Before(Ids(m_List), Ids(s)) /\ InOrder(m_List)
  BY FourSets DEF OwnInv, SeqInv, Held, Lined
<1>3. m_List' \in Seq(Item) /\ InOrder(m_List') /\ Ids(m_List') = Ids(m_List) \union Ids(s)
  BY <1>1, <1>2, Joined
<1>4. \A i \in DOMAIN m_List' : m_List'[i].kind = "NEW_SEGMENT" =>
        i + 1 \in DOMAIN m_List' /\ m_List'[i + 1].kind = "packet"
  <2> SUFFICES ASSUME NEW i \in DOMAIN m_List', m_List'[i].kind = "NEW_SEGMENT"
               PROVE  i + 1 \in DOMAIN m_List' /\ m_List'[i + 1].kind = "packet"
    OBVIOUS
  <2>1. CASE i \in 1 .. Len(m_List)
    <3>1. i \in DOMAIN m_List /\ m_List'[i] = m_List[i]
      BY <1>1, <2>1
    <3>2. i + 1 \in DOMAIN m_List /\ m_List[i + 1].kind = "packet"
      BY <3>1 DEF OwnInv, SeqInv
    <3>3. i + 1 \in DOMAIN m_List' /\ m_List'[i + 1] = m_List[i + 1]
      BY <1>1, <3>2
    <3> QED
      BY <3>2, <3>3
  <2>2. CASE i \notin 1 .. Len(m_List)
    <3>1. i - Len(m_List) \in DOMAIN s /\ m_List'[i] = s[i - Len(m_List)] /\ i \in Nat
      BY <1>1, <2>2
    <3>2. i - Len(m_List) + 1 \in DOMAIN s /\ s[i - Len(m_List) + 1].kind = "packet"
      BY <3>1
    <3>3. i + 1 \in DOMAIN m_List' /\ m_List'[i + 1] = s[i - Len(m_List) + 1]
      BY <1>1, <3>1, <3>2
    <3> QED
      BY <3>2, <3>3
  <2> QED
    BY <2>1, <2>2
<1>5. SeqInv'
  <2>1. /\ m_ppSamples' \in Seq(Item) /\ sending' \in Seq(Item)
        /\ pSample' \in Item /\ AllSamples(m_ppSamples') /\ AllSamples(sending')
        /\ InOrder(m_ppSamples') /\ InOrder(sending')
    BY DEF OwnInv, SeqInv
  <2>2. Len(sending') <= mode'.size /\ Len(m_ppSamples') < mode'.size
    BY DEF OwnInv, SeqInv
  <2>3. todo' \in Seq(Item) /\ AllSamples(todo') /\ InOrder(todo')
    BY Empty
  <2> QED
    BY <1>3, <1>4, <2>1, <2>2, <2>3, Primes DEF SeqInv
<1>6. OwedInv'
  <2> DEFINE A == Ids(sending)
             B == Ids(m_ppSamples)
             C == Ids(m_List)
             D == Ids(todo)
  <2>1. Ids(sending)' = A /\ Ids(m_ppSamples)' = B /\ Ids(m_List)' = C \union D /\ Ids(todo)' = {}
    BY <1>3, IdsPrime, Empty
  <2>2. /\ A \in SUBSET Nat /\ B \in SUBSET Nat /\ C \in SUBSET Nat /\ D \in SUBSET Nat
        /\ Held(A, B, C, D)
    BY FourSets
  <2> HIDE DEF A, B, C, D
  <2>3. A \union B \union C \union D = A \union B \union (C \union D) \union {}
    OBVIOUS
  <2>4. refs' = Owed(A \union B \union (C \union D) \union {})
    BY <2>2, <2>3 DEF Held
  <2>5. Lined(A, B, C \union D, {})
    BY <2>2 DEF Held, Lined, Before
  <2> QED
    BY <2>1, <2>2, <2>3, <2>4, <2>5, HeldMoves DEF A, B, C, D
<1> QED
  BY <1>5, <1>6

LEMMA PacketsAreItems ==
  ASSUME OwnInv, NEW k \in PacketKinds
  PROVE  Packet(k) \in Item /\ ~IsSample(Packet(k)) /\ Packet(k).kind = k
  BY BoundsOf DEF OwnInv, CallInv, Packet, Item, IsSample, PacketKinds

(* One packet, or NEW_SEGMENT and its arguments.                           *)
LEMMA PacketKeepsOwn ==
  ASSUME OwnInv, NEW s, s \in {<<Packet(k)>> : k \in PacketKinds \ {"NEW_SEGMENT"}}
                            \union {<<Packet("NEW_SEGMENT"), Packet("packet")>>},
         QueueSamples(s), todo = <<>>, todo' = <<>>, spc # "deliver",
         UNCHANGED <<mode, m_ppSamples, sending, pSample, sent, last, wpc, refs>>
  PROVE  SeqInv' /\ OwedInv'
<1>1. CASE s = <<Packet("NEW_SEGMENT"), Packet("packet")>>
  <2>1. /\ Packet("NEW_SEGMENT") \in Item /\ ~IsSample(Packet("NEW_SEGMENT"))
        /\ Packet("packet") \in Item /\ ~IsSample(Packet("packet"))
        /\ Packet("packet").kind = "packet"
    BY PacketsAreItems DEF PacketKinds
  <2>2. /\ s \in Seq(Item) /\ Len(s) = 2 /\ DOMAIN s = {1, 2} /\ s[2] = Packet("packet")
        /\ s[1] = Packet("NEW_SEGMENT")
    BY <1>1, <2>1
  <2>3. s[2].kind # "NEW_SEGMENT"
    BY <2>1, <2>2
  <2>4. Ids(s) = {} /\ InOrder(s)
    BY <2>1, <2>2, IdsOf DEF InOrder
  <2>5. Ids(s) = Ids(todo)
    BY <2>4, Empty
  <2>6. \A i \in DOMAIN s : s[i].kind = "NEW_SEGMENT" =>
          i + 1 \in DOMAIN s /\ s[i + 1].kind = "packet"
    BY <2>1, <2>2, <2>3
  <2> QED
    BY <2>2, <2>4, <2>5, <2>6, QueueKeepsOwn
<1>2. ASSUME NEW k \in PacketKinds \ {"NEW_SEGMENT"}, s = <<Packet(k)>>
      PROVE  SeqInv' /\ OwedInv'
  <2>1. Packet(k) \in Item /\ ~IsSample(Packet(k)) /\ Packet(k).kind # "NEW_SEGMENT"
    BY PacketsAreItems
  <2>2. s \in Seq(Item) /\ DOMAIN s = {1} /\ s[1] = Packet(k)
    BY <1>2, <2>1
  <2>3. Ids(s) = {} /\ InOrder(s)
    BY <2>1, <2>2, IdsOf DEF InOrder
  <2> QED
    BY <2>1, <2>2, <2>3, Empty, QueueKeepsOwn
<1> QED
  BY <1>1, <1>2

(* What is handed to the queue, whole.                                     *)
LEMMA ReceiveKeeps == ASSUME WakeInv, OwnInv, QueueReceive PROVE SeqInv' /\ OwedInv'
<1>1. /\ UNCHANGED <<mode, m_ppSamples, sending, pSample, sent, last, wpc, refs>>
      /\ todo' = <<>> /\ QueueSamples(todo) /\ spc = "call"
  BY DEF QueueReceive, Return, fixed, worker, down
<1>2. todo \in Seq(Item) /\ InOrder(todo)
  BY DEF OwnInv, SeqInv
<1>3. \A i \in DOMAIN todo : todo[i].kind # "NEW_SEGMENT"
  BY DEF OwnInv, SeqInv, AllSamples, IsSample
<1> QED
  BY <1>1, <1>2, <1>3, QueueKeepsOwn

LEMMA PacketCallKeeps ==
  ASSUME OwnInv, QueueSendAnyway \/ QueueEos \/ QueueNewSegment
  PROVE  SeqInv' /\ OwedInv'
<1>1. /\ UNCHANGED <<mode, m_ppSamples, sending, pSample, sent, last, wpc, refs>>
      /\ todo' = <<>> /\ spc \in {"call", "queue"}
  BY DEF QueueSendAnyway, QueueEos, QueueNewSegment, Return, fixed, worker, down
<1>2. call # "Receive"
  BY DEF QueueSendAnyway, QueueEos, QueueNewSegment, OwnInv, CallInv
<1>3. todo = <<>>
  BY <1>2 DEF OwnInv, PlaceInv
<1>4. CASE \E s \in {<<Packet(k)>> : k \in PacketKinds \ {"NEW_SEGMENT"}}
                      \union {<<Packet("NEW_SEGMENT"), Packet("packet")>>} : QueueSamples(s)
  BY <1>1, <1>3, <1>4, PacketKeepsOwn
<1>5. CASE m_List' = m_List
  BY <1>1, <1>3, <1>5, SameSequences, SameHeld DEF OwnInv, SeqInv
<1>6. CASE QueueSendAnyway
  BY <1>4, <1>6 DEF QueueSendAnyway, PacketKinds
<1>7. CASE QueueEos
  BY <1>4, <1>5, <1>7 DEF QueueEos, PacketKinds
<1>8. CASE QueueNewSegment
  BY <1>4, <1>8 DEF QueueNewSegment
<1> QED
  BY <1>6, <1>7, <1>8

(* A call without a worker: the front of its samples fills the batch.      *)
LEMMA FillBatchKeeps == ASSUME WakeInv, OwnInv, FillBatch PROVE SeqInv' /\ OwedInv'
<1> DEFINE n == Min({Len(todo), mode.size - Len(m_ppSamples)})
           a == SubSeq(todo, 1, n)
           b == SubSeq(todo, n + 1, Len(todo))
           batch == m_ppSamples \o a
<1>1. /\ UNCHANGED <<mode, m_List, sending, pSample, sent, last, wpc>>
      /\ spc = "batch" /\ todo' = b
  BY DEF FillBatch, fixed, worker, down
<1>2. \/ /\ m_ppSamples' = batch /\ UNCHANGED refs
         /\ Len(batch) = mode.size => spc' = "deliver"
      \/ m_ppSamples' = <<>> /\ Release(batch)
  BY DEF FillBatch
<1>3. /\ todo \in Seq(Item) /\ m_ppSamples \in Seq(Item) /\ mode.size \in Nat \ {0}
      /\ AllSamples(todo) /\ InOrder(todo) /\ AllSamples(m_ppSamples) /\ InOrder(m_ppSamples)
      /\ Len(m_ppSamples) < mode.size
  BY <1>1, ModesOf DEF OwnInv, SeqInv, CallInv
<1>4. n \in 0 .. Len(todo) /\ Len(m_ppSamples) + n <= mode.size
  <2> DEFINE x == Len(todo)
             y == mode.size - Len(m_ppSamples)
  <2>1. x \in Nat /\ y \in Nat
    BY <1>3
  <2>2. n \in {x, y} /\ n <= x /\ n <= y
    BY <2>1 DEF Min
  <2> QED
    BY <1>3, <2>1, <2>2
<1> HIDE DEF n
<1>5. /\ a \in Seq(Item) /\ Len(a) = n /\ AllSamples(a) /\ InOrder(a)
      /\ b \in Seq(Item) /\ AllSamples(b) /\ InOrder(b)
  <2>1. 1 \in Nat \ {0} /\ n + 1 \in Nat \ {0} /\ Len(todo) \in 0 .. Len(todo)
    BY <1>3, <1>4
  <2>2. Len(a) = n
    BY <1>3, <1>4
  <2> QED
    BY <1>3, <1>4, <2>1, <2>2, Part
<1>6. Ids(todo) = Ids(a) \union Ids(b) /\ Before(Ids(a), Ids(b))
  <2>1. n + 1 \in {n + 1, n + 2} /\ n + 1 # n + 2
    BY <1>4
  <2> QED
    BY <1>3, <1>4, <2>1, Cut
<1> HIDE DEF a, b
<1> DEFINE A == Ids(sending)
           B == Ids(m_ppSamples)
           C == Ids(m_List)
           E == Ids(a)
           F == Ids(b)
<1>7. /\ A \in SUBSET Nat /\ B \in SUBSET Nat /\ C \in SUBSET Nat /\ E \in SUBSET Nat
      /\ F \in SUBSET Nat /\ Held(A, B, C, E \union F) /\ C = {}
  <2>1. Ids(todo) \subseteq Nat
    BY FourSets
  <2>2. C = {}
    BY <1>1, Empty DEF WakeInv, DirectInv, OwnInv, PlaceInv
  <2> QED
    BY <1>6, <2>1, <2>2, FourSets
<1>8. /\ batch \in Seq(Item) /\ Len(batch) = Len(m_ppSamples) + n /\ AllSamples(batch)
      /\ InOrder(batch) /\ Ids(batch) = B \union E
  <2>1. Before(B, E)
    BY <1>7 DEF Held, Lined, Before
  <2> QED
    BY <1>3, <1>5, <2>1, Joined
<1>9. Len(batch) <= mode.size /\ Len(batch) \in Nat
  BY <1>3, <1>4, <1>8
<1> HIDE DEF batch
<1>10. SeqInv'
  <2>1. /\ m_List' \in Seq(Item) /\ sending' \in Seq(Item)
        /\ pSample' \in Item /\ AllSamples(sending')
        /\ InOrder(m_List') /\ InOrder(sending') /\ Len(sending') <= mode'.size
        /\ \A i \in DOMAIN m_List' : m_List'[i].kind = "NEW_SEGMENT" =>
             i + 1 \in DOMAIN m_List' /\ m_List'[i + 1].kind = "packet"
    BY <1>1 DEF OwnInv, SeqInv
  <2>2. m_ppSamples' \in Seq(Item) /\ AllSamples(m_ppSamples') /\ InOrder(m_ppSamples')
    BY <1>2, <1>8, Empty
  <2>3. Len(m_ppSamples') < mode'.size \/ (spc' = "deliver" /\ Len(m_ppSamples') = mode'.size)
    BY <1>1, <1>2, <1>3, <1>9, Empty
  <2>4. todo' \in Seq(Item) /\ AllSamples(todo') /\ InOrder(todo')
    BY <1>1, <1>5
  <2> QED
    BY <2>1, <2>2, <2>3, <2>4, Primes DEF SeqInv
<1>11. Ids(sending)' = A /\ Ids(m_List)' = C /\ Ids(todo)' = F
  BY <1>1, IdsPrime
<1>12. CASE m_ppSamples' = batch /\ UNCHANGED refs
  <2>1. Ids(m_ppSamples)' = B \union E
    BY <1>8, <1>12, IdsPrime
  <2> HIDE DEF A, B, C, E, F
  <2>2. Lined(A, B \union E, C, F)
    <3>1. Before(E, F)
      BY <1>6 DEF E, F
    <3> QED
      BY <1>7, <3>1 DEF Held, Lined, Before
  <2>3. A \union B \union C \union (E \union F) = A \union (B \union E) \union C \union F
    OBVIOUS
  <2>4. refs' = Owed(A \union (B \union E) \union C \union F)
    BY <1>7, <1>12, <2>3 DEF Held
  <2>5. Ids(sending) = A /\ Ids(m_ppSamples) = B /\ Ids(m_List) = C /\ Ids(todo) = E \union F
    BY <1>6 DEF A, B, C, E, F
  <2>6. /\ A \union (B \union E) \union C \union F \subseteq A \union B \union C \union (E \union F)
        /\ (B \union E) \union C \union F \subseteq B \union C \union (E \union F)
        /\ B \union E \in SUBSET Nat
    BY <1>7
  <2> QED
    BY <1>1, <1>7, <1>10, <1>11, <2>1, <2>2, <2>4, <2>5, <2>6, HeldMoves
<1>13. CASE m_ppSamples' = <<>> /\ Release(batch)
  <2>1. Ids(m_ppSamples)' = {}
    BY <1>13, IdsPrime, Empty
  <2>2. Ids(batch) = B \union E
    BY <1>8
  <2> HIDE DEF A, B, C, E, F
  <2>3. refs' = Owed((A \union B \union C \union (E \union F)) \ (B \union E))
    BY <1>7, <1>13, <2>2, Released DEF Held
  <2>4. A \intersect (B \union E) = {} /\ F \intersect (B \union E) = {}
    <3>1. Before(E, F)
      BY <1>6 DEF E, F
    <3>2. Before(A, B) /\ Before(A, E) /\ Before(B, F)
      BY <1>7 DEF Held, Lined, Before
    <3> QED
      BY <1>7, <3>1, <3>2, Apart
  <2>5. (A \union B \union C \union (E \union F)) \ (B \union E) = A \union {} \union C \union F
    BY <1>7, <2>4
  <2>6. Lined(A, {}, C, F)
    BY <1>7 DEF Held, Lined, Before
  <2>7. Ids(sending) = A /\ Ids(m_ppSamples) = B /\ Ids(m_List) = C /\ Ids(todo) = E \union F
    BY <1>6 DEF A, B, C, E, F
  <2>8. /\ A \union {} \union C \union F \subseteq A \union B \union C \union (E \union F)
        /\ {} \union C \union F \subseteq B \union C \union (E \union F)
    OBVIOUS
  <2> QED
    BY <1>1, <1>7, <1>10, <1>11, <2>1, <2>3, <2>5, <2>6, <2>7, <2>8, HeldMoves
<1> QED
  BY <1>2, <1>12, <1>13

(* A batch that is full is received, in whole or in part, and released.    *)
LEMMA DirectDeliverKeeps == ASSUME WakeInv, OwnInv, DirectDeliver PROVE SeqInv' /\ OwedInv'
<1>1. /\ UNCHANGED <<mode, m_List, sending, todo, pSample, sent, wpc>>
      /\ spc = "deliver" /\ m_ppSamples' = <<>> /\ Release(m_ppSamples)
  BY DEF DirectDeliver, fixed, worker, stream
<1>2. SeqInv'
  <2>1. mode.size \in Nat \ {0}
    BY ModesOf DEF OwnInv, CallInv
  <2>2. /\ m_List' \in Seq(Item) /\ sending' \in Seq(Item)
        /\ pSample' \in Item /\ AllSamples(sending')
        /\ InOrder(m_List') /\ InOrder(sending') /\ Len(sending') <= mode'.size
        /\ \A i \in DOMAIN m_List' : m_List'[i].kind = "NEW_SEGMENT" =>
             i + 1 \in DOMAIN m_List' /\ m_List'[i + 1].kind = "packet"
        /\ todo' \in Seq(Item) /\ AllSamples(todo') /\ InOrder(todo')
    BY <1>1 DEF OwnInv, SeqInv
  <2>3. /\ m_ppSamples' \in Seq(Item) /\ AllSamples(m_ppSamples') /\ InOrder(m_ppSamples')
        /\ Len(m_ppSamples') < mode'.size
    BY <1>1, <2>1, Empty
  <2> QED
    BY <2>2, <2>3, Primes DEF SeqInv
<1>3. OwedInv'
  <2> DEFINE A == Ids(sending)
             B == Ids(m_ppSamples)
             C == Ids(m_List)
             D == Ids(todo)
  <2>1. Ids(sending)' = A /\ Ids(m_ppSamples)' = {} /\ Ids(m_List)' = C /\ Ids(todo)' = D
    BY <1>1, IdsPrime, Empty
  <2>2. /\ A \in SUBSET Nat /\ B \in SUBSET Nat /\ C \in SUBSET Nat /\ D \in SUBSET Nat
        /\ Held(A, B, C, D) /\ m_ppSamples \in Seq(Item)
    BY FourSets
  <2>3. last' \in {last} \union B
    <3>1. AllSamples(m_ppSamples) /\ m_ppSamples # <<>>
      BY <1>1 DEF OwnInv, SeqInv, PlaceInv
    <3>2. Len(m_ppSamples) \in DOMAIN m_ppSamples
      BY <2>2, <3>1
    <3>3. Last(m_ppSamples).id \in B
      BY <2>2, <3>1, <3>2, IdsOf DEF Last, AllSamples
    <3>4. PICK r \in {"S_OK", "S_FALSE", "E_FAIL"} : Received(m_ppSamples, r)
      BY DEF DirectDeliver
    <3> QED
      BY <3>3, <3>4 DEF Received
  <2>4. A = {} /\ C = {}
    <3>1. ~mode.queued /\ wpc = "none"
      BY <1>1 DEF WakeInv, DirectInv, WaitInv
    <3> QED
      BY <3>1, Empty DEF OwnInv, PlaceInv
  <2>5. refs' = Owed((A \union B \union C \union D) \ B)
    BY <1>1, <2>2, Released DEF Held
  <2> HIDE DEF A, B, C, D
  <2>6. B \intersect D = {}
    BY <2>2, Apart DEF Held, Lined
  <2>7. (A \union B \union C \union D) \ B = A \union {} \union C \union D
    BY <2>4, <2>6
  <2>8. Lined(A, {}, C, D)
    BY <2>2 DEF Held, Lined, Before
  <2>9. \A i \in {} \union C \union D : last' < i
    BY <2>2, <2>3, <2>4 DEF Held, Lined, Before
  <2>10. \A i \in A \union {} \union C \union D : i <= sent
    BY <2>2 DEF Held
  <2>11. \A i \in A : last' < i
    BY <2>4
  <2>12. refs' = Owed(A \union {} \union C \union D)
    BY <2>5, <2>7
  <2> QED
    BY <1>1, <2>1, <2>8, <2>9, <2>10, <2>11, <2>12 DEF OwedInv, Held
<1> QED
  BY <1>2, <1>3

LEMMA StreamKeepsOwn == ASSUME WakeInv, OwnInv, StreamStep PROVE OwnInv'
<1>1. CallInv' /\ PlaceInv'
  BY StreamCalls, StreamPlaces
<1>2. CASE CheckNewSegment \/ DirectReceive \/ DirectSendAnyway \/ DirectEos \/ BatchDone
           \/ DirectSendEos \/ DirectNewSegment
  <2>1. /\ UNCHANGED <<mode, m_List, m_ppSamples, sending, pSample, refs, sent, last, wpc>>
        /\ spc # "deliver"
    BY <1>2 DEF CheckNewSegment, DirectReceive, DirectSendAnyway, DirectEos, BatchDone,
       DirectSendEos, DirectNewSegment, fixed, worker, down, queueState, queue
  <2>2. todo' = todo
    <3>1. todo' # todo => todo = <<>> /\ todo' = <<>>
      BY <1>2 DEF CheckNewSegment, DirectReceive, DirectSendAnyway, DirectEos, BatchDone,
         DirectSendEos, DirectNewSegment, Return, OwnInv, PlaceInv
    <3> QED
      BY <3>1
  <2> QED
    BY <1>1, <2>1, <2>2, SameSequences, SameHeld DEF OwnInv, SeqInv
<1> QED
  BY <1>1, <1>2, DiscardKeeps, ReceiveKeeps, PacketCallKeeps, FillBatchKeeps, DirectDeliverKeeps
     DEF StreamStep, OwnInv

LEMMA ControlKeepsOwn == ASSUME WakeInv, OwnInv, ControlCall \/ ControlStep PROVE OwnInv'
<1>1. CallInv' /\ PlaceInv'
  BY ControlCalls, OtherPlaces
<1>2. /\ UNCHANGED <<mode, sending, todo, pSample, sent, last, wpc, spc>>
  BY DEF ControlCall, ControlStep, BeginFlush, EndFlushNoop, EndFlush, DirectReset, Reset,
     DestroyDirect, Destroy, BeginFlushLocked, DeliverBeginFlush, WaitComplete, LeaveFlush,
     DeliverEndFlush, EndFlushReturn, Join, fixed, worker, stream, callers, down
<1>3. CASE FreeSamples
  BY <1>1, <1>2, <1>3, FreeKeeps DEF OwnInv
<1>4. CASE UNCHANGED <<m_List, m_ppSamples, refs>>
  BY <1>1, <1>2, <1>4, SameSequences, SameHeld DEF OwnInv, SeqInv
<1>5. CASE Reset
  <2>1. /\ UNCHANGED <<m_ppSamples, refs>> /\ QueueSamples(<<Packet("RESET_PACKET")>>)
        /\ spc = "idle"
    BY <1>5 DEF Reset, ControlIdle
  <2>2. todo = <<>>
    BY <2>1 DEF OwnInv, PlaceInv
  <2>3. <<Packet("RESET_PACKET")>> \in {<<Packet(k)>> : k \in PacketKinds \ {"NEW_SEGMENT"}}
                            \union {<<Packet("NEW_SEGMENT"), Packet("packet")>>}
    BY DEF PacketKinds
  <2> QED
    BY <1>1, <1>2, <2>1, <2>2, <2>3, PacketKeepsOwn DEF OwnInv
<1>6. ~Reset => FreeSamples \/ UNCHANGED <<m_List, m_ppSamples, refs>>
  BY DEF ControlCall, ControlStep, BeginFlush, EndFlushNoop, EndFlush, DirectReset,
     DestroyDirect, Destroy, BeginFlushLocked, DeliverBeginFlush, WaitComplete, LeaveFlush,
     DeliverEndFlush, EndFlushReturn, Join, queueState, queue
<1> QED
  BY <1>3, <1>4, <1>5, <1>6

LEMMA RestKeepsOwn ==
  ASSUME WakeInv, OwnInv, DownstreamPause \/ UNCHANGED vars
  PROVE  OwnInv'
<1>1. /\ UNCHANGED <<mode, m_List, m_ppSamples, sending, todo, pSample, refs, sent, last, wpc, spc>>
      /\ UNCHANGED <<era, call, op, step, filterFlushing, m_hr, hr, m_bFlushing, m_bFlushed,
                     m_bTerminate, m_evFlushComplete, downFlushing>>
      /\ downPaused' \in BOOLEAN
  BY DEF DownstreamPause, vars, queueState, queue, flags, callers, stream, control, fixed, worker,
     down, OwnInv, CallInv
<1>2. CallInv'
  BY <1>1 DEF OwnInv, CallInv
<1>3. PlaceInv'
  BY <1>1 DEF OwnInv, PlaceInv
<1> QED
  BY <1>1, <1>2, <1>3, SameSequences, SameHeld DEF OwnInv, SeqInv

LEMMA OwnKept == ASSUME WakeInv, OwnInv, [Next]_vars PROVE OwnInv'
<1>1. CASE Next
  BY <1>1, WorkerKeepsOwn, StartCallKeepsOwn, StreamKeepsOwn, ControlKeepsOwn, RestKeepsOwn
     DEF Next, Destroyed
<1> QED
  BY <1>1, RestKeepsOwn

(* The line: the samples of the four places one behind the other.          *)
LEMMA LineIs ==
  ASSUME OwnInv
  PROVE  /\ Line \in Seq(Item) /\ AllSamples(Line) /\ InOrder(Line)
         /\ Ids(Line) = Ids(sending) \union Ids(m_ppSamples) \union Ids(m_List) \union Ids(todo)
<1> DEFINE A == Ids(sending)
           B == Ids(m_ppSamples)
           C == Ids(m_List)
           D == Ids(todo)
           r == sending \o m_ppSamples
           s == r \o m_List
           t == s \o todo
<1>1. /\ m_List \in Seq(Item) /\ m_ppSamples \in Seq(Item) /\ sending \in Seq(Item)
      /\ todo \in Seq(Item) /\ InOrder(m_List) /\ InOrder(m_ppSamples) /\ InOrder(sending)
      /\ InOrder(todo) /\ Lined(A, B, C, D)
  BY FourSets DEF OwnInv, SeqInv, Held
<1> HIDE DEF A, B, C, D
<1>2. Before(A, B) /\ Before(A \union B, C) /\ Before(A \union B \union C, D)
  BY <1>1 DEF Lined, Before
<1>3. r \in Seq(Item) /\ InOrder(r) /\ Ids(r) = A \union B
  BY <1>1, <1>2, Joined DEF A, B
<1> HIDE DEF r
<1>4. s \in Seq(Item) /\ InOrder(s) /\ Ids(s) = A \union B \union C
  BY <1>1, <1>2, <1>3, Joined, ZenonT(60) DEF C
<1> HIDE DEF s
<1>5. t \in Seq(Item) /\ InOrder(t) /\ Ids(t) = A \union B \union C \union D
  BY <1>1, <1>2, <1>4, Joined, ZenonT(60) DEF D
<1>6. Line = SamplesOf(t)
  BY DEF Line, r, s
<1> HIDE DEF t
<1> QED
  BY <1>5, <1>6, SamplesOfIsTheSamples DEF A, B, C, D

LEMMA OwnIsInLine == OwnInv => SamplesInLine
<1> SUFFICES ASSUME OwnInv PROVE SamplesInLine
  OBVIOUS
<1> DEFINE S == Ids(sending) \union Ids(m_ppSamples) \union Ids(m_List) \union Ids(todo)
<1>1. Line \in Seq(Item) /\ AllSamples(Line) /\ InOrder(Line) /\ Ids(Line) = S
  BY LineIs
<1>2. Held(Ids(sending), Ids(m_ppSamples), Ids(m_List), Ids(todo))
  BY DEF OwnInv, OwedInv
<1>3. \A i, j \in DOMAIN Line : i < j => Line[i].id < Line[j].id
  BY <1>1 DEF InOrder, AllSamples
<1>4. \A i \in Samples : refs[i] = IF i \in Ids(Line) THEN 1 ELSE 0
  BY <1>1, <1>2 DEF Held, Owed
<1>5. wpc # "store" => \A i \in DOMAIN Line : Line[i].id > last
  <2> SUFFICES ASSUME wpc # "store", NEW i \in DOMAIN Line PROVE Line[i].id > last
    OBVIOUS
  <2>1. Line[i].id \in Ids(Line) /\ Line[i].id \in Nat
    <3>1. Line[i] \in Item /\ IsSample(Line[i])
      BY <1>1 DEF AllSamples
    <3>2. Line[i].id \in Nat
      BY <3>1 DEF Item
    <3>3. Line[i].id \in Ids(Line)
      BY <1>1, <3>1, IdsOf
    <3> QED
      BY <3>2, <3>3
  <2>2. last < Line[i].id
    BY <1>1, <1>2, <2>1 DEF Held
  <2>3. last \in Nat
    BY BoundsOf DEF OwnInv, CallInv
  <2> QED
    BY <2>1, <2>2, <2>3
<1> QED
  BY <1>3, <1>4, <1>5 DEF SamplesInLine

LEMMA OwnIsTyped == WakeInv /\ OwnInv => TypeOK
<1> SUFFICES ASSUME WakeInv, OwnInv PROVE TypeOK
  OBVIOUS
<1>1. mode \in Modes /\ mode.size \in Nat \ {0}
  BY ModesOf DEF OwnInv, CallInv
<1>2. /\ m_List \in Seq(Item) /\ m_ppSamples \in Seq(Item) /\ sending \in Seq(Item)
      /\ todo \in Seq(Item) /\ pSample \in Item
      /\ Len(m_ppSamples) <= mode.size /\ Len(sending) <= mode.size
  BY <1>1 DEF OwnInv, SeqInv
<1>3. m_lWaiting \in 0 .. 1 /\ m_hSem \in 0 .. 1
  BY DEF WakeInv, WaitInv
<1>4. {m_evFlushComplete, m_bFlushing, m_bFlushed, m_bTerminate, filterFlushing,
       downPaused, downFlushing} \subseteq BOOLEAN
  BY DEF OwnInv, CallInv
<1>5. /\ {m_hr, hr} \subseteq {"S_OK", "S_FALSE", "E_FAIL"}
      /\ call \in Calls \union {"none"}
      /\ wpc \in {"none", "get", "wait", "send", "deliver", "store", "packet", "eos", "signal",
                  "exited"}
      /\ spc \in {"idle", "call", "queue", "anyway", "batch", "deliver", "eos", "segment"}
      /\ op \in {"none", "BeginFlush", "EndFlush", "Reset", "Destroy", "destroyed"}
  BY DEF OwnInv, CallInv
<1>6. step \in {"idle", "lock", "down", "wait", "leave", "clear", "join"}
  BY DEF OwnInv, CallInv
<1>7. last \in 0 .. MaxSamples /\ era \in 0 .. MaxFlushes /\ sent \in 0 .. MaxSamples
  BY BoundsOf DEF OwnInv, CallInv
<1>8. refs \in [Samples -> 0 .. 1]
  BY DEF OwnInv, OwedInv, Held, Owed
<1> QED
  BY <1>1, <1>2, <1>3, <1>4, <1>5, <1>6, <1>7, <1>8 DEF TypeOK

(* Whatever calls come, in whatever mode and however they meet a flush or  *)
(* a Reset: no sample is lost, repeated, overtaken or released twice.      *)
THEOREM SamplesStayInLine == Spec => [](TypeOK /\ SamplesInLine)
<1>1. Init => WakeInv /\ OwnInv
  BY InitHolds, OwnInit
<1>2. WakeInv /\ OwnInv /\ [Next]_vars => WakeInv' /\ OwnInv'
  BY WakeKept, OwnKept
<1>3. WakeInv /\ OwnInv => TypeOK /\ SamplesInLine
  BY OwnIsInLine, OwnIsTyped
<1> QED
  BY <1>1, <1>2, <1>3, PTL DEF Spec

-----------------------------------------------------------------------------
(***************************************************************************)
(* Nothing from before a flush is left after it                            *)
(***************************************************************************)

(* What the queue holds, and what of it belongs to a flush era.            *)
Stored == Range(m_List) \union Range(m_ppSamples) \union Range(sending) \union {pSample}
Dated(x) == x.kind \in {"sample", "EOS_PACKET"}
FreshInv == \A x \in Stored \union Range(todo) : Dated(x) => x.era = era
Cleared == \A x \in Stored : ~Dated(x)

(* A flush: m_hr refuses new samples from BeginFlush to the end of         *)
(* EndFlush, and once the worker has signalled that it has freed what      *)
(* there was, nothing comes in that belongs to an era.                     *)
FlushInv ==
  /\ m_bFlushing => filterFlushing
  /\ op = "BeginFlush" /\ step = "down" /\ mode.queued => m_bFlushing
  /\ filterFlushing /\ op = "none" => m_bFlushing
  /\ op = "EndFlush" => (m_bFlushing <=> step \in {"wait", "leave"})
  /\ m_bFlushing \/ op = "EndFlush" => m_hr # "S_OK"
  /\ spc = "deliver" => m_hr = "S_OK"
  /\ op = "EndFlush" /\ step = "wait" => ~FlushIsNoop /\ mode.queued
  /\ op = "EndFlush" /\ step \in {"leave", "down"} => Cleared
  /\ m_bFlushing /\ ~FlushIsNoop /\ m_evFlushComplete => Cleared
  /\ m_evFlushComplete => mode.queued

(* Reset waits for its own packet, and for nothing else.                   *)
ResetInv ==
  /\ \A i \in DOMAIN m_List : m_List[i].kind = "RESET_PACKET" =>
       i = Len(m_List) /\ op = "Reset" /\ ~m_evFlushComplete
  /\ pSample.kind = "RESET_PACKET" =>
       /\ op = "Reset" /\ ~m_evFlushComplete
       /\ \A i \in DOMAIN m_List : m_List[i].kind # "RESET_PACKET"
  /\ op = "Reset" => mode.queued /\ mode.resets

(* With an owner that resets, a flush signals once: no call wakes the      *)
(* worker between its signal and the end of the flush.                     *)
AtRest == wpc = "wait" /\ m_hSem = 0
EventInv ==
  mode.queued /\ mode.resets =>
    /\ m_evFlushComplete => op = "Reset" \/ (m_bFlushing /\ AtRest)
    /\ op = "EndFlush" /\ step = "leave" => ~m_evFlushComplete /\ AtRest
    /\ filterFlushing => call \in mode.late \union {"none"}

EraInv == FreshInv /\ FlushInv /\ ResetInv /\ EventInv

LEMMA EraInit == Init => EraInv
<1> SUFFICES ASSUME Init PROVE EraInv
  OBVIOUS
<1>1. /\ m_List = <<>> /\ m_ppSamples = <<>> /\ sending = <<>> /\ todo = <<>>
      /\ pSample = NoPacket
  BY DEF Init
<1>2. ~Dated(NoPacket) /\ NoPacket.kind # "RESET_PACKET"
  BY DEF Dated, NoPacket
<1>3. Stored = {NoPacket} /\ Range(todo) = {}
  BY <1>1, Empty DEF Stored
<1>4. FreshInv
  BY <1>2, <1>3 DEF FreshInv
<1>5. ResetInv
  <2>1. DOMAIN m_List = {} /\ op = "none"
    BY <1>1 DEF Init
  <2> QED
    BY <1>1, <1>2, <2>1 DEF ResetInv
<1>6. FlushInv /\ EventInv
  BY DEF Init, FlushInv, EventInv
<1> QED
  BY <1>4, <1>5, <1>6 DEF EraInv

LEMMA EraPrimes ==
  /\ Stored' = Range(m_List') \union Range(m_ppSamples') \union Range(sending') \union {pSample'}
  /\ Range(todo)' = Range(todo')
  /\ Cleared' <=> \A x \in Stored' : ~Dated(x)
  /\ FreshInv' <=> \A x \in Stored' \union Range(todo') : Dated(x) => x.era = era'
  BY DEF Stored, Range, Cleared, FreshInv, Dated

LEMMA Undated ==
  /\ ~Dated(NoPacket) /\ NoPacket.kind # "RESET_PACKET"
  /\ \A k \in {"SEND_PACKET", "RESET_PACKET", "NEW_SEGMENT", "packet"} : ~Dated(Packet(k))
  /\ \A k \in PacketKinds : Packet(k).era = era /\ Packet(k).kind = k
  BY DEF Dated, NoPacket, Packet, PacketKinds

(* The worker moves things, and brings none.                               *)
LEMMA WorkerTakes ==
  ASSUME WakeInv, OwnInv, WorkerStep
  PROVE  Stored' \subseteq Stored \union {NoPacket} /\ todo' = todo
<1>1. todo' = todo
  BY DEF WorkerStep, Terminate, FlushQueue, GetBatch, GetLast, Wait, StartSend, SkipSend, AfterSend,
     NextRound, Deliver, StoreResult, CheckEos, SendEos, SendNewSegment, ClearResult,
     SignalReset, MayGet, callers, stream
<1>2. /\ m_List \in Seq(Item) /\ m_ppSamples \in Seq(Item) /\ sending \in Seq(Item)
  BY FourSets
<1>3. CASE Terminate \/ FlushQueue
  <2>1. m_List' = <<>> /\ m_ppSamples' = <<>> /\ UNCHANGED <<sending, pSample>>
    BY <1>3 DEF Terminate, FlushQueue, FreeSamples
  <2> QED
    BY <1>1, <2>1, Empty, EraPrimes DEF Stored
<1>4. CASE GetBatch
  <2> DEFINE i == Min(Ends)
             taken == IF m_List[i].kind = "NEW_SEGMENT" THEN i + 1 ELSE i
             b == SubSeq(m_List, taken + 1, Len(m_List))
  <2>1. /\ sending' = Batched(i) /\ pSample' = m_List[i] /\ m_List' = b /\ m_ppSamples' = <<>>
        /\ wpc = "get" /\ Ends # {}
    BY <1>4 DEF GetBatch, MayGet
  <2>2. i \in 1 .. Len(m_List)
    BY <1>2, <2>1, WorkerAtGet, FirstEnd
  <2> HIDE DEF i
  <2>3. /\ i \in 0 .. Len(m_List) /\ m_List[i] \in Range(m_List)
        /\ taken + 1 \in Nat \ {0} /\ Len(m_List) \in 0 .. Len(m_List)
    BY <1>2, <2>2 DEF Range
  <2>4. Range(Batched(i)) \subseteq Range(m_ppSamples) \union Range(m_List)
    BY <1>2, <2>1, <2>3, WorkerAtGet, BatchedIs
  <2> HIDE DEF taken
  <2>5. Range(b) \subseteq Range(m_List)
    BY <1>2, <2>3, Part
  <2> QED
    BY <1>1, <2>1, <2>3, <2>4, <2>5, Empty, EraPrimes DEF Stored
<1>5. CASE GetLast
  <2> DEFINE all == Batched(Len(m_List))
  <2>1. /\ m_List' = <<>> /\ wpc = "get"
        /\ \/ m_ppSamples' = all /\ UNCHANGED <<sending, pSample>>
           \/ sending' = all /\ pSample' = NoPacket /\ m_ppSamples' = <<>>
    BY <1>5 DEF GetLast, MayGet
  <2>2. Len(m_List) \in 0 .. Len(m_List)
    BY <1>2
  <2>3. Range(all) \subseteq Range(m_ppSamples) \union Range(m_List)
    BY <1>2, <2>1, <2>2, WorkerAtGet, BatchedIs
  <2> HIDE DEF all
  <2> QED
    BY <1>1, <2>1, <2>3, Empty, EraPrimes DEF Stored
<1>6. CASE Wait \/ StartSend \/ SkipSend \/ Deliver \/ StoreResult \/ CheckEos \/ SendEos
           \/ SendNewSegment \/ ClearResult \/ SignalReset
  <2>1. /\ UNCHANGED <<m_List, m_ppSamples>> /\ sending' \in {sending, <<>>}
        /\ pSample' \in {pSample, NoPacket}
    BY <1>6 DEF Wait, StartSend, SkipSend, AfterSend, NextRound, Deliver, StoreResult, CheckEos,
       SendEos, SendNewSegment, ClearResult, SignalReset, queueState, queue
  <2> QED
    BY <1>1, <2>1, Empty, EraPrimes DEF Stored
<1> QED
  BY <1>3, <1>4, <1>5, <1>6 DEF WorkerStep

(* The streaming thread brings what is of this era, and only while m_hr    *)
(* lets it or on its own thread.                                           *)
LEMMA StreamBrings ==
  ASSUME WakeInv, OwnInv, StreamStep
  PROVE  /\ Range(todo') \subseteq Range(todo)
         /\ \A x \in Stored' : \/ x \in Stored \/ ~Dated(x)
                               \/ /\ m_hr = "S_OK" \/ ~mode.queued
                                  /\ x \in Range(todo) \/ x.era = era
<1>1. UNCHANGED <<sending, pSample>>
  BY DEF StreamStep, Discard, QueueReceive, QueueSendAnyway, QueueEos, CheckNewSegment,
     QueueNewSegment, DirectReceive, FillBatch, DirectDeliver, DirectSendAnyway, DirectEos,
     BatchDone, DirectSendEos, DirectNewSegment, worker
<1>2. /\ m_List \in Seq(Item) /\ m_ppSamples \in Seq(Item) /\ todo \in Seq(Item)
  BY FourSets
<1>3. CASE QueueReceive
  <2>1. m_List' = m_List \o todo /\ m_ppSamples' = m_ppSamples /\ todo' = <<>> /\ m_hr = "S_OK"
    BY <1>3 DEF QueueReceive, QueueSamples, Return
  <2>2. Range(m_List') = Range(m_List) \union Range(todo)
    BY <1>2, <2>1, Joined
  <2> QED
    BY <1>1, <2>1, <2>2, Empty, EraPrimes DEF Stored
<1>4. CASE QueueSendAnyway \/ QueueEos \/ QueueNewSegment
  <2>1. m_ppSamples' = m_ppSamples /\ todo' = <<>>
    BY <1>4 DEF QueueSendAnyway, QueueEos, QueueNewSegment, Return
  <2>2. ASSUME NEW k \in PacketKinds, m_List' = m_List \o <<Packet(k)>>
        PROVE  Range(m_List') = Range(m_List) \union {Packet(k)}
    <3>1. <<Packet(k)>> \in Seq(Item)
      BY PacketsAreItems
    <3>2. Range(<<Packet(k)>>) = {Packet(k)}
      BY DEF Range
    <3> QED
      BY <1>2, <2>2, <3>1, <3>2, Joined, ZenonT(60)
  <2>3. CASE QueueSendAnyway
    <3>1. m_List' = m_List \o <<Packet("SEND_PACKET")>> /\ "SEND_PACKET" \in PacketKinds
      BY <2>3 DEF QueueSendAnyway, QueueSamples, PacketKinds
    <3> QED
      BY <1>1, <2>1, <2>2, <3>1, Undated, Empty, EraPrimes DEF Stored
  <2>4. CASE QueueEos
    <3>1. \/ m_List' = m_List
          \/ m_List' = m_List \o <<Packet("EOS_PACKET")>> /\ m_hr = "S_OK"
      BY <2>4 DEF QueueEos, QueueSamples
    <3>2. "EOS_PACKET" \in PacketKinds
      BY DEF PacketKinds
    <3>3. CASE m_List' = m_List
      BY <1>1, <2>1, <3>3, Empty, EraPrimes DEF Stored
    <3>4. CASE m_List' = m_List \o <<Packet("EOS_PACKET")>> /\ m_hr = "S_OK"
      BY <1>1, <2>1, <2>2, <3>2, <3>4, Undated, Empty, EraPrimes DEF Stored
    <3> QED
      BY <3>1, <3>3, <3>4
  <2>5. CASE QueueNewSegment
    <3>1. m_List' = m_List \o <<Packet("NEW_SEGMENT"), Packet("packet")>>
      BY <2>5 DEF QueueNewSegment, QueueSamples
    <3>2. "NEW_SEGMENT" \in PacketKinds /\ "packet" \in PacketKinds
      BY DEF PacketKinds
    <3>3. <<Packet("NEW_SEGMENT"), Packet("packet")>> \in Seq(Item)
      BY <3>2, PacketsAreItems
    <3>4. Range(<<Packet("NEW_SEGMENT"), Packet("packet")>>)
            = {Packet("NEW_SEGMENT"), Packet("packet")}
      BY DEF Range
    <3>5. Range(m_List') = Range(m_List) \union {Packet("NEW_SEGMENT"), Packet("packet")}
      BY <1>2, <3>1, <3>3, <3>4, Joined, ZenonT(60)
    <3> QED
      BY <1>1, <2>1, <3>5, Undated, Empty, EraPrimes DEF Stored
  <2> QED
    BY <1>4, <2>3, <2>4, <2>5
<1>5. CASE FillBatch
  <2> DEFINE n == Min({Len(todo), mode.size - Len(m_ppSamples)})
             a == SubSeq(todo, 1, n)
             b == SubSeq(todo, n + 1, Len(todo))
  <2>1. /\ m_List' = m_List /\ todo' = b /\ m_ppSamples' \in {m_ppSamples \o a, <<>>}
        /\ spc = "batch"
    BY <1>5 DEF FillBatch
  <2>2. ~mode.queued /\ mode.size \in Nat \ {0} /\ Len(m_ppSamples) < mode.size
    BY <2>1, ModesOf DEF WakeInv, DirectInv, OwnInv, CallInv, SeqInv
  <2>3. n \in 0 .. Len(todo)
    <3> DEFINE x == Len(todo)
               y == mode.size - Len(m_ppSamples)
    <3>1. x \in Nat /\ y \in Nat
      BY <1>2, <2>2
    <3>2. n \in {x, y} /\ n <= x
      BY <3>1 DEF Min
    <3> QED
      BY <3>1, <3>2
  <2> HIDE DEF n
  <2>4. /\ 1 \in Nat \ {0} /\ n + 1 \in Nat \ {0} /\ Len(todo) \in 0 .. Len(todo)
    BY <1>2, <2>3
  <2>5. /\ a \in Seq(Item) /\ Range(a) \subseteq Range(todo) /\ Range(b) \subseteq Range(todo)
    BY <1>2, <2>3, <2>4, Part
  <2> HIDE DEF a, b
  <2>6. Range(m_ppSamples \o a) = Range(m_ppSamples) \union Range(a)
    BY <1>2, <2>5, Joined
  <2> QED
    BY <1>1, <2>1, <2>2, <2>5, <2>6, Empty, EraPrimes DEF Stored
<1>6. CASE Discard \/ CheckNewSegment \/ DirectReceive \/ DirectDeliver \/ DirectSendAnyway
           \/ DirectEos \/ BatchDone \/ DirectSendEos \/ DirectNewSegment
  <2>1. /\ UNCHANGED m_List /\ m_ppSamples' \in {m_ppSamples, <<>>} /\ todo' \in {todo, <<>>}
    BY <1>6 DEF Discard, CheckNewSegment, DirectReceive, DirectDeliver, DirectSendAnyway,
       DirectEos, BatchDone, DirectSendEos, DirectNewSegment, Return, queueState, queue
  <2> QED
    BY <1>1, <2>1, Empty, EraPrimes DEF Stored
<1> QED
  BY <1>3, <1>4, <1>5, <1>6 DEF StreamStep

(* The control thread brings nothing but the packet of Reset.              *)
LEMMA ControlBrings ==
  ASSUME WakeInv, OwnInv, ControlCall \/ ControlStep
  PROVE  /\ todo' = todo /\ \A x \in Stored' : x \in Stored \/ ~Dated(x)
<1>1. UNCHANGED <<sending, pSample, todo>>
  BY DEF ControlCall, ControlStep, BeginFlush, EndFlushNoop, EndFlush, DirectReset, Reset,
     DestroyDirect, Destroy, BeginFlushLocked, DeliverBeginFlush, WaitComplete, LeaveFlush,
     DeliverEndFlush, EndFlushReturn, Join, worker, stream, callers
<1>2. CASE Reset
  <2>1. m_List' = m_List \o <<Packet("RESET_PACKET")>> /\ m_ppSamples' = m_ppSamples
    BY <1>2 DEF Reset, QueueSamples
  <2>2. <<Packet("RESET_PACKET")>> \in Seq(Item) /\ m_List \in Seq(Item)
    BY PacketsAreItems, FourSets DEF PacketKinds
  <2>3. Range(<<Packet("RESET_PACKET")>>) = {Packet("RESET_PACKET")}
    BY DEF Range
  <2>4. Range(m_List') = Range(m_List) \union {Packet("RESET_PACKET")}
    BY <2>1, <2>2, <2>3, Joined
  <2> QED
    BY <1>1, <2>1, <2>4, Undated, EraPrimes DEF Stored
<1>3. ~Reset => m_List' \in {m_List, <<>>} /\ m_ppSamples' \in {m_ppSamples, <<>>}
  BY DEF ControlCall, ControlStep, BeginFlush, EndFlushNoop, EndFlush, DirectReset,
     DestroyDirect, Destroy, BeginFlushLocked, DeliverBeginFlush, WaitComplete, LeaveFlush,
     DeliverEndFlush, EndFlushReturn, Join, queueState, queue, FreeSamples
<1>4. CASE ~Reset
  BY <1>1, <1>3, <1>4, Empty, EraPrimes DEF Stored
<1> QED
  BY <1>2, <1>4

LEMMA FreshKept ==
  ASSUME WakeInv, OwnInv, EraInv, [Next]_vars
  PROVE  FreshInv'
<1>1. \A x \in Stored \union Range(todo) : Dated(x) => x.era = era
  BY DEF EraInv, FreshInv
<1>2. CASE WorkerStep
  <2>1. era' = era
    BY <1>2 DEF WorkerStep, Terminate, FlushQueue, GetBatch, GetLast, Wait, StartSend, SkipSend,
       Deliver, StoreResult, CheckEos, SendEos, SendNewSegment, ClearResult, SignalReset, fixed
  <2> QED
    BY <1>1, <1>2, <2>1, WorkerTakes, Undated, EraPrimes
<1>3. CASE StreamStep
  <2>1. era' = era
    BY <1>3 DEF StreamStep, Discard, QueueReceive, QueueSendAnyway, QueueEos, CheckNewSegment,
       QueueNewSegment, DirectReceive, FillBatch, DirectDeliver, DirectSendAnyway, DirectEos,
       BatchDone, DirectSendEos, DirectNewSegment, fixed
  <2> QED
    BY <1>1, <1>3, <2>1, StreamBrings, EraPrimes
<1>4. CASE StartCall
  <2>1. UNCHANGED <<era, m_List, m_ppSamples, sending, pSample>>
    BY <1>4 DEF StartCall, queueState, queue, fixed, worker
  <2>2. PICK n \in 0 .. 2 : todo' = [i \in 1 .. n |-> Sample(sent + i)]
    BY <1>4 DEF StartCall
  <2>3. \A x \in Range(todo') : x.era = era
    BY <2>2 DEF Range, Sample
  <2>4. Stored' = Stored
    BY <2>1, EraPrimes DEF Stored
  <2> QED
    BY <1>1, <2>1, <2>3, <2>4, EraPrimes
<1>5. CASE (ControlCall \/ ControlStep) /\ ~DeliverEndFlush
  <2>1. era' = era
    BY <1>5 DEF ControlCall, ControlStep, BeginFlush, EndFlushNoop, EndFlush, DirectReset, Reset,
       DestroyDirect, Destroy, BeginFlushLocked, DeliverBeginFlush, WaitComplete, LeaveFlush,
       EndFlushReturn, Join, fixed
  <2> QED
    BY <1>1, <1>5, <2>1, ControlBrings, EraPrimes
<1>6. CASE DeliverEndFlush
  <2>1. op = "EndFlush" /\ step = "down" /\ UNCHANGED <<m_List, m_ppSamples, sending, pSample, todo>>
    BY <1>6 DEF DeliverEndFlush, queueState, queue, worker, stream
  <2>2. Cleared /\ spc = "idle"
    BY <2>1 DEF EraInv, FlushInv, OwnInv, CallInv
  <2>3. todo = <<>> /\ Stored' = Stored
    BY <2>1, <2>2, EraPrimes DEF OwnInv, PlaceInv, Stored
  <2> QED
    BY <2>1, <2>2, <2>3, Empty, EraPrimes DEF Cleared
<1>7. CASE DownstreamPause \/ UNCHANGED vars
  <2>1. UNCHANGED <<era, m_List, m_ppSamples, sending, pSample, todo>>
    BY <1>7 DEF DownstreamPause, vars, queueState, queue, fixed, worker, callers, stream
  <2> QED
    BY <1>1, <2>1, EraPrimes DEF Stored
<1> QED
  BY <1>2, <1>3, <1>4, <1>5, <1>6, <1>7 DEF Next, ControlStep, Destroyed

(* The worker does not make m_hr good during a flush, and signals when     *)
(* nothing is left.                                                        *)
LEMMA WorkerFlushes ==
  ASSUME WakeInv, OwnInv, EraInv, WorkerStep
  PROVE  FlushInv'
<1>1. UNCHANGED <<mode, spc, op, step, filterFlushing, m_bFlushing, m_bFlushed>> /\ mode.queued
  BY DEF WorkerStep, Terminate, FlushQueue, GetBatch, GetLast, Wait, StartSend, SkipSend, AfterSend,
     NextRound, Deliver, StoreResult, CheckEos, SendEos, SendNewSegment, ClearResult,
     SignalReset, MayGet, fixed, callers, stream, control, queueState, flags, WakeInv, WaitInv,
     OwnInv, CallInv
<1>2. FlushIsNoop' = FlushIsNoop
  BY <1>1 DEF FlushIsNoop
<1>3. Cleared => Cleared'
  BY WorkerTakes, Undated, EraPrimes DEF Cleared
<1>4. m_bFlushing \/ op = "EndFlush" => m_hr' # "S_OK"
  <2>1. m_hr' = "S_OK" /\ m_hr # "S_OK" => ClearResult
    BY DEF WorkerStep, Terminate, FlushQueue, GetBatch, GetLast, Wait, StartSend, SkipSend,
       Deliver, StoreResult, CheckEos, SendEos, SendNewSegment, SignalReset
  <2>2. ClearResult => op = "Reset"
    BY DEF ClearResult, EraInv, ResetInv
  <2>3. op = "Reset" => ~m_bFlushing
    BY DEF OwnInv, CallInv, EraInv, FlushInv
  <2> QED
    BY <2>1, <2>2, <2>3 DEF EraInv, FlushInv
<1>5. spc # "deliver"
  BY <1>1 DEF WakeInv, DirectInv
<1>6. m_bFlushing /\ ~FlushIsNoop /\ m_evFlushComplete' => Cleared'
  <2>1. CASE FlushQueue
    <3>1. m_List' = <<>> /\ m_ppSamples' = <<>> /\ UNCHANGED <<sending, pSample>> /\ wpc = "get"
      BY <2>1 DEF FlushQueue, FreeSamples
    <3>2. sending = <<>> /\ pSample = NoPacket
      BY <3>1 DEF OwnInv, PlaceInv
    <3> QED
      BY <3>1, <3>2, Empty, Undated, EraPrimes
  <2>2. CASE SignalReset
    <3>1. op = "Reset"
      BY <2>2 DEF SignalReset, OwnInv, PlaceInv, EraInv, ResetInv
    <3>2. ~m_bFlushing
      BY <3>1 DEF OwnInv, CallInv, EraInv, FlushInv
    <3> QED
      BY <3>2
  <2>3. ~FlushQueue /\ ~SignalReset => m_evFlushComplete' = m_evFlushComplete
    BY DEF WorkerStep, Terminate, GetBatch, GetLast, Wait, StartSend, SkipSend, Deliver,
       StoreResult, CheckEos, SendEos, SendNewSegment, ClearResult, queueState
  <2>4. m_bFlushing /\ ~FlushIsNoop /\ m_evFlushComplete => Cleared
    BY DEF EraInv, FlushInv
  <2> QED
    BY <1>3, <2>1, <2>2, <2>3, <2>4
<1> QED
  BY <1>1, <1>2, <1>3, <1>4, <1>5, <1>6 DEF EraInv, FlushInv

(* During a flush the streaming thread gets nothing in, but packets that   *)
(* belong to no era.                                                       *)
LEMMA StreamFlushes ==
  ASSUME WakeInv, OwnInv, EraInv, StreamStep
  PROVE  FlushInv'
<1>1. UNCHANGED <<mode, op, step, filterFlushing, m_bFlushing, m_evFlushComplete>>
  BY DEF StreamStep, Discard, QueueReceive, QueueSendAnyway, QueueEos, CheckNewSegment,
     QueueNewSegment, DirectReceive, FillBatch, DirectDeliver, DirectSendAnyway, DirectEos,
     BatchDone, DirectSendEos, DirectNewSegment, fixed, control, queueState, flags
<1>2. op # "EndFlush"
  BY DEF OwnInv, CallInv, StreamStep, Discard, QueueReceive, QueueSendAnyway, QueueEos,
     CheckNewSegment, QueueNewSegment, DirectReceive, FillBatch, DirectDeliver, DirectSendAnyway,
     DirectEos, BatchDone, DirectSendEos, DirectNewSegment
<1>3. m_bFlushing => m_hr # "S_OK"
  BY DEF EraInv, FlushInv
<1>4. m_hr' # m_hr => spc = "deliver" /\ m_hr = "S_OK"
  BY DEF EraInv, FlushInv, StreamStep, Discard, QueueReceive, QueueSendAnyway, QueueEos,
     CheckNewSegment, QueueNewSegment, DirectReceive, FillBatch, DirectDeliver, DirectSendAnyway,
     DirectEos, BatchDone, DirectSendEos, DirectNewSegment
<1>5. spc' = "deliver" => m_hr' = "S_OK"
  <2>1. DirectDeliver => spc' # "deliver"
    BY DEF DirectDeliver
  <2>2. ~DirectDeliver /\ spc' = "deliver" => m_hr = "S_OK" /\ m_hr' = m_hr
    BY DEF EraInv, FlushInv, StreamStep, Discard, QueueReceive, QueueSendAnyway, QueueEos,
       CheckNewSegment, QueueNewSegment, DirectReceive, FillBatch, DirectSendAnyway,
       DirectEos, BatchDone, DirectSendEos, DirectNewSegment, Return
  <2> QED
    BY <2>1, <2>2
<1>6. m_bFlushing /\ mode.queued => m_bFlushed' = m_bFlushed
  BY <1>3 DEF WakeInv, DirectInv, StreamStep, Discard, QueueReceive, QueueSendAnyway, QueueEos,
     CheckNewSegment, QueueNewSegment, DirectReceive, FillBatch, DirectDeliver, DirectSendAnyway,
     DirectEos, BatchDone, DirectSendEos, DirectNewSegment, flags, queueState
<1>7. m_bFlushing /\ ~FlushIsNoop' /\ m_evFlushComplete => Cleared'
  <2> SUFFICES ASSUME m_bFlushing, ~FlushIsNoop', m_evFlushComplete PROVE Cleared'
    OBVIOUS
  <2>1. mode.queued
    BY DEF EraInv, FlushInv
  <2>2. Cleared
    BY <1>1, <1>6, <2>1 DEF FlushIsNoop, EraInv, FlushInv
  <2>3. m_hr # "S_OK"
    BY <1>3
  <2> QED
    BY <2>1, <2>2, <2>3, StreamBrings, EraPrimes DEF Cleared
<1> QED
  BY <1>1, <1>2, <1>3, <1>4, <1>5, <1>7 DEF EraInv, FlushInv

LEMMA ControlFlushes ==
  ASSUME WakeInv, OwnInv, EraInv, ControlCall \/ ControlStep
  PROVE  FlushInv'
<1>1. UNCHANGED <<mode, spc, wpc>>
  BY DEF ControlCall, ControlStep, BeginFlush, EndFlushNoop, EndFlush, DirectReset, Reset,
     DestroyDirect, Destroy, BeginFlushLocked, DeliverBeginFlush, WaitComplete, LeaveFlush,
     DeliverEndFlush, EndFlushReturn, Join, fixed, worker, stream, callers
<1>2. Cleared => Cleared'
  BY ControlBrings, EraPrimes DEF Cleared
<1>3. m_bFlushed' = m_bFlushed => FlushIsNoop' = FlushIsNoop
  BY <1>1 DEF FlushIsNoop
<1>4. CASE BeginFlush
  <2>1. /\ op = "none" /\ ~filterFlushing /\ filterFlushing' /\ op' = "BeginFlush"
        /\ step' = FirstFlushStep /\ UNCHANGED <<m_hr, m_bFlushing, m_bFlushed, m_evFlushComplete>>
    BY <1>4 DEF BeginFlush, queueState, flags
  <2>2. mode.queued => step' # "down"
    BY <2>1 DEF FirstFlushStep
  <2> QED
    BY <1>1, <1>2, <1>3, <2>1, <2>2 DEF EraInv, FlushInv
<1>5. CASE BeginFlushLocked
  <2>1. /\ op = "BeginFlush" /\ step = "lock" /\ ~Locked /\ m_bFlushing' /\ m_bFlushed' = m_bFlushed
        /\ m_hr' # "S_OK" /\ filterFlushing' = filterFlushing
        /\ op' \in {"none", "BeginFlush"}
        /\ IF mode.queued /\ ~FlushIsNoop THEN m_evFlushComplete' = FALSE
           ELSE m_evFlushComplete' = m_evFlushComplete
    BY <1>5 DEF BeginFlushLocked, flags, ClearSignal, ReturnControl
  <2>2. filterFlushing /\ spc # "deliver"
    BY <2>1 DEF OwnInv, CallInv, Locked
  <2>3. ~(~FlushIsNoop /\ m_evFlushComplete')
    BY <2>1 DEF EraInv, FlushInv
  <2>4. m_evFlushComplete' => mode.queued
    BY <2>1 DEF EraInv, FlushInv
  <2> QED
    BY <1>1, <1>3, <2>1, <2>2, <2>3, <2>4 DEF FlushInv
<1>6. CASE DeliverBeginFlush
  <2>1. /\ op = "BeginFlush" /\ step = "down"
        /\ UNCHANGED <<m_hr, m_bFlushing, m_bFlushed, m_evFlushComplete, filterFlushing>>
        /\ IF mode.queued THEN op' = "none" ELSE op' = "BeginFlush" /\ step' = "lock"
    BY <1>6 DEF DeliverBeginFlush, queueState, flags, ReturnControl
  <2> QED
    BY <1>1, <1>2, <1>3, <2>1 DEF EraInv, FlushInv
<1>7. CASE EndFlushNoop \/ EndFlushReturn
  <2>1. /\ m_hr' = "S_OK" /\ ~filterFlushing' /\ op' = "none" /\ ~m_bFlushing'
        /\ m_evFlushComplete' = m_evFlushComplete
    BY <1>7 DEF EndFlushNoop, EndFlushReturn, ControlIdle, ReturnControl, queueState, flags,
       EraInv, FlushInv, OwnInv, CallInv
  <2> QED
    BY <1>1, <2>1 DEF EraInv, FlushInv
<1>8. CASE EndFlush
  <2>1. /\ op = "none" /\ spc = "idle" /\ filterFlushing /\ ~FlushIsNoop /\ op' = "EndFlush"
        /\ step' = IF mode.queued THEN "wait" ELSE "leave"
        /\ UNCHANGED <<m_hr, m_bFlushing, m_bFlushed, m_evFlushComplete, filterFlushing>>
    BY <1>8 DEF EndFlush, ControlIdle, flags
  <2>2. ~mode.queued => Cleared'
    <3> SUFFICES ASSUME ~mode.queued PROVE Cleared'
      OBVIOUS
    <3>1. m_List' = <<>> /\ m_ppSamples' = <<>> /\ UNCHANGED <<sending, pSample>>
      BY <1>8 DEF EndFlush, FreeSamples, worker
    <3>2. wpc = "none"
      BY DEF WakeInv, WaitInv
    <3>3. sending = <<>> /\ pSample = NoPacket
      BY <3>2 DEF OwnInv, PlaceInv
    <3> QED
      BY <3>1, <3>3, Empty, Undated, EraPrimes
  <2> QED
    BY <1>1, <1>2, <1>3, <2>1, <2>2 DEF EraInv, FlushInv
<1>9. CASE WaitComplete
  <2>1. /\ step = "wait" /\ m_evFlushComplete /\ ~m_evFlushComplete'
        /\ IF op = "EndFlush" THEN step' = "leave" /\ op' = op ELSE op' = "none"
        /\ UNCHANGED <<m_hr, m_bFlushing, m_bFlushed, filterFlushing>>
    BY <1>9 DEF WaitComplete, ReturnControl, flags
  <2>2. op \in {"EndFlush", "Reset"}
    BY <2>1 DEF OwnInv, CallInv
  <2>3. op = "EndFlush" => Cleared
    BY <2>1 DEF EraInv, FlushInv
  <2>4. op = "Reset" => ~filterFlushing
    BY DEF OwnInv, CallInv
  <2> QED
    BY <1>1, <1>2, <1>3, <2>1, <2>2, <2>3, <2>4 DEF EraInv, FlushInv
<1>10. CASE LeaveFlush
  <2>1. /\ step = "leave" /\ ~m_bFlushing' /\ step' = "down" /\ op' = op
        /\ UNCHANGED <<m_hr, m_evFlushComplete, filterFlushing>>
    BY <1>10 DEF LeaveFlush
  <2>2. op = "EndFlush"
    BY <2>1 DEF OwnInv, CallInv
  <2> QED
    BY <1>1, <1>2, <2>1, <2>2 DEF EraInv, FlushInv
<1>11. CASE DeliverEndFlush
  <2>1. /\ op = "EndFlush" /\ step = "down" /\ step' = "clear" /\ op' = op
        /\ UNCHANGED <<m_hr, m_bFlushing, m_bFlushed, m_evFlushComplete, filterFlushing>>
    BY <1>11 DEF DeliverEndFlush, queueState, flags
  <2> QED
    BY <1>1, <1>2, <1>3, <2>1 DEF EraInv, FlushInv
<1>12. CASE DirectReset \/ Reset \/ DestroyDirect \/ Destroy \/ Join
  <2>1. /\ ~filterFlushing /\ ~filterFlushing' /\ spc = "idle"
        /\ op' \in {"none", "Reset", "destroyed", "Destroy"}
        /\ UNCHANGED <<m_bFlushing, m_bFlushed, m_evFlushComplete>>
    BY <1>12 DEF DirectReset, Reset, DestroyDirect, Destroy, Join, ControlIdle, callers, control,
       queueState, flags, OwnInv, CallInv
  <2> QED
    BY <1>1, <2>1 DEF EraInv, FlushInv
<1> QED
  BY <1>4, <1>5, <1>6, <1>7, <1>8, <1>9, <1>10, <1>11, <1>12 DEF ControlCall, ControlStep

LEMMA OthersFlush ==
  ASSUME WakeInv, OwnInv, EraInv, StartCall \/ DownstreamPause \/ UNCHANGED vars
  PROVE  FlushInv'
<1>1. /\ UNCHANGED <<mode, op, step, filterFlushing, m_bFlushing, m_bFlushed, m_evFlushComplete, m_hr,
                     m_List, m_ppSamples, sending, pSample>>
      /\ spc' = "deliver" => spc = "deliver"
  BY DEF StartCall, DownstreamPause, vars, queueState, queue, flags, fixed, worker, callers,
     control,
     stream
<1>2. Cleared' = Cleared
  BY <1>1 DEF Cleared, Stored, Range, Dated
<1> QED
  BY <1>1, <1>2 DEF EraInv, FlushInv, FlushIsNoop

(* The packet of Reset is the last in the list, or out of it.              *)
LEMMA WorkerResets ==
  ASSUME WakeInv, OwnInv, EraInv, WorkerStep
  PROVE  ResetInv'
<1>1. UNCHANGED <<mode, op>>
  BY DEF WorkerStep, Terminate, FlushQueue, GetBatch, GetLast, Wait, StartSend, SkipSend,
     Deliver, StoreResult, CheckEos, SendEos, SendNewSegment, ClearResult,
     SignalReset, fixed, callers, control
<1>2. m_List \in Seq(Item)
  BY FourSets
<1>3. CASE Terminate \/ FlushQueue
  <2>1. m_List' = <<>> /\ pSample' = pSample /\ wpc = "get"
    BY <1>3 DEF Terminate, FlushQueue, FreeSamples
  <2>2. pSample' = NoPacket /\ DOMAIN m_List' = {}
    BY <2>1 DEF OwnInv, PlaceInv
  <2> QED
    BY <1>1, <2>2, Undated DEF EraInv, ResetInv
<1>4. CASE GetBatch
  <2> DEFINE i == Min(Ends)
             taken == IF m_List[i].kind = "NEW_SEGMENT" THEN i + 1 ELSE i
             b == SubSeq(m_List, taken + 1, Len(m_List))
  <2>1. /\ pSample' = m_List[i] /\ m_List' = b /\ m_evFlushComplete' = m_evFlushComplete
        /\ wpc = "get" /\ Ends # {}
    BY <1>4 DEF GetBatch, MayGet
  <2>2. i \in 1 .. Len(m_List)
    BY <1>2, <2>1, FourSets, WorkerAtGet, FirstEnd
  <2> HIDE DEF i
  <2>3. taken \in Nat /\ taken >= i /\ taken <= Len(m_List) /\ i \in DOMAIN m_List
    BY <1>2, <2>2 DEF OwnInv, SeqInv
  <2> HIDE DEF taken
  <2>4. \A j \in DOMAIN b : /\ j \in 1 .. Len(b) /\ Len(b) = Len(m_List) - taken
                            /\ j + taken \in DOMAIN m_List /\ b[j] = m_List[j + taken]
    BY <1>2, <2>3, SMTT(30)
  <2> HIDE DEF b
  <2>5. \A j \in DOMAIN m_List' : m_List'[j].kind = "RESET_PACKET" =>
          j = Len(m_List') /\ op = "Reset" /\ ~m_evFlushComplete
    <3> SUFFICES ASSUME NEW j \in DOMAIN m_List', m_List'[j].kind = "RESET_PACKET"
                 PROVE  j = Len(m_List') /\ op = "Reset" /\ ~m_evFlushComplete
      OBVIOUS
    <3>1. /\ j + taken \in DOMAIN m_List /\ m_List[j + taken].kind = "RESET_PACKET"
          /\ Len(m_List') = Len(m_List) - taken /\ j \in 1 .. Len(m_List')
      BY <2>1, <2>4
    <3>2. j + taken = Len(m_List) /\ op = "Reset" /\ ~m_evFlushComplete
      BY <3>1 DEF EraInv, ResetInv
    <3> QED
      BY <1>2, <2>3, <3>1, <3>2
  <2>6. ASSUME m_List[i].kind = "RESET_PACKET"
        PROVE  /\ op = "Reset" /\ ~m_evFlushComplete
               /\ \A j \in DOMAIN m_List' : m_List'[j].kind # "RESET_PACKET"
    <3>1. i = Len(m_List) /\ op = "Reset" /\ ~m_evFlushComplete
      BY <2>3, <2>6 DEF EraInv, ResetInv
    <3>2. DOMAIN m_List' = {}
      <4> SUFFICES ASSUME NEW j \in DOMAIN m_List' PROVE FALSE
        OBVIOUS
      <4>1. j \in 1 .. Len(b) /\ Len(b) = Len(m_List) - taken
        BY <2>1, <2>4
      <4> QED
        BY <1>2, <2>3, <3>1, <4>1
    <3> QED
      BY <3>1, <3>2
  <2> QED
    BY <1>1, <2>1, <2>5, <2>6 DEF EraInv, ResetInv
<1>5. CASE GetLast
  <2>1. m_List' = <<>> /\ pSample' \in {pSample, NoPacket} /\ wpc = "get"
    BY <1>5 DEF GetLast, MayGet
  <2>2. pSample' = NoPacket /\ DOMAIN m_List' = {}
    BY <2>1 DEF OwnInv, PlaceInv
  <2> QED
    BY <1>1, <2>2, Undated DEF EraInv, ResetInv
<1>6. CASE Wait \/ StartSend \/ SkipSend \/ Deliver \/ StoreResult \/ CheckEos \/ SendEos
           \/ SendNewSegment \/ ClearResult
  <2>1. m_List' = m_List /\ pSample' \in {pSample, NoPacket} /\ m_evFlushComplete' = m_evFlushComplete
    BY <1>6 DEF Wait, StartSend, SkipSend, AfterSend, NextRound, Deliver, StoreResult, CheckEos,
       SendEos, SendNewSegment, ClearResult, queueState, queue
  <2> QED
    BY <1>1, <2>1, Undated DEF EraInv, ResetInv
<1>7. CASE SignalReset
  <2>1. m_List' = m_List /\ pSample' = NoPacket /\ wpc = "signal"
    BY <1>7 DEF SignalReset, NextRound, queue
  <2>2. pSample.kind = "RESET_PACKET"
    BY <2>1 DEF OwnInv, PlaceInv
  <2>3. \A i \in DOMAIN m_List : m_List[i].kind # "RESET_PACKET"
    BY <2>2 DEF EraInv, ResetInv
  <2> QED
    BY <1>1, <2>1, <2>3, Undated DEF EraInv, ResetInv
<1> QED
  BY <1>3, <1>4, <1>5, <1>6, <1>7 DEF WorkerStep

LEMMA StreamResets ==
  ASSUME WakeInv, OwnInv, EraInv, StreamStep
  PROVE  ResetInv'
<1>1. UNCHANGED <<mode, op, pSample, m_evFlushComplete>>
  BY DEF StreamStep, Discard, QueueReceive, QueueSendAnyway, QueueEos, CheckNewSegment,
     QueueNewSegment, DirectReceive, FillBatch, DirectDeliver, DirectSendAnyway, DirectEos,
     BatchDone, DirectSendEos, DirectNewSegment, fixed, control, queueState, worker
<1>2. spc # "idle"
  BY DEF StreamStep, Discard, QueueReceive, QueueSendAnyway, QueueEos, CheckNewSegment,
     QueueNewSegment, DirectReceive, FillBatch, DirectDeliver, DirectSendAnyway, DirectEos,
     BatchDone, DirectSendEos, DirectNewSegment
<1>3. op # "Reset"
  BY <1>2 DEF OwnInv, CallInv
<1>4. pSample.kind # "RESET_PACKET" /\ \A i \in DOMAIN m_List : m_List[i].kind # "RESET_PACKET"
  BY <1>3 DEF EraInv, ResetInv
<1>5. m_List \in Seq(Item) /\ todo \in Seq(Item)
  BY FourSets
<1>6. ASSUME NEW s \in Seq(Item), m_List' = m_List \o s,
             \A i \in DOMAIN s : s[i].kind # "RESET_PACKET"
      PROVE  \A i \in DOMAIN m_List' : m_List'[i].kind # "RESET_PACKET"
  <2> SUFFICES ASSUME NEW i \in DOMAIN m_List' PROVE m_List'[i].kind # "RESET_PACKET"
    OBVIOUS
  <2>1. CASE i \in DOMAIN m_List
    BY <1>4, <1>5, <1>6, <2>1
  <2>2. CASE i \notin DOMAIN m_List
    <3>1. i - Len(m_List) \in DOMAIN s /\ m_List'[i] = s[i - Len(m_List)]
      BY <1>5, <1>6, <2>2
    <3> QED
      BY <1>6, <3>1
  <2> QED
    BY <2>1, <2>2
<1>7. CASE m_List' = m_List
  BY <1>1, <1>3, <1>4, <1>7 DEF EraInv, ResetInv
<1>8. CASE QueueReceive
  <2>1. m_List' = m_List \o todo
    BY <1>8 DEF QueueReceive, QueueSamples
  <2>2. \A i \in DOMAIN todo : todo[i].kind # "RESET_PACKET"
    BY DEF OwnInv, SeqInv, AllSamples, IsSample
  <2> QED
    BY <1>1, <1>3, <1>4, <1>5, <1>6, <2>1, <2>2 DEF EraInv, ResetInv
<1>9. CASE QueueSendAnyway \/ QueueEos
  <2>1. ASSUME NEW k \in {"SEND_PACKET", "EOS_PACKET"}, m_List' = m_List \o <<Packet(k)>>
        PROVE  ResetInv'
    <3>1. <<Packet(k)>> \in Seq(Item) /\ DOMAIN <<Packet(k)>> = {1} /\ Packet(k).kind = k
      BY <2>1, PacketsAreItems DEF PacketKinds
    <3>2. \A i \in DOMAIN <<Packet(k)>> : <<Packet(k)>>[i].kind # "RESET_PACKET"
      BY <2>1, <3>1
    <3> QED
      BY <1>1, <1>3, <1>4, <1>6, <2>1, <3>1, <3>2 DEF EraInv, ResetInv
  <2> QED
    BY <1>7, <1>9, <2>1 DEF QueueSendAnyway, QueueEos, QueueSamples
<1>10. CASE QueueNewSegment
  <2> DEFINE s == <<Packet("NEW_SEGMENT"), Packet("packet")>>
  <2>1. m_List' = m_List \o s
    BY <1>10 DEF QueueNewSegment, QueueSamples
  <2>2. s \in Seq(Item) /\ DOMAIN s = {1, 2}
    BY PacketsAreItems DEF PacketKinds
  <2>3. s[1].kind = "NEW_SEGMENT" /\ s[2].kind = "packet"
    BY PacketsAreItems DEF PacketKinds
  <2> HIDE DEF s
  <2>4. \A i \in DOMAIN s : s[i].kind # "RESET_PACKET"
    BY <2>2, <2>3
  <2> QED
    BY <1>1, <1>3, <1>4, <1>6, <2>1, <2>2, <2>4 DEF EraInv, ResetInv
<1> QED
  BY <1>7, <1>8, <1>9, <1>10 DEF StreamStep, Discard, CheckNewSegment, DirectReceive, FillBatch,
     DirectDeliver, DirectSendAnyway, DirectEos, BatchDone, DirectSendEos, DirectNewSegment,
     queueState, queue

LEMMA ControlResets ==
  ASSUME WakeInv, OwnInv, EraInv, ControlCall \/ ControlStep
  PROVE  ResetInv'
<1>1. UNCHANGED <<mode, pSample>>
  BY DEF ControlCall, ControlStep, BeginFlush, EndFlushNoop, EndFlush, DirectReset, Reset,
     DestroyDirect, Destroy, BeginFlushLocked, DeliverBeginFlush, WaitComplete, LeaveFlush,
     DeliverEndFlush, EndFlushReturn, Join, fixed, worker
<1>2. m_List \in Seq(Item)
  BY FourSets
<1>3. CASE Reset
  <2>1. /\ op = "none" /\ ~filterFlushing /\ mode.queued /\ mode.resets /\ op' = "Reset"
        /\ m_List' = m_List \o <<Packet("RESET_PACKET")>>
        /\ m_evFlushComplete' = m_evFlushComplete
    BY <1>3 DEF Reset, ControlIdle, QueueSamples
  <2>2. ~m_evFlushComplete
    BY <2>1 DEF EraInv, EventInv, FlushInv
  <2>3. pSample.kind # "RESET_PACKET" /\ \A i \in DOMAIN m_List : m_List[i].kind # "RESET_PACKET"
    BY <2>1 DEF EraInv, ResetInv
  <2>4. \A i \in DOMAIN m_List' : m_List'[i].kind = "RESET_PACKET" => i = Len(m_List')
    <3> SUFFICES ASSUME NEW i \in DOMAIN m_List', i # Len(m_List')
                 PROVE  m_List'[i].kind # "RESET_PACKET"
      OBVIOUS
    <3>1. i \in DOMAIN m_List /\ m_List'[i] = m_List[i]
      BY <1>2, <2>1
    <3> QED
      BY <2>3, <3>1
  <2> QED
    BY <1>1, <2>1, <2>2, <2>3, <2>4 DEF ResetInv
<1>4. CASE WaitComplete
  <2>1. /\ m_List' = m_List /\ m_evFlushComplete /\ op' \in {op, "none"}
        /\ (op # "EndFlush" => op' = "none")
    BY <1>4 DEF WaitComplete, queue, ReturnControl
  <2>2. pSample.kind # "RESET_PACKET" /\ \A i \in DOMAIN m_List : m_List[i].kind # "RESET_PACKET"
    BY <2>1 DEF EraInv, ResetInv
  <2> QED
    BY <1>1, <2>1, <2>2 DEF ResetInv
<1>5. CASE ~Reset /\ ~WaitComplete
  <2>1. op # "Reset" /\ op' # "Reset"
    BY <1>5 DEF ControlCall, ControlStep, BeginFlush, EndFlushNoop, EndFlush, DirectReset,
       DestroyDirect, Destroy, BeginFlushLocked, DeliverBeginFlush, LeaveFlush, DeliverEndFlush,
       EndFlushReturn, Join, ControlIdle, ReturnControl, callers, control, OwnInv, CallInv
  <2>2. m_List' \in {m_List, <<>>}
    BY <1>5 DEF ControlCall, ControlStep, BeginFlush, EndFlushNoop, EndFlush, DirectReset,
       DestroyDirect, Destroy, BeginFlushLocked, DeliverBeginFlush, LeaveFlush, DeliverEndFlush,
       EndFlushReturn, Join, queueState, queue, FreeSamples
  <2>3. pSample.kind # "RESET_PACKET" /\ \A i \in DOMAIN m_List : m_List[i].kind # "RESET_PACKET"
    BY <2>1 DEF EraInv, ResetInv
  <2>4. \A i \in DOMAIN m_List' : m_List'[i].kind # "RESET_PACKET"
    <3>1. CASE m_List' = m_List
      BY <2>3, <3>1
    <3>2. CASE m_List' = <<>>
      BY <3>2
    <3> QED
      BY <2>2, <3>1, <3>2
  <2> QED
    BY <1>1, <2>1, <2>3, <2>4 DEF ResetInv
<1> QED
  BY <1>3, <1>4, <1>5

LEMMA OthersReset ==
  ASSUME EraInv, StartCall \/ DownstreamPause \/ UNCHANGED vars
  PROVE  ResetInv'
<1>1. UNCHANGED <<mode, op, m_evFlushComplete, m_List, pSample>>
  BY DEF StartCall, DownstreamPause, vars, queueState, queue, fixed, worker, callers, control
<1> QED
  BY <1>1 DEF EraInv, ResetInv

(* With an owner that resets and keeps the calls out, the worker stays     *)
(* where it signalled until the flush is over.                             *)
LEMMA EventKept ==
  ASSUME UsedWell(Modes), WakeInv, OwnInv, EraInv, [Next]_vars
  PROVE  EventInv'
<1> SUFFICES ASSUME mode'.queued, mode'.resets
             PROVE  /\ m_evFlushComplete' => op' = "Reset" \/ (m_bFlushing' /\ AtRest')
                    /\ op' = "EndFlush" /\ step' = "leave" => ~m_evFlushComplete' /\ AtRest'
                    /\ filterFlushing' => call' \in mode'.late \union {"none"}
  BY DEF EventInv
<1>1. mode' = mode
  BY DEF Next, Destroyed, WorkerStep, Terminate, FlushQueue, GetBatch, GetLast, Wait, StartSend,
     SkipSend, Deliver, StoreResult, CheckEos, SendEos, SendNewSegment, ClearResult, SignalReset,
     StreamStep, Discard, QueueReceive, QueueSendAnyway, QueueEos, CheckNewSegment,
     QueueNewSegment, DirectReceive, FillBatch, DirectDeliver, DirectSendAnyway, DirectEos,
     BatchDone, DirectSendEos, DirectNewSegment, StartCall, DownstreamPause, ControlCall,
     ControlStep, BeginFlush, EndFlushNoop, EndFlush, DirectReset, Reset, DestroyDirect, Destroy,
     BeginFlushLocked, DeliverBeginFlush, WaitComplete, LeaveFlush, DeliverEndFlush,
     EndFlushReturn, Join, fixed, vars
<1>2. /\ mode.queued /\ mode.resets /\ ~mode.opt
      /\ "SendAnyway" \notin mode.late /\ "NewSegment" \notin mode.late
  BY <1>1 DEF UsedWell, OwnInv, CallInv
<1>3. /\ m_evFlushComplete => op = "Reset" \/ (m_bFlushing /\ AtRest)
      /\ op = "EndFlush" /\ step = "leave" => ~m_evFlushComplete /\ AtRest
      /\ filterFlushing => call \in mode.late \union {"none"}
  BY <1>2 DEF EraInv, EventInv
<1>4. ~FlushIsNoop
  BY <1>2 DEF FlushIsNoop
<1>5. CASE WorkerStep
  <2>1. UNCHANGED <<op, step, filterFlushing, call, m_bFlushing>>
    BY <1>5 DEF WorkerStep, Terminate, FlushQueue, GetBatch, GetLast, Wait, StartSend, SkipSend,
       Deliver, StoreResult, CheckEos, SendEos, SendNewSegment, ClearResult, SignalReset,
       callers, control, stream, queueState, flags
  <2>2. ~AtRest
    BY <1>5 DEF AtRest, WorkerStep, Terminate, FlushQueue, GetBatch, GetLast, Wait, StartSend,
       SkipSend, Deliver, StoreResult, CheckEos, SendEos, SendNewSegment, ClearResult,
       SignalReset, MayGet
  <2>3. m_evFlushComplete' => op = "Reset" \/ (m_bFlushing /\ AtRest')
    <3>1. CASE FlushQueue
      <4>1. m_bFlushing /\ wpc' = "wait" /\ wpc = "get" /\ m_hSem' = m_hSem
        BY <3>1 DEF FlushQueue
      <4>2. m_hSem = 0
        BY <4>1 DEF WakeInv, WaitInv
      <4> QED
        BY <4>1, <4>2 DEF AtRest
    <3>2. CASE SignalReset
      BY <3>2 DEF SignalReset, OwnInv, PlaceInv, EraInv, ResetInv
    <3>3. CASE ~FlushQueue /\ ~SignalReset
      <4>1. m_evFlushComplete' = m_evFlushComplete
        BY <1>5, <3>3 DEF WorkerStep, Terminate, GetBatch, GetLast, Wait, StartSend, SkipSend,
           Deliver, StoreResult, CheckEos, SendEos, SendNewSegment, ClearResult, queueState
      <4> QED
        BY <1>3, <2>2, <4>1
    <3> QED
      BY <3>1, <3>2, <3>3
  <2> QED
    BY <1>1, <1>3, <2>1, <2>2, <2>3
<1>6. CASE StreamStep
  <2>1. UNCHANGED <<op, step, filterFlushing, m_bFlushing, m_evFlushComplete, wpc>>
    BY <1>6 DEF StreamStep, Discard, QueueReceive, QueueSendAnyway, QueueEos, CheckNewSegment,
       QueueNewSegment, DirectReceive, FillBatch, DirectDeliver, DirectSendAnyway, DirectEos,
       BatchDone, DirectSendEos, DirectNewSegment, control, queueState, flags, worker
  <2>2. call' \in {call, "none"} /\ spc # "idle"
    BY <1>6 DEF StreamStep, Discard, QueueReceive, QueueSendAnyway, QueueEos, CheckNewSegment,
       QueueNewSegment, DirectReceive, FillBatch, DirectDeliver, DirectSendAnyway, DirectEos,
       BatchDone, DirectSendEos, DirectNewSegment, Return
  <2>3. op \notin {"Reset", "EndFlush"}
    BY <2>2 DEF OwnInv, CallInv
  <2>4. m_bFlushing => m_hSem' = m_hSem
    <3> SUFFICES ASSUME m_bFlushing PROVE m_hSem' = m_hSem
      OBVIOUS
    <3>1. m_hr # "S_OK" /\ call \in mode.late \union {"none"}
      BY <1>3 DEF EraInv, FlushInv
    <3>2. call \notin {"SendAnyway", "NewSegment"}
      BY <1>2, <3>1
    <3>3. ~QueueReceive /\ ~QueueSendAnyway /\ ~QueueNewSegment
      BY <3>1, <3>2 DEF QueueReceive, QueueSendAnyway, QueueNewSegment, OwnInv, CallInv
    <3> QED
      BY <1>6, <3>1, <3>3 DEF StreamStep, Discard, QueueEos, CheckNewSegment, DirectReceive,
         FillBatch, DirectDeliver, DirectSendAnyway, DirectEos, BatchDone, DirectSendEos,
         DirectNewSegment, queueState, wait
  <2> QED
    BY <1>1, <1>3, <2>1, <2>2, <2>3, <2>4 DEF AtRest
<1>7. CASE StartCall \/ DownstreamPause \/ UNCHANGED vars
  <2>1. UNCHANGED <<op, step, filterFlushing, m_bFlushing, m_evFlushComplete, wpc, m_hSem>>
    BY <1>7 DEF StartCall, DownstreamPause, vars, queueState, wait, flags, worker, callers, control
  <2>2. filterFlushing => call' = call
    BY <1>7 DEF StartCall, DownstreamPause, vars, callers, stream
  <2> QED
    BY <1>1, <1>3, <2>1, <2>2 DEF AtRest
<1>8. CASE ControlCall \/ ControlStep
  <2>1. UNCHANGED <<wpc, call, spc>>
    BY <1>8 DEF ControlCall, ControlStep, BeginFlush, EndFlushNoop, EndFlush, DirectReset, Reset,
       DestroyDirect, Destroy, BeginFlushLocked, DeliverBeginFlush, WaitComplete, LeaveFlush,
       DeliverEndFlush, EndFlushReturn, Join, callers, stream, worker
  <2>2. filterFlushing' => call' \in mode'.late \union {"none"}
    <3>1. filterFlushing' /\ ~filterFlushing => call \in mode.late \union {"none"}
      BY <1>8 DEF ControlCall, ControlStep, BeginFlush, EndFlushNoop, EndFlush, DirectReset, Reset,
         DestroyDirect, Destroy, BeginFlushLocked, DeliverBeginFlush, WaitComplete, LeaveFlush,
         DeliverEndFlush, EndFlushReturn, Join, callers, control
    <3> QED
      BY <1>1, <1>3, <2>1, <3>1
  <2>3. CASE Reset
    <3>1. op' = "Reset"
      BY <2>3 DEF Reset
    <3> QED
      BY <2>2, <3>1
  <2>4. CASE Destroy
    <3>1. ~filterFlushing /\ op = "none" /\ op' = "Destroy" /\ m_evFlushComplete' = m_evFlushComplete
      BY <2>4 DEF Destroy, ControlIdle
    <3>2. ~m_evFlushComplete
      BY <1>3, <3>1 DEF EraInv, FlushInv
    <3> QED
      BY <2>2, <3>1, <3>2
  <2>5. CASE BeginFlushLocked
    <3>1. ~m_evFlushComplete' /\ op = "BeginFlush" /\ op' = op
      BY <1>2, <1>4, <2>5 DEF BeginFlushLocked, ClearSignal
    <3> QED
      BY <2>2, <3>1
  <2>6. CASE WaitComplete
    <3>1. /\ m_evFlushComplete /\ ~m_evFlushComplete' /\ m_hSem' = m_hSem
          /\ op' = "EndFlush" => op = "EndFlush"
      BY <2>6 DEF WaitComplete, wait, ReturnControl
    <3> QED
      BY <1>3, <2>1, <2>2, <3>1 DEF AtRest
  <2>7. CASE LeaveFlush
    <3>1. op = "EndFlush" /\ step = "leave" /\ step' = "down" /\ m_evFlushComplete' = m_evFlushComplete
      BY <2>7 DEF LeaveFlush, OwnInv, CallInv
    <3> QED
      BY <1>3, <2>2, <3>1
  <2>8. CASE EndFlush
    <3>1. /\ op = "none" /\ op' = "EndFlush" /\ step' = "wait"
          /\ UNCHANGED <<m_evFlushComplete, m_bFlushing, m_hSem>>
      BY <1>2, <2>8 DEF EndFlush, ControlIdle, wait, flags
    <3> QED
      BY <1>3, <2>1, <2>2, <3>1 DEF AtRest
  <2>9. CASE BeginFlush \/ DeliverBeginFlush \/ DeliverEndFlush \/ EndFlushReturn \/ Join
    <3>1. /\ UNCHANGED <<m_evFlushComplete, m_bFlushing, m_hSem>> /\ op # "Reset"
          /\ ~(op' = "EndFlush" /\ step' = "leave")
      BY <2>9 DEF BeginFlush, DeliverBeginFlush, DeliverEndFlush, EndFlushReturn, Join,
         ReturnControl, queueState, wait, flags, OwnInv, CallInv
    <3> QED
      BY <1>3, <2>1, <2>2, <3>1 DEF AtRest
  <2>10. ~EndFlushNoop /\ ~DirectReset /\ ~DestroyDirect
    BY <1>2, <1>4 DEF EndFlushNoop, DirectReset, DestroyDirect
  <2> QED
    BY <1>8, <2>3, <2>4, <2>5, <2>6, <2>7, <2>8, <2>9, <2>10 DEF ControlCall, ControlStep
<1> QED
  BY <1>5, <1>6, <1>7, <1>8 DEF Next, Destroyed

LEMMA EraKept ==
  ASSUME UsedWell(Modes), WakeInv, OwnInv, EraInv, [Next]_vars
  PROVE  EraInv'
<1>1. FlushInv'
  BY WorkerFlushes, StreamFlushes, ControlFlushes, OthersFlush DEF Next, Destroyed
<1>2. ResetInv'
  BY WorkerResets, StreamResets, ControlResets, OthersReset DEF Next, Destroyed
<1> QED
  BY <1>1, <1>2, FreshKept, EventKept DEF EraInv

LEMMA NothingStale == OwnInv /\ EraInv => FlushLeavesNothing
<1> SUFFICES ASSUME OwnInv, EraInv PROVE FlushLeavesNothing
  OBVIOUS
<1>1. \A i \in DOMAIN sending : sending[i] \in Stored /\ Dated(sending[i])
  BY DEF Stored, Range, Dated, OwnInv, SeqInv, AllSamples, IsSample
<1>2. \A i \in DOMAIN m_ppSamples : m_ppSamples[i] \in Stored /\ Dated(m_ppSamples[i])
  BY DEF Stored, Range, Dated, OwnInv, SeqInv, AllSamples, IsSample
<1>3. wpc = "eos" => pSample \in Stored /\ Dated(pSample)
  BY DEF Stored, Dated, OwnInv, PlaceInv
<1> QED
  BY <1>1, <1>2, <1>3 DEF FlushLeavesNothing, EraInv, FreshInv

(* And if an owner that calls Reset keeps NewSegment and SendAnyway out of *)
(* its flushes and asks for no flushing optimization, nothing handed over  *)
(* before a flush gets downstream after it either.                         *)
THEOREM QueueIsSafe == ASSUME UsedWell(Modes) PROVE Spec => []QueueSafety
<1>1. Init => WakeInv /\ OwnInv /\ EraInv
  BY InitHolds, OwnInit, EraInit
<1>2. WakeInv /\ OwnInv /\ EraInv /\ [Next]_vars => WakeInv' /\ OwnInv' /\ EraInv'
  BY WakeKept, OwnKept, EraKept
<1>3. WakeInv /\ OwnInv /\ EraInv => QueueSafety
  BY OwnIsInLine, OwnIsTyped, NothingStale DEF QueueSafety, WakeInv
<1> QED
  BY <1>1, <1>2, <1>3, PTL DEF Spec
=============================================================================
