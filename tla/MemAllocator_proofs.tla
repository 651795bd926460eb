------------------------ MODULE MemAllocator_proofs ------------------------
(***************************************************************************)
(* Proofs about MemAllocator, for every number of threads and buffers, and *)
(* below them about the filter that most samples go through,               *)
(* TransformFilter, for any number of output samples, any results of       *)
(* Transform and any faults: every safety property that the code keeps.    *)
(***************************************************************************)
EXTENDS MemAllocator, TransformFilter, FiniteSetTheorems, TLAPS

(* The steps of one thread, named once for the case splits below.          *)
Step(t) == ClientCall(t) \/ InCall(t) \/ Wake(t)

-----------------------------------------------------------------------------
(* Types: the state of the pool, the counts, and the calls in progress are *)
(* kept by different arguments, one lemma each.                            *)

LEMMA TypeInit == Init => TypeOK
BY BoundsAreNat DEF Init, TypeOK, PoolTypeOK, CountTypeOK, CallTypeOK, Samples

LEMMA AllocType ==
  ASSUME PoolTypeOK, NEW hr, Alloc(hr)
  PROVE  /\ m_lAllocated' \in 0..MaxBuffers /\ m_pBuffer' \in 0..MaxBuffers
         /\ m_bChanged' \in 0..1 /\ m_lFree' \subseteq Samples
<1> USE BoundsAreNat DEF PoolTypeOK, Samples
<1>1. CASE UNCHANGED <<m_lAllocated, m_lFree, m_pBuffer, m_bChanged>>
  BY <1>1
<1>2. CASE /\ m_pBuffer' \in {0, m_lCount}
           /\ m_lAllocated' \in SamplesCreated(m_pBuffer')
           /\ m_lFree' = 1..m_lAllocated'
           /\ ClearChanged(hr)
  <2>1. m_pBuffer' \in 0..MaxBuffers
    BY <1>2
  <2>2. m_lAllocated' \in 0..MaxBuffers
    BY <1>2, <2>1 DEF SamplesCreated
  <2>3. m_bChanged' \in 0..1
    BY <1>2 DEF ClearChanged
  <2> QED
    BY <1>2, <2>1, <2>2, <2>3
<1> QED
  BY <1>1, <1>2 DEF Alloc

LEMMA ReleaseAllocatorType ==
  ASSUME PoolTypeOK, CountTypeOK, ReleaseAllocator
  PROVE  /\ m_lAllocated' \in 0..MaxBuffers /\ m_pBuffer' \in 0..MaxBuffers
         /\ m_lFree' \subseteq Samples /\ m_cRef' \in Int
<1> USE BoundsAreNat DEF PoolTypeOK, CountTypeOK, ReleaseAllocator, Samples
<1>1. CASE m_cRef = 1
  <2>1. m_lFree' = {} /\ m_lAllocated' = 0 /\ m_pBuffer' = 0 /\ m_cRef' = 0
    BY <1>1
  <2> QED
    BY <2>1
<1>2. CASE m_cRef # 1
  <2>1. /\ m_lFree' = m_lFree /\ m_lAllocated' = m_lAllocated
        /\ m_pBuffer' = m_pBuffer /\ m_cRef' = m_cRef - 1
    BY <1>2
  <2> QED
    BY <2>1
<1> QED
  BY <1>1, <1>2

LEMMA PoolType ==
  ASSUME TypeOK, NEW t \in Threads, Step(t)
  PROVE  PoolTypeOK'
<1> USE BoundsAreNat DEF PoolTypeOK, Samples
<1>0. PoolTypeOK /\ CountTypeOK
  BY DEF TypeOK
<1>1. CASE UNCHANGED poolState
  BY <1>0, <1>1 DEF poolState
<1>2. CASE GetBuffer(t) \/ GetBufferAgain(t)
  BY <1>0, <1>2 DEF GetBuffer, GetBufferAgain, TryGet, Refuse, TakeSample, SetWaiting,
                    getBufferFrame
<1>3. CASE SetProperties(t)
  BY <1>0, <1>3 DEF SetProperties
<1>4. CASE Commit(t)
  <2>1. CASE CommitCancelsDecommit
    BY <1>0, <1>4, <2>1 DEF Commit, CommitCancelsDecommit
  <2>2. ASSUME NEW hr \in {"OK", "FAILED"}, CommitAllocates(hr) PROVE PoolTypeOK'
    <3>1. m_bCommitted' \in 0..1
      BY <2>2 DEF CommitAllocates
    <3> QED
      BY <1>0, <1>4, <2>2, <3>1, AllocType DEF Commit, CommitAllocates
  <2> QED
    BY <1>4, <2>1, <2>2 DEF Commit
<1>5. CASE Decommit(t) \/ BreakConnect(t)
  <2>1. m_bCommitted' \in 0..1 /\ m_bDecommitInProgress' \in 0..1
    BY <1>0, <1>5 DEF Decommit, BreakConnect, DecommitLocked
  <2> QED
    BY <1>0, <1>5, <2>1 DEF Decommit, BreakConnect, decommitFrame
<1>6. CASE ReleaseBuffer(t)
  <2>1. m_bDecommitInProgress' \in 0..1
    BY <1>0, <1>6 DEF ReleaseBuffer
  <2>2. cur[t] \in Samples
    BY <1>6 DEF TypeOK, CallTypeOK, ReleaseBuffer
  <2> QED
    BY <1>0, <1>6, <2>1, <2>2 DEF ReleaseBuffer
<1>7. CASE ReleaseSelf(t) \/ DropAllocator(t)
  BY <1>0, <1>7, ReleaseAllocatorType DEF ReleaseSelf, DropAllocator
<1> QED
  BY <1>1, <1>2, <1>3, <1>4, <1>5, <1>6, <1>7
     DEF Step, ClientCall, InCall, ReleaseSample, ShareAllocator, AddRefSample,
         GetBufferReturn, ReleaseLast, ReleaseDecrement, ReadNotify, Wake
LEMMA CountType ==
  ASSUME TypeOK, NEW t \in Threads, Step(t)
  PROVE  CountTypeOK'
<1> USE DEF CountTypeOK
<1>0. PoolTypeOK /\ CountTypeOK
  BY DEF TypeOK
<1>1. CASE UNCHANGED <<waitState, lifeState, bRelease>>
  BY <1>0, <1>1 DEF waitState, lifeState
<1>2. CASE GetBuffer(t) \/ GetBufferAgain(t)
  BY <1>0, <1>2 DEF GetBuffer, GetBufferAgain, TryGet, Refuse, TakeSample, SetWaiting,
                    getBufferFrame, lifeState
<1>3. CASE Wake(t)
  BY <1>0, <1>3 DEF Wake, lifeState
<1>4. CASE Commit(t)
  BY <1>0, <1>4 DEF Commit, CommitCancelsDecommit, CommitAllocates, waitState
<1>5. CASE Decommit(t) \/ BreakConnect(t)
  <2>1. bRelease' \subseteq Threads
    BY <1>0, <1>5 DEF Decommit, BreakConnect, DecommitLocked
  <2>2. m_hSem' \in Nat /\ m_lWaiting' \in Nat
    BY <1>0, <1>5 DEF Decommit, BreakConnect, DecommitLocked, NotifySample, waitState
  <2> QED
    BY <1>0, <1>5, <2>1, <2>2 DEF Decommit, BreakConnect, decommitFrame, lifeState
<1>6. CASE ReleaseBuffer(t)
  <2>1. bRelease' \subseteq Threads
    BY <1>0, <1>6 DEF ReleaseBuffer
  <2> QED
    BY <1>0, <1>6, <2>1 DEF ReleaseBuffer, NotifySample, lifeState
<1>7. CASE ReleaseSelf(t) \/ DropAllocator(t)
  BY <1>0, <1>7, ReleaseAllocatorType DEF ReleaseSelf, DropAllocator, waitState
<1>8. ASSUME NEW u \in Threads, ShareAllocator(t, u) PROVE CountTypeOK'
  BY <1>0, <1>8 DEF ShareAllocator, waitState
<1> QED
  BY <1>1, <1>2, <1>3, <1>4, <1>5, <1>6, <1>7, <1>8
     DEF Step, ClientCall, InCall, ReleaseSample, AddRefSample, SetProperties,
         GetBufferReturn, ReleaseLast, ReleaseDecrement, ReadNotify

LEMMA CallType ==
  ASSUME TypeOK, NEW t \in Threads, Step(t)
  PROVE  CallTypeOK'
<1> USE BoundsAreNat DEF CallTypeOK, GoTo
<1>0. PoolTypeOK /\ CallTypeOK
  BY DEF TypeOK
<1>1. CASE UNCHANGED <<sampleRef, pc, cur, held>>
  BY <1>0, <1>1
<1>2. CASE GetBuffer(t) \/ GetBufferAgain(t)
  <2>1. PICK dwFlags \in {"NOWAIT", "WAIT"} : TryGet(t, dwFlags)
    BY <1>2 DEF GetBuffer, GetBufferAgain
  <2>2. UNCHANGED <<sampleRef, held>>
    BY <1>2 DEF GetBuffer, GetBufferAgain, getBufferFrame
  <2>3. CASE Refuse(t)
    BY <1>0, <2>2, <2>3 DEF Refuse
  <2>4. CASE TakeSample(t)
    <3>1. PICK s \in m_lFree : cur' = [cur EXCEPT ![t] = s]
      BY <2>4 DEF TakeSample
    <3>2. s \in 1..MaxBuffers
      BY <1>0 DEF PoolTypeOK, Samples
    <3> QED
      BY <1>0, <2>2, <2>4, <3>1, <3>2 DEF TakeSample
  <2>5. CASE SetWaiting(t, dwFlags)
    BY <1>0, <2>2, <2>5 DEF SetWaiting
  <2> QED
    BY <2>1, <2>3, <2>4, <2>5 DEF TryGet
<1>3. CASE Wake(t)
  BY <1>0, <1>3 DEF Wake
<1>4. CASE Decommit(t) \/ BreakConnect(t)
  BY <1>0, <1>4 DEF Decommit, BreakConnect, decommitFrame
<1>5. ASSUME NEW s \in Samples, ReleaseSample(t, s) PROVE CallTypeOK'
  BY <1>0, <1>5 DEF ReleaseSample, Samples
<1>6. ASSUME NEW u \in Threads, NEW s \in Samples, AddRefSample(t, u, s)
      PROVE CallTypeOK'
  BY <1>0, <1>6 DEF AddRefSample
<1>7. CASE GetBufferReturn(t)
  BY <1>0, <1>7 DEF GetBufferReturn, Samples
<1>8. CASE ReleaseLast(t)
  BY <1>0, <1>8 DEF ReleaseLast, Samples
<1>9. CASE ReleaseDecrement(t)
  BY <1>0, <1>9 DEF ReleaseDecrement, Samples
<1>10. CASE ReleaseBuffer(t)
  BY <1>0, <1>10 DEF ReleaseBuffer
<1>11. CASE ReadNotify(t)
  BY <1>0, <1>11 DEF ReadNotify
<1>12. CASE ReleaseSelf(t) \/ DropAllocator(t)
  BY <1>0, <1>12 DEF ReleaseSelf, DropAllocator
<1> QED
  BY <1>1, <1>2, <1>3, <1>4, <1>5, <1>6, <1>7, <1>8, <1>9, <1>10, <1>11, <1>12
     DEF Step, ClientCall, InCall, Commit, ShareAllocator, SetProperties

(* TypeOK is inductive.                                                    *)
LEMMA TypeStep == TypeOK /\ [Next]_vars => TypeOK'
<1> SUFFICES ASSUME TypeOK, [Next]_vars PROVE TypeOK'
  OBVIOUS
<1>1. CASE UNCHANGED vars
  BY <1>1 DEF TypeOK, PoolTypeOK, CountTypeOK, CallTypeOK, vars, poolState, waitState,
              lifeState
<1>2. CASE Terminated
  BY <1>1, <1>2 DEF Terminated
<1>3. ASSUME NEW t \in Threads, Step(t) PROVE TypeOK'
  BY <1>3, PoolType, CountType, CallType DEF TypeOK
<1> QED
  BY <1>1, <1>2, <1>3 DEF Next, Step

(* The variables of the allocator keep their types, and every call that    *)
(* works on a sample has one (the local pSample of GetBuffer and Release). *)
THEOREM TypeCorrect == Spec => []TypeOK
BY TypeInit, TypeStep, PTL DEF Spec

-----------------------------------------------------------------------------
(* No lost wakeup.  The inductive invariant is the argument of the header  *)
(* of CBaseAllocator: waiters are recorded only while nothing is free, and *)
(* recorded waiters plus semaphore counts cover all threads that wait.     *)
WaitInv == WaitersAccounted /\ RecordedOnlyWhenEmpty

LEMMA WaitingFinite == IsFiniteSet(Waiting) /\ Cardinality(Waiting) \in Nat
<1>1. IsFiniteSet(Waiting)
  BY ThreadsFinite, FS_Subset DEF ThreadsFinite, Waiting
<1> QED
  BY <1>1, FS_CardinalityType

(* Moving one thread into, out of, or between the other places.            *)
LEMMA WaitingEnter ==
  ASSUME CallTypeOK, NEW t \in Threads, pc[t] # "waiting", GoTo(t, "waiting")
  PROVE  Cardinality(Waiting') = Cardinality(Waiting) + 1
<1>1. Waiting' = Waiting \union {t} /\ t \notin Waiting
  BY DEF CallTypeOK, GoTo, Waiting
<1> QED
  BY <1>1, WaitingFinite, FS_AddElement

LEMMA WaitingLeave ==
  ASSUME CallTypeOK, NEW t \in Threads, pc[t] = "waiting", GoTo(t, "retry")
  PROVE  Cardinality(Waiting') = Cardinality(Waiting) - 1
<1>1. Waiting' = Waiting \ {t} /\ t \in Waiting
  BY DEF CallTypeOK, GoTo, Waiting
<1> QED
  BY <1>1, WaitingFinite, FS_RemoveElement

LEMMA WaitingSame ==
  ASSUME CallTypeOK, NEW t \in Threads, pc[t] # "waiting",
         NEW l, l # "waiting", GoTo(t, l)
  PROVE  Waiting' = Waiting
BY DEF CallTypeOK, GoTo, Waiting

LEMMA WaitInit == Init => WaitInv
<1> SUFFICES ASSUME Init PROVE WaitInv
  OBVIOUS
<1>1. Waiting = {}
  BY DEF Init, Waiting
<1> QED
  BY <1>1, FS_EmptySet DEF Init, WaitInv, WaitersAccounted, RecordedOnlyWhenEmpty

LEMMA WaitStep ==
  ASSUME TypeOK, WaitInv, NEW t \in Threads, Step(t)
  PROVE  WaitInv'
<1> DEFINE W == Cardinality(Waiting)
<1>0. /\ CallTypeOK /\ m_hSem \in Nat /\ m_lWaiting \in Nat
      /\ W \in Nat /\ W <= m_hSem + m_lWaiting
      /\ m_lWaiting > 0 => Committed /\ m_lFree = {}
  BY WaitingFinite DEF TypeOK, CountTypeOK, WaitInv, WaitersAccounted,
                       RecordedOnlyWhenEmpty
<1> SUFFICES /\ W' <= m_hSem' + m_lWaiting'
             /\ m_lWaiting' > 0 => (Committed /\ m_lFree = {})'
  BY DEF WaitInv, WaitersAccounted, RecordedOnlyWhenEmpty
<1> HIDE DEF W
<1>a. ASSUME UNCHANGED waitState, W' = W,
             m_lWaiting > 0 => m_bCommitted' = m_bCommitted /\ m_lFree' \subseteq m_lFree
      PROVE  /\ W' <= m_hSem' + m_lWaiting'
             /\ m_lWaiting' > 0 => (Committed /\ m_lFree = {})'
  BY <1>0, <1>a DEF waitState, Committed
<1>b. ASSUME NotifySample, W' = W
      PROVE  /\ W' <= m_hSem' + m_lWaiting'
             /\ m_lWaiting' > 0 => (Committed /\ m_lFree = {})'
  BY <1>0, <1>b DEF NotifySample
<1>1. CASE GetBuffer(t) \/ GetBufferAgain(t)
  <2>0. /\ pc[t] # "waiting"
        /\ UNCHANGED <<m_bCommitted, m_hSem>>
    BY <1>1 DEF GetBuffer, GetBufferAgain, MayCall, getBufferFrame
  <2>1. PICK dwFlags \in {"NOWAIT", "WAIT"} : TryGet(t, dwFlags)
    BY <1>1 DEF GetBuffer, GetBufferAgain
  <2>2. CASE Refuse(t)
    <3>1. W' = W
      BY <1>0, <2>0, <2>2, WaitingSame DEF Refuse, W
    <3> QED
      BY <1>a, <2>0, <2>2, <3>1 DEF Refuse, waitState
  <2>3. CASE TakeSample(t)
    <3>1. W' = W
      BY <1>0, <2>0, <2>3, WaitingSame DEF TakeSample, W
    <3>2. m_lFree' \subseteq m_lFree
      BY <2>3 DEF TakeSample
    <3> QED
      BY <1>a, <2>0, <2>3, <3>1, <3>2 DEF TakeSample, waitState
  <2>4. CASE SetWaiting(t, dwFlags)
    <3>1. W' <= W + 1
      <4>1. CASE dwFlags = "NOWAIT"
        <5>1. GoTo(t, "idle")
          BY <2>4, <4>1 DEF SetWaiting
        <5> QED
          BY <1>0, <2>0, <5>1, WaitingSame DEF W
      <4>2. CASE dwFlags # "NOWAIT"
        <5>1. GoTo(t, "waiting")
          BY <2>4, <4>2 DEF SetWaiting
        <5> QED
          BY <1>0, <2>0, <5>1, WaitingEnter DEF W
      <4> QED
        BY <4>1, <4>2
    <3>2. W' \in Nat
      BY WaitingFinite, <1>0, <2>0, <2>4, WaitingSame, WaitingEnter DEF SetWaiting, W
    <3> QED
      BY <1>0, <2>0, <2>4, <3>1, <3>2 DEF SetWaiting, Committed
  <2> QED
    BY <2>1, <2>2, <2>3, <2>4 DEF TryGet
<1>2. CASE Wake(t)
  <2>1. W' = W - 1
    BY <1>0, <1>2, WaitingLeave DEF Wake, W
  <2> QED
    BY <1>0, <1>2, <2>1 DEF Wake, poolState, Committed
<1>3. CASE SetProperties(t) \/ Commit(t)
  <2>1. W' = W
    BY <1>3 DEF SetProperties, Commit, W, Waiting
  <2>2. m_lWaiting = 0
    BY <1>0, <1>3 DEF SetProperties, Commit
  <2> QED
    BY <1>a, <1>3, <2>1, <2>2 DEF SetProperties, Commit
<1>4. CASE Decommit(t) \/ BreakConnect(t)
  <2>1. W' = W
    BY <1>0, <1>4, WaitingSame DEF Decommit, BreakConnect, MayCall, W
  <2>2. CASE NotifySample
    BY <1>b, <2>1, <2>2
  <2>3. CASE UNCHANGED <<m_bCommitted, waitState>>
    BY <1>a, <1>4, <2>1, <2>3 DEF Decommit, BreakConnect, decommitFrame
  <2> QED
    BY <1>4, <2>2, <2>3 DEF Decommit, BreakConnect, DecommitLocked
<1>5. CASE ReleaseBuffer(t)
  <2>1. W' = W
    BY <1>0, <1>5, WaitingSame DEF ReleaseBuffer, W
  <2> QED
    BY <1>b, <1>5, <2>1 DEF ReleaseBuffer
<1>6. CASE ReleaseSelf(t) \/ DropAllocator(t)
  <2>1. W' = W
    BY <1>0, <1>6, WaitingSame DEF ReleaseSelf, DropAllocator, W
  <2>2. m_lFree' \subseteq m_lFree
    BY <1>6 DEF ReleaseSelf, DropAllocator, ReleaseAllocator
  <2> QED
    BY <1>a, <1>6, <2>1, <2>2 DEF ReleaseSelf, DropAllocator
<1>7. ASSUME UNCHANGED <<poolState, waitState>>, Waiting' = Waiting
      PROVE  /\ W' <= m_hSem' + m_lWaiting'
             /\ m_lWaiting' > 0 => (Committed /\ m_lFree = {})'
  BY <1>a, <1>7 DEF poolState, W
<1>8. ASSUME NEW s \in Samples, ReleaseSample(t, s) PROVE Waiting' = Waiting
  BY <1>0, <1>8, WaitingSame DEF ReleaseSample
<1>9. ASSUME GetBufferReturn(t) \/ ReleaseLast(t) \/ ReleaseDecrement(t) \/ ReadNotify(t)
      PROVE Waiting' = Waiting
  <2>1. PICK l : l # "waiting" /\ GoTo(t, l)
    BY <1>9 DEF GetBufferReturn, ReleaseLast, ReleaseDecrement, ReadNotify
  <2> QED
    BY <1>0, <1>9, <2>1, WaitingSame
       DEF GetBufferReturn, ReleaseLast, ReleaseDecrement, ReadNotify
<1>10. ASSUME NEW u \in Threads, NEW s \in Samples,
              ShareAllocator(t, u) \/ AddRefSample(t, u, s)
       PROVE Waiting' = Waiting
  BY <1>10 DEF ShareAllocator, AddRefSample, Waiting
<1>11. ASSUME NEW u \in Threads, ShareAllocator(t, u) PROVE Waiting' = Waiting
  BY <1>11 DEF ShareAllocator, Waiting
<1> QED
  BY <1>1, <1>2, <1>3, <1>4, <1>5, <1>6, <1>7, <1>8, <1>9, <1>10, <1>11
     DEF Step, ClientCall, InCall, ReleaseSample, ShareAllocator, AddRefSample,
         GetBufferReturn, ReleaseLast, ReleaseDecrement, ReadNotify

LEMMA WaitNext == TypeOK /\ WaitInv /\ [Next]_vars => WaitInv'
<1> SUFFICES ASSUME TypeOK, WaitInv, [Next]_vars PROVE WaitInv'
  OBVIOUS
<1>1. CASE UNCHANGED vars
  BY <1>1 DEF WaitInv, WaitersAccounted, RecordedOnlyWhenEmpty, Waiting, Committed,
              vars, poolState, waitState
<1>2. ASSUME NEW t \in Threads, Step(t) PROVE WaitInv'
  BY <1>2, WaitStep
<1> QED
  BY <1>1, <1>2 DEF Next, Step, Terminated

LEMMA WaitInvSuffices == TypeOK /\ WaitInv => NoLostWakeup
BY WaitingFinite DEF TypeOK, CountTypeOK, WaitInv, WaitersAccounted,
                     RecordedOnlyWhenEmpty, NoLostWakeup

(* A thread blocked in GetBuffer has a semaphore count waiting for it as   *)
(* soon as a sample is free or the allocator is decommitted, however many  *)
(* threads, samples and AM_GBF_NOWAIT callers there are.                   *)
THEOREM NoWakeupIsLost == Spec => []NoLostWakeup
BY TypeInit, TypeStep, WaitInit, WaitNext, WaitInvSuffices, PTL DEF Spec

-----------------------------------------------------------------------------
(* Each sample in one place.  A thread carries a sample between the free   *)
(* list and its holders.                                                   *)
Carries(t, s) == cur[t] = s /\ pc[t] \in {"gotSample", "releaseBuffer"}

(* The samples that exist are free, carried or held; those that are free   *)
(* are nowhere else, and one that is carried is in those hands alone.      *)
PlaceInv ==
  \A s \in Samples :
    /\ s \in 1..m_lAllocated
         <=> s \in m_lFree \/ \E t \in Threads : Carries(t, s) \/ s \in held[t]
    /\ s \in m_lFree => \A t \in Threads : ~Carries(t, s) /\ s \notin held[t]
    /\ \A t, u \in Threads :
         Carries(t, s) => s \notin held[u] /\ (Carries(u, s) => t = u)

(* The count of a sample is the number of its holders; a Release that has  *)
(* looked at it is by a holder, and by the only one if it saw 1.           *)
RefInv ==
  /\ \A s \in Samples : sampleRef[s] = Cardinality(Holders(s))
  /\ \A t \in Threads : pc[t] = "decrement" => cur[t] \in held[t]
  /\ \A t \in Threads : pc[t] = "setZero" => Holders(cur[t]) = {t}

(* The references to the allocator: its clients', those that a call will   *)
(* release, and its own while it is committed or still has to decommit.    *)
(* Otherwise every sample is home.                                         *)
LifeInv ==
  /\ m_cRef = Cardinality(clients) + Cardinality(bRelease)
              + (IF Committed \/ DecommitPending THEN 1 ELSE 0)
  /\ ~(Committed /\ DecommitPending)
  /\ ~Committed /\ ~DecommitPending => m_lFree = 1..m_lAllocated
  /\ \A t \in Threads :
       /\ pc[t] \in {"waiting", "retry", "drop"} => t \in clients
       /\ t \in bRelease => pc[t] \in {"readNotify", "release", "drop"}
       /\ pc[t] = "release" => t \in bRelease

(* What the pool was asked for and what it has.                            *)
MemInv ==
  /\ DecommitPending => Outstanding
  /\ Committed \/ DecommitPending => m_lAllocated = m_lCount
  /\ alive => /\ m_bChanged = 0 => m_pBuffer = m_lCount /\ m_lAllocated = m_lCount
              /\ m_lAllocated <= m_pBuffer

IInv == TypeOK /\ PlaceInv /\ RefInv /\ LifeInv /\ MemInv

LEMMA ThreadSets ==
  ASSUME NEW S, S \subseteq Threads
  PROVE  /\ IsFiniteSet(S) /\ Cardinality(S) \in Nat /\ (Cardinality(S) = 0 <=> S = {})
         /\ \A x \in Threads : Cardinality(S \union {x})
              = (IF x \in S THEN Cardinality(S) ELSE Cardinality(S) + 1)
         /\ \A x \in Threads : Cardinality(S \ {x})
              = (IF x \in S THEN Cardinality(S) - 1 ELSE Cardinality(S))
<1>1. IsFiniteSet(S)
  BY ThreadsFinite, FS_Subset DEF ThreadsFinite
<1>2. /\ Cardinality(S) \in Nat /\ (Cardinality(S) = 0 <=> S = {})
      /\ \A x : Cardinality(S \union {x})
           = (IF x \in S THEN Cardinality(S) ELSE Cardinality(S) + 1)
  BY <1>1, FS_CardinalityType, FS_EmptySet, FS_AddElement
<1>3. \A x : Cardinality(S \ {x})
           = (IF x \in S THEN Cardinality(S) - 1 ELSE Cardinality(S))
  BY <1>1, FS_RemoveElement
<1> QED
  BY <1>1, <1>2, <1>3

(* All samples are home when as many are free as there are.                *)
LEMMA AllHome ==
  ASSUME NEW n \in Nat, NEW S, S \subseteq 1..n
  PROVE  /\ IsFiniteSet(S) /\ Cardinality(S) \in Nat /\ Cardinality(S) <= n
         /\ Cardinality(S) = n <=> S = 1..n
<1>1. IsFiniteSet(1..n) /\ Cardinality(1..n) = n
  BY FS_Interval
<1> QED
  BY <1>1, FS_Subset, FS_CardinalityType

LEMMA FreeIsAllocated == TypeOK /\ PlaceInv => m_lFree \subseteq 1..m_lAllocated
BY DEF TypeOK, PoolTypeOK, PlaceInv

(* While the allocator is closed nobody has a sample.                      *)
LEMMA ClosedIsEmpty ==
  ASSUME IInv, ~Committed, ~DecommitPending
  PROVE  \A t \in Threads, s \in Samples : ~Carries(t, s) /\ s \notin held[t]
BY DEF IInv, LifeInv, PlaceInv

(* The last reference is given up when the allocator is closed.            *)
LEMMA LastReferenceIsLast ==
  ASSUME IInv, NEW t \in Threads, m_cRef = 1, t \in clients \/ t \in bRelease
  PROVE  ~Committed /\ ~DecommitPending
<1>1. clients \subseteq Threads /\ bRelease \subseteq Threads
  BY DEF IInv, TypeOK, CountTypeOK
<1>2. Cardinality(clients) \in Nat /\ Cardinality(bRelease) \in Nat
  BY <1>1, ThreadSets
<1>3. Cardinality(clients) > 0 \/ Cardinality(bRelease) > 0
  BY <1>1, <1>2, ThreadSets
<1> QED
  BY <1>2, <1>3 DEF IInv, LifeInv

LEMMA PlaceInit == Init => IInv
<1> SUFFICES ASSUME Init PROVE IInv
  OBVIOUS
<1>1. TypeOK
  BY TypeInit
<1>2. \A t \in Threads, s \in Samples : ~Carries(t, s) /\ s \notin held[t]
  BY DEF Init, Carries
<1>3. PlaceInv
  BY <1>2 DEF Init, PlaceInv
<1>4. RefInv
  <2>1. \A s \in Samples : Holders(s) = {}
    BY <1>2 DEF Holders
  <2> QED
    BY <2>1, FS_EmptySet DEF Init, RefInv
<1>5. LifeInv
  <2>1. PICK creator \in Threads : clients = {creator}
    BY DEF Init
  <2>2. Cardinality(clients) = 1 /\ Cardinality(bRelease) = 0
    BY <2>1, FS_Singleton, FS_EmptySet DEF Init
  <2>3. 1..m_lAllocated = {}
    BY DEF Init
  <2> QED
    BY <2>2, <2>3 DEF Init, LifeInv, Committed, DecommitPending
<1>6. MemInv
  BY DEF Init, MemInv, Committed, DecommitPending
<1> QED
  BY <1>1, <1>3, <1>4, <1>5, <1>6 DEF IInv

-----------------------------------------------------------------------------
(* One lemma for what happens to the places of the samples, one for the    *)
(* references to each sample, one for the allocator's life, one for its    *)
(* memory.  First the steps at which nothing moves.                        *)
LEMMA NothingMoves ==
  ASSUME PlaceInv, UNCHANGED <<m_lFree, m_lAllocated, held>>,
         \A u \in Threads, s \in Samples : Carries(u, s)' <=> Carries(u, s)
  PROVE  PlaceInv'
BY DEF PlaceInv, Samples

LEMMA NotCarrying ==
  ASSUME CallTypeOK, NEW t \in Threads,
         pc[t] \notin {"gotSample", "releaseBuffer"},
         NEW l, l \notin {"gotSample", "releaseBuffer"}, GoTo(t, l),
         \A u \in Threads \ {t} : cur'[u] = cur[u]
  PROVE  \A u \in Threads, s \in Samples : Carries(u, s)' <=> Carries(u, s)
BY DEF CallTypeOK, GoTo, Carries

LEMMA PlaceStep ==
  ASSUME IInv, NEW t \in Threads, Step(t)
  PROVE  PlaceInv'
<1>0. TypeOK /\ CallTypeOK /\ PlaceInv
  BY DEF IInv, TypeOK
<1>1. CASE GetBuffer(t) \/ GetBufferAgain(t)
  <2>1. PICK dwFlags \in {"NOWAIT", "WAIT"} : TryGet(t, dwFlags)
    BY <1>1 DEF GetBuffer, GetBufferAgain
  <2>2. pc[t] \in {"idle", "retry"} /\ UNCHANGED <<m_lAllocated, held>>
    BY <1>1 DEF GetBuffer, GetBufferAgain, MayCall, getBufferFrame
  <2>3. CASE Refuse(t) \/ SetWaiting(t, dwFlags)
    <3>1. UNCHANGED <<m_lFree, cur>> /\ \E l \in {"idle", "waiting"} : GoTo(t, l)
      BY <2>3 DEF Refuse, SetWaiting
    <3> QED
      BY <1>0, <2>2, <3>1, NotCarrying, NothingMoves
  <2>4. CASE TakeSample(t)
    <3>1. PICK s \in m_lFree : m_lFree' = m_lFree \ {s} /\ cur' = [cur EXCEPT ![t] = s]
      BY <2>4 DEF TakeSample
    <3>2. \A u \in Threads, r \in Samples :
            Carries(u, r)' <=> Carries(u, r) \/ (u = t /\ r = s)
      BY <1>0, <2>2, <2>4, <3>1 DEF TakeSample, GoTo, Carries, CallTypeOK
    <3>3. s \in Samples
      BY <1>0 DEF TypeOK, PoolTypeOK
    <3> QED
      BY <1>0, <2>2, <3>1, <3>2, <3>3 DEF PlaceInv, Samples
  <2> QED
    BY <2>1, <2>3, <2>4 DEF TryGet
<1>2. CASE GetBufferReturn(t)
  <2>1. Carries(t, cur[t]) /\ cur[t] \in Samples
    BY <1>0, <1>2 DEF GetBufferReturn, Carries, CallTypeOK, Samples
  <2>2. \A u \in Threads, r \in Samples :
          /\ Carries(u, r)' <=> Carries(u, r) /\ u # t
          /\ r \in held'[u] <=> r \in held[u] \/ (u = t /\ r = cur[t])
    BY <1>0, <1>2 DEF GetBufferReturn, GoTo, Carries, CallTypeOK
  <2>3. UNCHANGED <<m_lFree, m_lAllocated>>
    BY <1>2 DEF GetBufferReturn, poolState
  <2>4. \A r \in Samples : Carries(t, r) => r = cur[t]
    BY DEF Carries
  <2> QED
    BY <1>0, <2>1, <2>2, <2>3, <2>4 DEF PlaceInv, Samples
<1>3. ASSUME NEW u \in Threads, NEW s \in Samples, AddRefSample(t, u, s)
      PROVE  PlaceInv'
  <2>1. \A v \in Threads, r \in Samples :
          /\ Carries(v, r)' <=> Carries(v, r)
          /\ r \in held'[v] <=> r \in held[v] \/ (v = u /\ r = s)
    BY <1>0, <1>3 DEF AddRefSample, Carries, CallTypeOK
  <2>2. s \in held[t] /\ UNCHANGED <<m_lFree, m_lAllocated>>
    BY <1>3 DEF AddRefSample, poolState
  <2> QED
    BY <1>0, <2>1, <2>2 DEF PlaceInv, Samples
<1>4. ASSUME NEW s \in Samples, ReleaseSample(t, s) PROVE PlaceInv'
  <2>1. \E l \in {"setZero", "decrement"} : GoTo(t, l)
    BY <1>4 DEF ReleaseSample
  <2>2. /\ pc[t] = "idle" /\ UNCHANGED <<m_lFree, m_lAllocated, held>>
        /\ \A u \in Threads \ {t} : cur'[u] = cur[u]
    BY <1>0, <1>4 DEF ReleaseSample, poolState, CallTypeOK
  <2> QED
    BY <1>0, <2>1, <2>2, NotCarrying, NothingMoves
<1>5. CASE ReleaseLast(t) \/ ReleaseDecrement(t)
  <2>1. /\ cur[t] \in Samples /\ cur[t] \in held[t]
        /\ UNCHANGED <<m_lFree, m_lAllocated>>
    BY <1>0, <1>5
       DEF ReleaseLast, ReleaseDecrement, IInv, RefInv, Holders, poolState, CallTypeOK, Samples
  <2>2. \A u \in Threads, r \in Samples :
          r \in held'[u] <=> r \in held[u] /\ ~(u = t /\ r = cur[t])
    BY <1>0, <1>5 DEF ReleaseLast, ReleaseDecrement, CallTypeOK
  <2>3. CASE /\ Holders(cur[t]) = {t}
             /\ GoTo(t, "releaseBuffer") /\ cur' = cur
    <3>1. \A u \in Threads, r \in Samples :
            Carries(u, r)' <=> Carries(u, r) \/ (u = t /\ r = cur[t])
      BY <1>0, <1>5, <2>3 DEF ReleaseLast, ReleaseDecrement, GoTo, Carries, CallTypeOK
    <3>2. \A u \in Threads : cur[t] \in held[u] => u = t
      BY <2>3 DEF Holders
    <3> QED
      BY <1>0, <2>1, <2>2, <3>1, <3>2 DEF PlaceInv, Samples
  <2>4. CASE /\ \E u \in Threads \ {t} : cur[t] \in held[u]
             /\ GoTo(t, "idle") /\ \A u \in Threads \ {t} : cur'[u] = cur[u]
    <3>1. \A u \in Threads, r \in Samples : Carries(u, r)' <=> Carries(u, r)
      BY <1>0, <1>5, <2>4, NotCarrying DEF ReleaseLast, ReleaseDecrement
    <3> QED
      BY <1>0, <2>1, <2>2, <2>4, <3>1 DEF PlaceInv, Samples
  <2>5. CASE ReleaseLast(t)
    BY <2>3, <2>5 DEF ReleaseLast, IInv, RefInv
  <2>6. CASE ReleaseDecrement(t)
    <3>1. Holders(cur[t]) \subseteq Threads /\ t \in Holders(cur[t])
      BY <2>1 DEF Holders
    <3>2. Cardinality(Holders(cur[t]) \ {t}) = sampleRef[cur[t]] - 1
      BY <2>1, <3>1, ThreadSets DEF IInv, RefInv
    <3>3. Holders(cur[t]) \ {t} = {} <=> sampleRef[cur[t]] - 1 = 0
      BY <3>1, <3>2, ThreadSets
    <3>4. CASE sampleRef[cur[t]] - 1 = 0
      <4>1. Holders(cur[t]) = {t}
        BY <3>1, <3>3, <3>4
      <4>2. GoTo(t, "releaseBuffer")
        BY <2>6, <3>4 DEF ReleaseDecrement
      <4>3. cur' = cur
        BY <1>0, <2>6, <3>4 DEF ReleaseDecrement, CallTypeOK
      <4> QED
        BY <2>3, <4>1, <4>2, <4>3
    <3>5. CASE sampleRef[cur[t]] - 1 # 0
      <4>1. PICK u \in Holders(cur[t]) : u # t
        BY <3>1, <3>3, <3>5
      <4>2. u \in Threads \ {t} /\ cur[t] \in held[u]
        BY <4>1 DEF Holders
      <4>3. GoTo(t, "idle") /\ \A v \in Threads \ {t} : cur'[v] = cur[v]
        BY <1>0, <2>6, <3>5 DEF ReleaseDecrement, CallTypeOK
      <4> QED
        BY <2>4, <4>2, <4>3
    <3> QED
      BY <3>4, <3>5
  <2> QED
    BY <1>5, <2>5, <2>6
<1>6. CASE ReleaseBuffer(t)
  <2>1. Carries(t, cur[t]) /\ cur[t] \in Samples
    BY <1>0, <1>6 DEF ReleaseBuffer, Carries, CallTypeOK, Samples
  <2>2. \A u \in Threads, r \in Samples : Carries(u, r)' <=> Carries(u, r) /\ u # t
    BY <1>0, <1>6 DEF ReleaseBuffer, GoTo, Carries, CallTypeOK
  <2>3. UNCHANGED <<m_lAllocated, held>> /\ m_lFree' = m_lFree \union {cur[t]}
    BY <1>6 DEF ReleaseBuffer
  <2>4. \A r \in Samples : Carries(t, r) => r = cur[t]
    BY DEF Carries
  <2> QED
    BY <1>0, <2>1, <2>2, <2>3, <2>4 DEF PlaceInv, Samples
<1>7. ASSUME \A u \in Threads, s \in Samples : ~Carries(u, s)' /\ s \notin held'[u],
             m_lAllocated' \in Nat, m_lFree' = 1..m_lAllocated'
      PROVE  PlaceInv'
  BY <1>7 DEF PlaceInv, Samples
<1>8. CASE Commit(t)
  <2>1. CASE UNCHANGED <<m_lFree, m_lAllocated>>
    BY <1>0, <1>8, <2>1, NothingMoves DEF Commit, Carries
  <2>2. CASE ~DecommitPending /\ m_lFree' = 1..m_lAllocated'
    <3>1. \A u \in Threads, s \in Samples : ~Carries(u, s)' /\ s \notin held'[u]
      BY <1>8, <2>2, ClosedIsEmpty DEF Commit, Carries
    <3>2. m_lAllocated' \in Nat
      BY <1>0, <1>8, PoolType, BoundsAreNat DEF PoolTypeOK, Step, ClientCall
    <3> QED
      BY <1>7, <2>2, <3>1, <3>2
  <2> QED
    BY <1>8, <2>1, <2>2 DEF Commit, CommitCancelsDecommit, CommitAllocates, Alloc
<1>9. CASE ReleaseSelf(t) \/ DropAllocator(t)
  <2>1. \A u \in Threads, s \in Samples : Carries(u, s)' <=> Carries(u, s)
    BY <1>0, <1>9, NotCarrying DEF ReleaseSelf, DropAllocator
  <2>2. CASE UNCHANGED <<m_lFree, m_lAllocated>>
    BY <1>0, <1>9, <2>1, <2>2, NothingMoves DEF ReleaseSelf, DropAllocator
  <2>3. CASE m_cRef = 1 /\ m_lFree' = {} /\ m_lAllocated' = 0
    <3>1. t \in clients \/ t \in bRelease
      BY <1>9 DEF ReleaseSelf, DropAllocator, IInv, LifeInv
    <3>2. ~Committed /\ ~DecommitPending
      BY <2>3, <3>1, LastReferenceIsLast
    <3>3. \A u \in Threads, s \in Samples : ~Carries(u, s)' /\ s \notin held'[u]
      BY <1>9, <2>1, <3>2, ClosedIsEmpty DEF ReleaseSelf, DropAllocator
    <3>4. m_lFree' = 1..m_lAllocated' /\ m_lAllocated' \in Nat
      BY <2>3
    <3> QED
      BY <1>7, <3>3, <3>4
  <2> QED
    BY <1>9, <2>2, <2>3 DEF ReleaseSelf, DropAllocator, ReleaseAllocator
<1>10. CASE SetProperties(t)
  BY <1>0, <1>10, NothingMoves DEF SetProperties, Carries
<1>11. CASE Decommit(t) \/ BreakConnect(t)
  <2>1. /\ \E l \in {"idle", "release", "drop"} : GoTo(t, l)
        /\ pc[t] = "idle" /\ UNCHANGED <<m_lFree, m_lAllocated, held, cur>>
    BY <1>11 DEF Decommit, BreakConnect, MayCall, decommitFrame
  <2> QED
    BY <1>0, <2>1, NotCarrying, NothingMoves
<1>12. CASE ReadNotify(t)
  <2>1. /\ \E l \in {"idle", "release", "crashed"} : GoTo(t, l)
        /\ pc[t] = "readNotify" /\ UNCHANGED <<m_lFree, m_lAllocated, held, cur>>
    BY <1>12 DEF ReadNotify, poolState
  <2> QED
    BY <1>0, <2>1, NotCarrying, NothingMoves
<1>13. CASE Wake(t)
  <2>1. /\ GoTo(t, "retry") /\ pc[t] = "waiting"
        /\ UNCHANGED <<m_lFree, m_lAllocated, held, cur>>
    BY <1>13 DEF Wake, poolState
  <2> QED
    BY <1>0, <2>1, NotCarrying, NothingMoves
<1>14. ASSUME NEW u \in Threads, ShareAllocator(t, u) PROVE PlaceInv'
  BY <1>0, <1>14, NothingMoves DEF ShareAllocator, poolState, Carries
<1> QED
  BY <1>1, <1>2, <1>3, <1>4, <1>5, <1>6, <1>8, <1>9, <1>10, <1>11, <1>12, <1>13, <1>14
     DEF Step, ClientCall, InCall

(* A thread that is not about to release a sample leaves the references    *)
(* as they are.                                                            *)
LEMMA SameReferences ==
  ASSUME RefInv, UNCHANGED <<sampleRef, held>>,
         \A u \in Threads : /\ pc'[u] = "decrement" => cur'[u] \in held[u]
                            /\ pc'[u] = "setZero" => Holders(cur'[u]) = {u}
  PROVE  RefInv'
<1>1. \A s : Holders(s)' = Holders(s)
  BY DEF Holders
<1> QED
  BY <1>1 DEF RefInv

LEMMA StepsBesideReferences ==
  ASSUME CallTypeOK, RefInv, UNCHANGED <<sampleRef, held>>, NEW t \in Threads,
         NEW l, l \notin {"decrement", "setZero"}, GoTo(t, l),
         \A u \in Threads \ {t} : cur'[u] = cur[u]
  PROVE  RefInv'
<1>1. \A u \in Threads : /\ pc'[u] = "decrement" => cur'[u] \in held[u]
                         /\ pc'[u] = "setZero" => Holders(cur'[u]) = {u}
  BY DEF CallTypeOK, GoTo, RefInv
<1> QED
  BY <1>1, SameReferences

LEMMA HoldersAreThreads ==
  ASSUME NEW s
  PROVE  /\ Holders(s) \subseteq Threads
         /\ \A u \in Threads : u \in Holders(s) <=> s \in held[u]
BY DEF Holders

LEMMA RefStep ==
  ASSUME IInv, NEW t \in Threads, Step(t)
  PROVE  RefInv'
<1>0. CallTypeOK /\ PlaceInv /\ RefInv
  BY DEF IInv, TypeOK
<1>1. CASE GetBuffer(t) \/ GetBufferAgain(t)
  <2>1. PICK dwFlags \in {"NOWAIT", "WAIT"} : TryGet(t, dwFlags)
    BY <1>1 DEF GetBuffer, GetBufferAgain
  <2>2. UNCHANGED <<sampleRef, held>>
    BY <1>1 DEF GetBuffer, GetBufferAgain, getBufferFrame
  <2>3. PICK l \in {"idle", "waiting", "gotSample"} : GoTo(t, l)
    BY <2>1 DEF TryGet, Refuse, TakeSample, SetWaiting
  <2>4. \A u \in Threads \ {t} : cur'[u] = cur[u]
    BY <1>0, <2>1 DEF TryGet, Refuse, TakeSample, SetWaiting, CallTypeOK
  <2> QED
    BY <1>0, <2>2, <2>3, <2>4, StepsBesideReferences
<1>2. CASE GetBufferReturn(t)
  <2>0. PICK s : s = cur[t]
    OBVIOUS
  <2>1. Carries(t, s) /\ s \in Samples /\ s # 0
    BY <1>0, <2>0, <1>2 DEF GetBufferReturn, Carries, CallTypeOK, Samples
  <2>2. \A u \in Threads : s \notin held[u]
    BY <1>0, <2>0, <2>1 DEF PlaceInv
  <2>3. \A u \in Threads, r \in Samples : r \in held'[u] <=> r \in held[u] \/ (u = t /\ r = s)
    BY <1>0, <2>0, <1>2 DEF GetBufferReturn, CallTypeOK
  <2>4. Holders(s)' = {t}
    BY <2>1, <2>2, <2>3 DEF Holders
  <2>5. \A r \in Samples \ {s} : Holders(r)' = Holders(r)
    BY <2>3 DEF Holders
  <2>6. \A r \in Samples : sampleRef'[r] = (IF r = s THEN 1 ELSE sampleRef[r])
    BY <1>0, <2>0, <1>2 DEF GetBufferReturn, CallTypeOK
  <2>7. \A r \in Samples : sampleRef'[r] = Cardinality(Holders(r)')
    BY <1>0, <2>0, <2>4, <2>5, <2>6, FS_Singleton, ZenonT(60) DEF RefInv
  <2>8. \A u \in Threads : pc'[u] \in {"decrement", "setZero"} =>
          u # t /\ pc'[u] = pc[u] /\ cur'[u] = cur[u] /\ cur[u] \in held[u]
    BY <1>0, <2>0, <1>2 DEF GetBufferReturn, GoTo, CallTypeOK, RefInv, Holders
  <2>9. \A u \in Threads : pc'[u] \in {"decrement", "setZero"} => cur[u] \in Samples \ {s}
    BY <1>0, <2>0, <2>2, <2>8 DEF CallTypeOK, Samples
  <2> QED
    BY <1>0, <2>0, <2>3, <2>5, <2>7, <2>8, <2>9 DEF RefInv
<1>3. ASSUME NEW v \in Threads, NEW s \in Samples, AddRefSample(t, v, s)
      PROVE  RefInv'
  <2>1. \A u \in Threads, r \in Samples : r \in held'[u] <=> r \in held[u] \/ (u = v /\ r = s)
    BY <1>0, <1>3 DEF AddRefSample, CallTypeOK
  <2>2. Holders(s)' = Holders(s) \union {v} /\ v \notin Holders(s)
    BY <1>3, <2>1 DEF Holders, AddRefSample
  <2>3. \A r \in Samples \ {s} : Holders(r)' = Holders(r)
    BY <2>1 DEF Holders
  <2>4. \A r \in Samples : sampleRef'[r] = (IF r = s THEN sampleRef[r] + 1 ELSE sampleRef[r])
    BY <1>0, <1>3 DEF AddRefSample, CallTypeOK
  <2>5. \A r \in Samples : sampleRef'[r] = Cardinality(Holders(r)')
    BY <1>0, <2>2, <2>3, <2>4, HoldersAreThreads, ThreadSets DEF RefInv
  <2>6. \A u \in Threads : pc[u] \in {"decrement", "setZero"} => cur[u] \in Samples
    BY <1>0 DEF CallTypeOK, Samples
  <2>7. \A u \in Threads : pc[u] = "setZero" => cur[u] # s
    BY <1>0, <1>3 DEF AddRefSample, RefInv, Holders
  <2> QED
    BY <1>0, <1>3, <2>1, <2>3, <2>5, <2>6, <2>7 DEF RefInv, AddRefSample
<1>4. ASSUME NEW s \in Samples, ReleaseSample(t, s) PROVE RefInv'
  <2>1. /\ UNCHANGED <<sampleRef, held>> /\ s \in held[t]
        /\ \A u \in Threads \ {t} : cur'[u] = cur[u] /\ pc'[u] = pc[u]
        /\ cur'[t] = s /\ pc'[t] = (IF LooksLast(s) THEN "setZero" ELSE "decrement")
    BY <1>0, <1>4 DEF ReleaseSample, GoTo, CallTypeOK
  <2>2. LooksLast(s) => Holders(s) = {t}
    <3>1. t \in Holders(s) /\ Holders(s) \subseteq Threads
      BY <2>1, HoldersAreThreads
    <3>2. Cardinality(Holders(s) \ {t}) = sampleRef[s] - 1
      BY <1>0, <3>1, ThreadSets DEF RefInv
    <3>3. sampleRef[s] - 1 = 0 => Holders(s) \ {t} = {}
      BY <3>1, <3>2, ThreadSets
    <3> QED
      BY <3>1, <3>3 DEF LooksLast
  <2>3. \A u \in Threads : /\ pc'[u] = "decrement" => cur'[u] \in held[u]
                           /\ pc'[u] = "setZero" => Holders(cur'[u]) = {u}
    BY <1>0, <2>1, <2>2 DEF RefInv
  <2> QED
    BY <1>0, <2>1, <2>3, SameReferences
<1>5. CASE ReleaseLast(t) \/ ReleaseDecrement(t)
  <2>0. PICK s : s = cur[t]
    OBVIOUS
  <2>1. s \in Samples /\ s \in held[t]
    BY <1>0, <2>0, <1>5 DEF ReleaseLast, ReleaseDecrement, RefInv, Holders, CallTypeOK, Samples
  <2>2. \A u \in Threads, r \in Samples :
          r \in held'[u] <=> r \in held[u] /\ ~(u = t /\ r = s)
    BY <1>0, <2>0, <1>5 DEF ReleaseLast, ReleaseDecrement, CallTypeOK
  <2>3. Holders(s)' = Holders(s) \ {t} /\ t \in Holders(s)
    BY <2>1, <2>2 DEF Holders
  <2>4. \A r \in Samples \ {s} : Holders(r)' = Holders(r)
    BY <2>2 DEF Holders
  <2>5. \A r \in Samples :
          sampleRef'[r] = (IF r = s THEN sampleRef[r] - 1 ELSE sampleRef[r])
    <3>1. CASE ReleaseLast(t)
      <4>1. sampleRef[s] = 1
        BY <1>0, <2>0, <2>1, <3>1, FS_Singleton DEF ReleaseLast, RefInv
      <4> QED
        BY <1>0, <2>0, <3>1, <4>1 DEF ReleaseLast, CallTypeOK
    <3>2. CASE ReleaseDecrement(t)
      BY <1>0, <2>0, <3>2 DEF ReleaseDecrement, CallTypeOK
    <3> QED
      BY <1>5, <3>1, <3>2
  <2>6. \A r \in Samples : sampleRef'[r] = Cardinality(Holders(r)')
    BY <1>0, <2>0, <2>3, <2>4, <2>5, HoldersAreThreads, ThreadSets DEF RefInv
  <2>7. \A u \in Threads : pc'[u] \in {"decrement", "setZero"} =>
          u # t /\ pc'[u] = pc[u] /\ cur'[u] = cur[u]
    BY <1>0, <2>0, <1>5 DEF ReleaseLast, ReleaseDecrement, GoTo, CallTypeOK
  <2>8. \A u \in Threads : pc[u] \in {"decrement", "setZero"} => cur[u] \in Samples
    BY <1>0 DEF CallTypeOK, Samples
  <2>9. \A u \in Threads \ {t} : pc[u] = "setZero" => cur[u] # s
    BY <1>0, <2>0, <2>3 DEF RefInv
  <2> QED
    BY <1>0, <2>0, <2>2, <2>4, <2>6, <2>7, <2>8, <2>9 DEF RefInv
<1>6. CASE ReleaseBuffer(t)
  <2>1. /\ UNCHANGED <<sampleRef, held>> /\ GoTo(t, "readNotify")
        /\ \A u \in Threads \ {t} : cur'[u] = cur[u]
    BY <1>0, <1>6 DEF ReleaseBuffer, CallTypeOK
  <2> QED
    BY <1>0, <2>1, StepsBesideReferences
<1>7. CASE ReadNotify(t) \/ Wake(t) \/ Decommit(t) \/ BreakConnect(t)
           \/ ReleaseSelf(t) \/ DropAllocator(t)
  <2>1. PICK l \in {"idle", "release", "crashed", "retry", "drop"} : GoTo(t, l)
    BY <1>7 DEF ReadNotify, Wake, Decommit, BreakConnect, ReleaseSelf, DropAllocator
  <2>2. UNCHANGED <<sampleRef, held, cur>>
    BY <1>7 DEF ReadNotify, Wake, Decommit, BreakConnect, ReleaseSelf, DropAllocator,
                decommitFrame
  <2> QED
    BY <1>0, <2>1, <2>2, StepsBesideReferences
<1>8. ASSUME UNCHANGED <<sampleRef, held, cur, pc>> PROVE RefInv'
  BY <1>0, <1>8, SameReferences DEF RefInv
<1>9. ASSUME NEW u \in Threads, ShareAllocator(t, u) PROVE RefInv'
  BY <1>8, <1>9 DEF ShareAllocator
<1>10. CASE SetProperties(t) \/ Commit(t)
  BY <1>8, <1>10 DEF SetProperties, Commit
<1> QED
  BY <1>1, <1>2, <1>3, <1>4, <1>5, <1>6, <1>7, <1>9, <1>10 DEF Step, ClientCall, InCall

(* What every step may use of the numbers and sets involved.               *)
LEMMA LifeFacts ==
  ASSUME IInv
  PROVE  /\ CallTypeOK /\ LifeInv /\ MemInv
         /\ clients \subseteq Threads /\ bRelease \subseteq Threads
         /\ Cardinality(clients) \in Nat /\ Cardinality(bRelease) \in Nat
         /\ \A t \in clients \cup bRelease : m_cRef > 0
         /\ m_lAllocated \in Nat /\ m_lFree \subseteq 1..m_lAllocated
         /\ Cardinality(m_lFree) \in Nat
         /\ ~Outstanding <=> m_lFree = 1..m_lAllocated
<1>1. /\ CallTypeOK /\ LifeInv /\ MemInv
      /\ clients \subseteq Threads /\ bRelease \subseteq Threads /\ m_lAllocated \in Nat
  BY BoundsAreNat DEF IInv, TypeOK, PoolTypeOK, CountTypeOK
<1>2. Cardinality(clients) \in Nat /\ Cardinality(bRelease) \in Nat
  BY <1>1, ThreadSets
<1>3. ASSUME NEW t \in clients \cup bRelease PROVE m_cRef > 0
  <2>1. Cardinality(clients) > 0 \/ Cardinality(bRelease) > 0
    BY <1>1, <1>2, ThreadSets
  <2> QED
    BY <1>1, <1>2, <2>1 DEF LifeInv
<1>4. m_lFree \subseteq 1..m_lAllocated
  BY FreeIsAllocated DEF IInv
<1>5. Cardinality(m_lFree) \in Nat /\ (~Outstanding <=> m_lFree = 1..m_lAllocated)
  <2>1. /\ Cardinality(m_lFree) \in Nat /\ Cardinality(m_lFree) <= m_lAllocated
        /\ Cardinality(m_lFree) = m_lAllocated <=> m_lFree = 1..m_lAllocated
    BY <1>1, <1>4, AllHome
  <2>2. ~Outstanding <=> Cardinality(m_lFree) = m_lAllocated
    BY <1>1, <2>1 DEF Outstanding
  <2> QED
    BY <2>1, <2>2
<1> QED
  BY <1>1, <1>2, <1>3, <1>4, <1>5

(* Steps of one thread that leave the references to the allocator and its  *)
(* state alone.                                                            *)
LEMMA LifeGoesOn ==
  ASSUME CallTypeOK, LifeInv, NEW t \in Threads, NEW l, GoTo(t, l),
         UNCHANGED <<m_cRef, clients, bRelease, m_bCommitted, m_bDecommitInProgress>>,
         ~Committed /\ ~DecommitPending => UNCHANGED <<m_lFree, m_lAllocated>>,
         l \in {"waiting", "retry", "drop"} => t \in clients,
         t \in bRelease => l \in {"readNotify", "release", "drop"},
         l = "release" => t \in bRelease
  PROVE  LifeInv'
<1>1. \A u \in Threads :
       /\ pc'[u] \in {"waiting", "retry", "drop"} => u \in clients
       /\ u \in bRelease => pc'[u] \in {"readNotify", "release", "drop"}
       /\ pc'[u] = "release" => u \in bRelease
  BY DEF LifeInv, CallTypeOK, GoTo
<1> QED
  BY <1>1 DEF LifeInv, Committed, DecommitPending

LEMMA ReleaseLeavesNothing ==
  ASSUME ReleaseAllocator
  PROVE  m_lFree' = 1..m_lAllocated' \/ UNCHANGED <<m_lFree, m_lAllocated>>
<1>1. CASE m_cRef = 1
  <2>1. m_lFree' = {} /\ m_lAllocated' = 0
    BY <1>1 DEF ReleaseAllocator
  <2>2. 1..0 = {}
    OBVIOUS
  <2> QED
    BY <2>1, <2>2
<1>2. CASE m_cRef # 1
  BY <1>2 DEF ReleaseAllocator
<1> QED
  BY <1>1, <1>2

LEMMA LifeStep ==
  ASSUME IInv, NEW t \in Threads, Step(t)
  PROVE  LifeInv'
<1>0. /\ CallTypeOK /\ LifeInv /\ MemInv
      /\ clients \subseteq Threads /\ bRelease \subseteq Threads
      /\ Cardinality(clients) \in Nat /\ Cardinality(bRelease) \in Nat
      /\ \A u \in clients \cup bRelease : m_cRef > 0
      /\ m_lAllocated \in Nat /\ m_lFree \subseteq 1..m_lAllocated
      /\ ~Outstanding <=> m_lFree = 1..m_lAllocated
  BY LifeFacts
<1>1. ASSUME NEW l, GoTo(t, l), l \in {"idle", "gotSample", "setZero", "decrement",
                                      "releaseBuffer"}, pc[t] \notin {"readNotify", "release", "drop"},
             UNCHANGED <<m_cRef, clients, bRelease, m_bCommitted, m_bDecommitInProgress>>,
             ~Committed /\ ~DecommitPending => UNCHANGED <<m_lFree, m_lAllocated>>
      PROVE  LifeInv'
  <2>1. t \notin bRelease
    BY <1>0, <1>1 DEF LifeInv
  <2> QED
    BY <1>0, <1>1, <2>1, LifeGoesOn
<1>2. CASE GetBuffer(t) \/ GetBufferAgain(t)
  <2>1. PICK dwFlags \in {"NOWAIT", "WAIT"} : TryGet(t, dwFlags)
    BY <1>2 DEF GetBuffer, GetBufferAgain
  <2>2. /\ UNCHANGED <<m_cRef, clients, bRelease, m_bCommitted, m_bDecommitInProgress>>
        /\ UNCHANGED m_lAllocated /\ t \in clients /\ pc[t] \in {"idle", "retry"}
    BY <1>0, <1>2 DEF GetBuffer, GetBufferAgain, MayCall, getBufferFrame, lifeState, LifeInv
  <2>3. PICK l \in {"idle", "waiting", "gotSample"} : GoTo(t, l)
    BY <2>1 DEF TryGet, Refuse, TakeSample, SetWaiting
  <2>4. ~Committed => UNCHANGED m_lFree
    BY <2>1 DEF TryGet, Refuse, TakeSample, SetWaiting
  <2>5. t \notin bRelease
    BY <1>0, <2>2 DEF LifeInv
  <2> QED
    BY <1>0, <2>2, <2>3, <2>4, <2>5, LifeGoesOn
<1>3. CASE GetBufferReturn(t) \/ ReleaseLast(t) \/ ReleaseDecrement(t)
  <2>1. /\ UNCHANGED <<m_cRef, clients, bRelease, m_bCommitted, m_bDecommitInProgress,
                       m_lFree, m_lAllocated>>
        /\ \E l \in {"idle", "releaseBuffer"} : GoTo(t, l)
        /\ pc[t] \notin {"readNotify", "release", "drop"}
    BY <1>3 DEF GetBufferReturn, ReleaseLast, ReleaseDecrement, lifeState, poolState
  <2> QED
    BY <1>1, <2>1
<1>4. ASSUME NEW s \in Samples, ReleaseSample(t, s) PROVE LifeInv'
  <2>1. /\ UNCHANGED <<m_cRef, clients, bRelease, m_bCommitted, m_bDecommitInProgress,
                       m_lFree, m_lAllocated>>
        /\ \E l \in {"setZero", "decrement"} : GoTo(t, l)
        /\ pc[t] \notin {"readNotify", "release", "drop"}
    BY <1>4 DEF ReleaseSample, lifeState, poolState
  <2> QED
    BY <1>1, <2>1
<1>5. CASE Wake(t)
  <2>1. /\ GoTo(t, "retry") /\ pc[t] = "waiting"
        /\ UNCHANGED <<m_cRef, clients, bRelease, m_bCommitted, m_bDecommitInProgress,
                       m_lFree, m_lAllocated>>
    BY <1>5 DEF Wake, lifeState, poolState
  <2>2. t \in clients /\ t \notin bRelease
    BY <1>0, <2>1 DEF LifeInv
  <2> QED
    BY <1>0, <2>1, <2>2, LifeGoesOn
<1>6. CASE ReadNotify(t)
  <2>1. /\ pc[t] = "readNotify"
        /\ UNCHANGED <<m_cRef, clients, bRelease, m_bCommitted, m_bDecommitInProgress,
                       m_lFree, m_lAllocated>>
    BY <1>6 DEF ReadNotify, lifeState, poolState
  <2>2. PICK l \in {"idle", "release", "crashed"} : GoTo(t, l) /\ (t \in bRelease <=> l = "release")
    BY <1>0, <1>6 DEF ReadNotify, alive
  <2> QED
    BY <1>0, <2>1, <2>2, LifeGoesOn
<1>7. CASE ReleaseBuffer(t)
  <2>1. /\ Carries(t, cur[t]) /\ cur[t] \in Samples /\ t \notin bRelease
    BY <1>0, <1>7 DEF ReleaseBuffer, Carries, CallTypeOK, Samples, LifeInv
  <2>2. cur[t] \notin m_lFree /\ cur[t] \in 1..m_lAllocated
    BY <2>1 DEF IInv, PlaceInv
  <2>3. Committed \/ DecommitPending
    BY <1>0, <2>2 DEF LifeInv
  <2>4. /\ m_lFree' = m_lFree \union {cur[t]}
        /\ UNCHANGED <<m_cRef, clients, m_bCommitted, m_lAllocated>>
    BY <1>7 DEF ReleaseBuffer, lifeState
  <2>5. /\ m_lFree' \subseteq 1..m_lAllocated
        /\ Cardinality(m_lFree') = m_lAllocated <=> m_lFree' = 1..m_lAllocated
    <3>1. m_lFree' \subseteq 1..m_lAllocated
      BY <1>0, <2>2, <2>4
    <3> QED
      BY <1>0, <3>1, AllHome
  <2>6. \A u \in Threads : pc'[u] = (IF u = t THEN "readNotify" ELSE pc[u])
    BY <1>0, <1>7 DEF ReleaseBuffer, GoTo, CallTypeOK
  <2>7. CASE DecommitPending /\ Cardinality(m_lFree') = m_lAllocated
    <3>1. m_bDecommitInProgress' = 0 /\ bRelease' = bRelease \union {t}
      BY <1>7, <2>7 DEF ReleaseBuffer
    <3>2. Cardinality(bRelease') = Cardinality(bRelease) + 1
      BY <1>0, <2>1, <3>1, ThreadSets
    <3>3. ~Committed /\ ~Committed' /\ ~DecommitPending'
      BY <1>0, <2>4, <2>7, <3>1 DEF LifeInv, Committed, DecommitPending
    <3>4. \A u \in Threads :
           /\ pc'[u] \in {"waiting", "retry", "drop"} => u \in clients'
           /\ u \in bRelease' => pc'[u] \in {"readNotify", "release", "drop"}
           /\ pc'[u] = "release" => u \in bRelease'
      BY <1>0, <2>4, <2>6, <3>1 DEF LifeInv
    <3>5. m_cRef' = Cardinality(clients') + Cardinality(bRelease')
      BY <1>0, <2>4, <2>7, <3>2 DEF LifeInv
    <3> QED
      BY <1>0, <2>4, <2>5, <2>7, <3>3, <3>4, <3>5 DEF LifeInv
  <2>8. CASE ~(DecommitPending /\ Cardinality(m_lFree') = m_lAllocated)
    <3>1. UNCHANGED <<m_bDecommitInProgress, bRelease>>
      BY <1>7, <2>8 DEF ReleaseBuffer
    <3>2. GoTo(t, "readNotify")
      BY <1>7 DEF ReleaseBuffer
    <3> QED
      BY <1>0, <2>1, <2>3, <2>4, <3>1, <3>2, LifeGoesOn
  <2> QED
    BY <2>7, <2>8
<1>8. CASE ReleaseSelf(t)
  <2>1. t \in bRelease /\ bRelease' = bRelease \ {t} /\ m_cRef' = m_cRef - 1
    BY <1>8 DEF ReleaseSelf, ReleaseAllocator
  <2>2. Cardinality(bRelease') = Cardinality(bRelease) - 1
    BY <1>0, <2>1, ThreadSets
  <2>3. UNCHANGED <<clients, m_bCommitted, m_bDecommitInProgress>>
    BY <1>8 DEF ReleaseSelf
  <2>4. ~Committed /\ ~DecommitPending => m_lFree' = 1..m_lAllocated'
    BY <1>0, <1>8, ReleaseLeavesNothing DEF ReleaseSelf, LifeInv
  <2>5. \A u \in Threads :
           pc'[u] = (IF u = t THEN IF pc[t] = "drop" THEN "drop" ELSE "idle" ELSE pc[u])
    BY <1>0, <1>8 DEF ReleaseSelf, GoTo, CallTypeOK
  <2> QED
    BY <1>0, <2>1, <2>2, <2>3, <2>4, <2>5 DEF LifeInv, Committed, DecommitPending
<1>9. CASE DropAllocator(t)
  <2>1. t \in clients /\ t \notin bRelease /\ clients' = clients \ {t} /\ m_cRef' = m_cRef - 1
    BY <1>0, <1>9 DEF DropAllocator, ReleaseAllocator, LifeInv
  <2>2. Cardinality(clients') = Cardinality(clients) - 1
    BY <1>0, <2>1, ThreadSets
  <2>3. UNCHANGED <<bRelease, m_bCommitted, m_bDecommitInProgress>>
    BY <1>9 DEF DropAllocator
  <2>4. ~Committed /\ ~DecommitPending => m_lFree' = 1..m_lAllocated'
    BY <1>0, <1>9, ReleaseLeavesNothing DEF DropAllocator, LifeInv
  <2>5. \A u \in Threads : pc'[u] = (IF u = t THEN "idle" ELSE pc[u])
    BY <1>0, <1>9 DEF DropAllocator, GoTo, CallTypeOK
  <2> QED
    BY <1>0, <2>1, <2>2, <2>3, <2>4, <2>5 DEF LifeInv, Committed, DecommitPending
<1>10. CASE SetProperties(t)
  BY <1>0, <1>10 DEF SetProperties, LifeInv, Committed, DecommitPending, lifeState
<1>11. CASE Commit(t)
  <2>1. UNCHANGED <<clients, bRelease, pc>> /\ ~Committed
    BY <1>11 DEF Commit
  <2>2. CASE CommitCancelsDecommit
    BY <1>0, <2>1, <2>2 DEF CommitCancelsDecommit, LifeInv, Committed, DecommitPending
  <2>3. ASSUME NEW hr \in {"OK", "FAILED"}, CommitAllocates(hr) PROVE LifeInv'
    <3>1. m_lFree' = 1..m_lAllocated' \/ UNCHANGED <<m_lFree, m_lAllocated>>
      BY <2>3 DEF CommitAllocates, Alloc
    <3>2. ~DecommitPending /\ ~DecommitPending' /\ (Committed' <=> hr = "OK")
          /\ m_cRef' = (IF hr = "OK" THEN m_cRef + 1 ELSE m_cRef)
      BY <2>3 DEF CommitAllocates, Committed, DecommitPending
    <3>3. m_lFree' = 1..m_lAllocated'
      BY <1>0, <2>1, <3>1, <3>2 DEF LifeInv
    <3> QED
      BY <1>0, <2>1, <3>2, <3>3 DEF LifeInv
  <2> QED
    BY <1>11, <2>2, <2>3 DEF Commit
<1>12. CASE Decommit(t) \/ BreakConnect(t)
  <2>1. /\ t \in clients /\ pc[t] = "idle" /\ DecommitLocked(t)
        /\ UNCHANGED <<m_cRef, clients, m_lFree, m_lAllocated>>
        /\ \/ GoTo(t, "drop")
           \/ (Committed \/ DecommitPending) /\ GoTo(t, IF Outstanding THEN "idle" ELSE "release")
    BY <1>12 DEF Decommit, BreakConnect, MayCall, decommitFrame, lifeState
  <2>2. t \notin bRelease
    BY <1>0, <2>1 DEF LifeInv
  <2>3. \A u \in Threads \ {t} : pc'[u] = pc[u]
    BY <1>0, <2>1 DEF GoTo, CallTypeOK
  <2>4. pc'[t] = "drop" \/ ((Committed \/ DecommitPending)
                            /\ pc'[t] = (IF Outstanding THEN "idle" ELSE "release"))
    BY <1>0, <2>1 DEF GoTo, CallTypeOK
  <2>5. CASE ~Committed /\ ~DecommitPending
    <3>1. UNCHANGED <<m_bCommitted, m_bDecommitInProgress, bRelease>> /\ pc'[t] = "drop"
      BY <2>1, <2>4, <2>5 DEF DecommitLocked
    <3> QED
      BY <1>0, <2>1, <2>2, <2>3, <3>1 DEF LifeInv, Committed, DecommitPending
  <2>6. CASE (Committed \/ DecommitPending) /\ Outstanding
    <3>1. ~Committed' /\ DecommitPending' /\ bRelease' = bRelease
      BY <2>1, <2>6 DEF DecommitLocked, Committed, DecommitPending
    <3> QED
      BY <1>0, <2>1, <2>2, <2>3, <2>4, <2>6, <3>1 DEF LifeInv
  <2>7. CASE (Committed \/ DecommitPending) /\ ~Outstanding
    <3>1. ~Committed' /\ ~DecommitPending' /\ bRelease' = bRelease \union {t}
      BY <2>1, <2>7 DEF DecommitLocked, Committed, DecommitPending
    <3>2. Cardinality(bRelease') = Cardinality(bRelease) + 1
      BY <1>0, <2>2, <3>1, ThreadSets
    <3> QED
      BY <1>0, <2>1, <2>2, <2>3, <2>4, <2>7, <3>1, <3>2 DEF LifeInv
  <2> QED
    BY <2>5, <2>6, <2>7
<1>13. ASSUME NEW u \in Threads, ShareAllocator(t, u) PROVE LifeInv'
  <2>1. Cardinality(clients \union {u}) = Cardinality(clients) + 1
    BY <1>0, <1>13, ThreadSets DEF ShareAllocator
  <2> QED
    BY <1>0, <1>13, <2>1 DEF ShareAllocator, LifeInv, Committed, DecommitPending, poolState
<1>14. ASSUME NEW u \in Threads, NEW s \in Samples, AddRefSample(t, u, s) PROVE LifeInv'
  BY <1>0, <1>14 DEF AddRefSample, LifeInv, Committed, DecommitPending, poolState, lifeState
<1> QED
  BY <1>2, <1>3, <1>4, <1>5, <1>6, <1>7, <1>8, <1>9, <1>10, <1>11, <1>12, <1>13, <1>14
     DEF Step, ClientCall, InCall

LEMMA MemStep ==
  ASSUME IInv, NEW t \in Threads, Step(t)
  PROVE  MemInv'
<1>0. /\ CallTypeOK /\ LifeInv /\ MemInv /\ PoolTypeOK /\ PoolTypeOK'
      /\ \A u \in clients \cup bRelease : m_cRef > 0
      /\ m_cRef \in Int /\ m_lAllocated \in Nat /\ Cardinality(m_lFree) \in Nat
      /\ m_lAllocated' \in Nat /\ m_lCount \in Nat
  BY LifeFacts, PoolType, BoundsAreNat DEF IInv, TypeOK, PoolTypeOK, CountTypeOK
<1>1. ASSUME UNCHANGED <<m_bCommitted, m_bDecommitInProgress, m_bChanged, m_lCount, m_lAllocated,
                         m_pBuffer>>,
             alive' => alive,
             DecommitPending => Outstanding'
      PROVE  MemInv'
  BY <1>0, <1>1 DEF MemInv, Committed, DecommitPending
<1>2. CASE GetBuffer(t) \/ GetBufferAgain(t)
  <2>1. PICK dwFlags \in {"NOWAIT", "WAIT"} : TryGet(t, dwFlags)
    BY <1>2 DEF GetBuffer, GetBufferAgain
  <2>2. UNCHANGED <<m_bCommitted, m_bDecommitInProgress, m_bChanged, m_lCount, m_lAllocated,
                    m_pBuffer, m_cRef>>
    BY <1>2 DEF GetBuffer, GetBufferAgain, getBufferFrame, lifeState
  <2>3. ~Committed => UNCHANGED m_lFree
    BY <2>1 DEF TryGet, Refuse, TakeSample, SetWaiting
  <2>4. DecommitPending => Outstanding'
    BY <1>0, <2>2, <2>3 DEF LifeInv, MemInv, Outstanding
  <2> QED
    BY <1>1, <2>2, <2>4 DEF alive
<1>3. ASSUME UNCHANGED poolState, alive' => alive PROVE MemInv'
  BY <1>0, <1>1, <1>3 DEF poolState, MemInv, Outstanding
<1>4. CASE GetBufferReturn(t) \/ ReleaseLast(t) \/ ReleaseDecrement(t) \/ ReadNotify(t) \/ Wake(t)
  BY <1>3, <1>4 DEF GetBufferReturn, ReleaseLast, ReleaseDecrement, ReadNotify, Wake,
                    lifeState, alive
<1>5. ASSUME NEW u \in Threads, NEW s \in Samples, AddRefSample(t, u, s) \/ ReleaseSample(t, s)
      PROVE  MemInv'
  BY <1>3, <1>5 DEF AddRefSample, ReleaseSample, lifeState, alive
<1>6. ASSUME NEW u \in Threads, ShareAllocator(t, u) PROVE MemInv'
  <2>1. alive
    BY <1>0, <1>6 DEF ShareAllocator, MayCall, alive
  <2> QED
    BY <1>3, <1>6, <2>1 DEF ShareAllocator
<1>7. CASE ReleaseBuffer(t)
  <2>1. /\ UNCHANGED <<m_bCommitted, m_bChanged, m_lCount, m_lAllocated, m_pBuffer, m_cRef>>
        /\ m_bDecommitInProgress' = (IF DecommitPending /\ Cardinality(m_lFree') = m_lAllocated
                                     THEN 0 ELSE m_bDecommitInProgress)
    BY <1>7 DEF ReleaseBuffer, lifeState
  <2>2. m_lFree' \subseteq 1..m_lAllocated' /\ Cardinality(m_lFree') \in Nat
        /\ Cardinality(m_lFree') <= m_lAllocated'
    <3>1. PlaceInv' /\ TypeOK'
      BY <1>7, PlaceStep, TypeStep DEF Next, Step, ClientCall, InCall, IInv
    <3>2. m_lFree' \subseteq 1..m_lAllocated'
      BY <3>1 DEF TypeOK, PoolTypeOK, PlaceInv, Samples
    <3> QED
      BY <1>0, <3>2, AllHome
  <2>3. DecommitPending' => Outstanding'
    BY <1>0, <2>1, <2>2 DEF DecommitPending, Outstanding
  <2>4. DecommitPending' => DecommitPending
    BY <2>1 DEF DecommitPending
  <2> QED
    BY <1>0, <2>1, <2>3, <2>4 DEF MemInv, Committed, alive
<1>8. CASE ReleaseSelf(t) \/ DropAllocator(t)
  <2>1. /\ ReleaseAllocator /\ t \in clients \cup bRelease
        /\ UNCHANGED <<m_bCommitted, m_bDecommitInProgress, m_bChanged, m_lCount>>
    BY <1>0, <1>8 DEF ReleaseSelf, DropAllocator, LifeInv
  <2>2. CASE m_cRef = 1
    <3>1. ~Committed /\ ~DecommitPending
      BY <2>1, <2>2, LastReferenceIsLast
    <3>2. ~alive'
      BY <2>1, <2>2 DEF ReleaseAllocator, alive
    <3> QED
      BY <2>1, <3>1, <3>2 DEF MemInv, Committed, DecommitPending
  <2>3. CASE m_cRef # 1
    <3>1. UNCHANGED <<m_lFree, m_lAllocated, m_pBuffer>>
      BY <2>1, <2>3 DEF ReleaseAllocator
    <3>2. alive
      BY <1>0, <2>1 DEF alive
    <3> QED
      BY <1>3, <2>1, <3>1, <3>2 DEF poolState
  <2> QED
    BY <2>2, <2>3
<1>9. CASE SetProperties(t)
  <2>1. ~Committed /\ ~DecommitPending
    BY <1>0, <1>9 DEF SetProperties, MemInv
  <2> QED
    BY <1>0, <1>9, <2>1 DEF SetProperties, MemInv, Committed, DecommitPending, lifeState, alive
<1>10. CASE Commit(t)
  <2>1. alive /\ ~Committed /\ UNCHANGED m_lCount
    BY <1>0, <1>10 DEF Commit, MayCall, alive
  <2>2. CASE CommitCancelsDecommit
    BY <1>0, <2>1, <2>2 DEF CommitCancelsDecommit, MemInv, Committed, DecommitPending, alive
  <2>3. ASSUME NEW hr \in {"OK", "FAILED"}, CommitAllocates(hr) PROVE MemInv'
    <3>1. /\ ~DecommitPending' /\ (Committed' <=> hr = "OK")
          /\ m_cRef' = (IF hr = "OK" THEN m_cRef + 1 ELSE m_cRef) /\ Alloc(hr)
      BY <2>3 DEF CommitAllocates, Committed, DecommitPending
    <3>2. CASE UNCHANGED <<m_lAllocated, m_lFree, m_pBuffer, m_bChanged>>
      <4>1. hr = "OK" => m_lAllocated = m_lCount
        <5>1. hr = "OK" => m_bChanged' = 0
          BY <3>1 DEF Alloc, ClearChanged
        <5> QED
          BY <1>0, <2>1, <3>2, <5>1 DEF MemInv
      <4> QED
        BY <1>0, <2>1, <3>1, <3>2, <4>1 DEF MemInv
    <3>3. CASE /\ m_pBuffer' \in {0, m_lCount}
               /\ m_lAllocated' \in SamplesCreated(m_pBuffer')
               /\ hr = IF m_lAllocated' = m_lCount THEN "OK" ELSE "FAILED"
               /\ ClearChanged(hr) /\ m_lCount > 0
      <4>1. m_lAllocated' <= m_pBuffer' /\ m_pBuffer' \in Nat
        BY <1>0, <3>3 DEF SamplesCreated
      <4>2. hr = "OK" <=> m_lAllocated' = m_lCount
        BY <3>3
      <4>3. m_bChanged' = 0 => m_lAllocated' = m_lCount /\ m_pBuffer' = m_lCount
        BY <1>0, <3>3, <4>1, <4>2 DEF ClearChanged
      <4> QED
        BY <2>1, <3>1, <4>1, <4>2, <4>3 DEF MemInv
    <3> QED
      BY <3>1, <3>2, <3>3 DEF Alloc
  <2> QED
    BY <1>10, <2>2, <2>3 DEF Commit
<1>11. CASE Decommit(t) \/ BreakConnect(t)
  <2>1. /\ DecommitLocked(t)
        /\ UNCHANGED <<m_bChanged, m_lCount, m_lAllocated, m_pBuffer, m_lFree, m_cRef>>
    BY <1>11 DEF Decommit, BreakConnect, decommitFrame, lifeState
  <2>2. CASE Committed \/ DecommitPending
    <3>1. ~Committed' /\ (DecommitPending' <=> Outstanding)
      BY <2>1, <2>2 DEF DecommitLocked, Committed, DecommitPending
    <3> QED
      BY <1>0, <2>1, <2>2, <3>1 DEF MemInv, Outstanding, alive
  <2>3. CASE ~Committed /\ ~DecommitPending
    <3>1. UNCHANGED poolState /\ (alive' => alive)
      BY <2>1, <2>3 DEF DecommitLocked, poolState, alive
    <3> QED
      BY <1>3, <3>1
  <2> QED
    BY <2>2, <2>3
<1> QED
  BY <1>2, <1>4, <1>5, <1>6, <1>7, <1>8, <1>9, <1>10, <1>11 DEF Step, ClientCall, InCall

LEMMA IInvNext == IInv /\ [Next]_vars => IInv'
<1> SUFFICES ASSUME IInv, [Next]_vars PROVE IInv'
  OBVIOUS
<1>1. TypeOK'
  BY TypeStep DEF IInv
<1>2. CASE UNCHANGED vars
  <2>1. UNCHANGED <<poolState, lifeState, sampleRef, pc, cur, bRelease, held>>
    BY <1>2 DEF vars
  <2>2. PlaceInv' /\ RefInv'
    BY <2>1 DEF IInv, PlaceInv, RefInv, Carries, Holders, poolState
  <2>3. LifeInv' /\ MemInv'
    BY <2>1 DEF IInv, LifeInv, MemInv, Committed, DecommitPending, Outstanding, alive,
                poolState, lifeState
  <2> QED
    BY <1>1, <2>2, <2>3 DEF IInv
<1>3. ASSUME NEW t \in Threads, Step(t) PROVE IInv'
  BY <1>1, <1>3, PlaceStep, RefStep, LifeStep, MemStep DEF IInv
<1> QED
  BY <1>2, <1>3 DEF Next, Step, Terminated

-----------------------------------------------------------------------------
(* What the invariant says of the samples and of the destructor.           *)
LEMMA InvImpliesOnePlace == IInv => EverySampleInOnePlace
<1> SUFFICES ASSUME IInv, NEW s \in Samples
             PROVE  /\ sampleRef[s] = Cardinality(Holders(s))
                    /\ Cardinality(InTransit(s)) + (IF s \in m_lFree THEN 1 ELSE 0)
                       + (IF Holders(s) # {} THEN 1 ELSE 0)
                       = (IF s \in 1..m_lAllocated THEN 1 ELSE 0)
  BY DEF EverySampleInOnePlace
<1>1. \A t \in Threads : /\ t \in InTransit(s) <=> Carries(t, s)
                         /\ t \in Holders(s) <=> s \in held[t]
  BY DEF InTransit, Carries, Holders
<1>2. InTransit(s) \subseteq Threads /\ Holders(s) \subseteq Threads
  BY DEF InTransit, Holders
<1>3. /\ s \in 1..m_lAllocated
           <=> s \in m_lFree \/ \E t \in Threads : Carries(t, s) \/ s \in held[t]
      /\ s \in m_lFree => \A t \in Threads : ~Carries(t, s) /\ s \notin held[t]
      /\ \A t, u \in Threads :
           Carries(t, s) => s \notin held[u] /\ (Carries(u, s) => t = u)
  BY DEF IInv, PlaceInv
<1>4. CASE InTransit(s) = {}
  <2>1. Cardinality(InTransit(s)) = 0
    BY <1>4, FS_EmptySet
  <2>2. s \in 1..m_lAllocated <=> s \in m_lFree \/ Holders(s) # {}
    BY <1>1, <1>2, <1>3, <1>4
  <2>3. ~(s \in m_lFree /\ Holders(s) # {})
    BY <1>1, <1>2, <1>3
  <2> QED
    BY <2>1, <2>2, <2>3 DEF IInv, RefInv
<1>5. ASSUME NEW t \in InTransit(s) PROVE Cardinality(InTransit(s)) = 1
  <2>1. InTransit(s) = {t}
    BY <1>1, <1>2, <1>3, <1>5
  <2> QED
    BY <2>1, FS_Singleton
<1>6. CASE InTransit(s) # {}
  <2>1. PICK t \in InTransit(s) : t \in Threads /\ Carries(t, s)
    BY <1>1, <1>2, <1>6
  <2>2. Cardinality(InTransit(s)) = 1
    BY <1>5, <2>1
  <2>3. s \in 1..m_lAllocated /\ s \notin m_lFree /\ Holders(s) = {}
    BY <1>1, <1>2, <1>3, <2>1
  <2> QED
    BY <2>2, <2>3 DEF IInv, RefInv
<1> QED
  BY <1>4, <1>6

LEMMA InvImpliesQuiet == IInv => DestroyedWhenQuiet
<1> SUFFICES ASSUME IInv, ~alive
             PROVE  /\ m_cRef = 0 /\ clients = {} /\ bRelease = {}
                    /\ ~Committed /\ ~DecommitPending
                    /\ \A t \in Threads : /\ pc[t] \in {"idle", "readNotify", "crashed"}
                                          /\ held[t] = {}
  BY DEF DestroyedWhenQuiet
<1>1. /\ CallTypeOK /\ LifeInv /\ m_cRef \in Int
      /\ Cardinality(clients) \in Nat /\ Cardinality(bRelease) \in Nat
      /\ \A t \in clients \cup bRelease : m_cRef > 0
  BY LifeFacts DEF IInv, TypeOK, CountTypeOK
<1>2. ~(m_cRef > 0)
  BY DEF alive
<1>3. clients = {} /\ bRelease = {}
  BY <1>1, <1>2
<1>4. m_cRef = 0 /\ ~Committed /\ ~DecommitPending
  BY <1>1, <1>2 DEF LifeInv
<1>5. \A t \in Threads, s \in Samples : ~Carries(t, s) /\ s \notin held[t]
  BY <1>4, ClosedIsEmpty
<1>6. ASSUME NEW t \in Threads PROVE pc[t] \in {"idle", "readNotify", "crashed"} /\ held[t] = {}
  <2>1. held[t] = {}
    BY <1>1, <1>5 DEF CallTypeOK
  <2>2. pc[t] \notin {"waiting", "retry", "release", "drop"}
    BY <1>1, <1>3 DEF LifeInv
  <2>3. pc[t] \notin {"gotSample", "releaseBuffer"}
    BY <1>1, <1>5 DEF CallTypeOK, Carries, Samples
  <2>4. pc[t] \notin {"setZero", "decrement"}
    BY <2>1 DEF IInv, RefInv, Holders
  <2> QED
    BY <1>1, <2>1, <2>2, <2>3, <2>4 DEF CallTypeOK
<1> QED
  BY <1>3, <1>4, <1>6

(* Each sample is free, with the one thread that takes or returns it, or   *)
(* out with as many references as holders; the unlocked test of Release is *)
(* exclusive; the destructor runs when nobody can touch the pool any more; *)
(* and there is memory under every sample: however many threads, samples   *)
(* and references, and wherever allocations fail.                          *)
THEOREM AllocatorIsSafe == Spec => []AllocatorSafety
<1>1. IInv => AllocatorSafety
  <2>1. IInv => FastReleaseIsExclusive /\ MemoryBacksSamples
    BY DEF IInv, RefInv, MemInv, FastReleaseIsExclusive, MemoryBacksSamples
  <2> QED
    BY <2>1, InvImpliesOnePlace, InvImpliesQuiet DEF IInv, AllocatorSafety
<1> QED
  BY <1>1, PlaceInit, IInvNext, PTL DEF Spec
-----------------------------------------------------------------------------
(* The promise: what each step does to the pool that the clients see.      *)
Out == (1..m_lAllocated) \ m_lFree

LEMMA PoolStutters ==
  ASSUME (m_bCommitted # 0) = (m_bCommitted # 0)', m_lAllocated' = m_lAllocated,
         m_lFree' = m_lFree
  PROVE  UNCHANGED Pool!poolVars
BY DEF Pool!poolVars, Committed

(* Somebody who may call has a reference.                                  *)
LEMMA ClientsKeepItAlive == IInv => \A t \in clients : alive
<1> SUFFICES ASSUME IInv, NEW t \in clients PROVE alive
  OBVIOUS
<1>1. clients \subseteq Threads /\ bRelease \subseteq Threads
  BY DEF IInv, TypeOK, CountTypeOK
<1>2. /\ Cardinality(clients) \in Nat /\ Cardinality(bRelease) \in Nat
      /\ Cardinality(clients) # 0
  BY <1>1, ThreadSets
<1> QED
  BY <1>2 DEF IInv, LifeInv, alive

(* A closed pool without a pending decommit has every buffer at home.      *)
LEMMA NothingOut == IInv /\ ~Committed /\ ~DecommitPending => Out = {}
BY DEF IInv, LifeInv, Out

LEMMA GetBufferMaps ==
  ASSUME IInv, NEW t \in Threads, GetBuffer(t) \/ GetBufferAgain(t)
  PROVE  [Pool!Next]_(Pool!poolVars)
<1>1. m_bCommitted' = m_bCommitted /\ m_lAllocated' = m_lAllocated
  BY DEF GetBuffer, GetBufferAgain, getBufferFrame
<1>2. CASE m_lFree' = m_lFree
  BY <1>1, <1>2, PoolStutters
<1>3. CASE TakeSample(t)
  <2>1. PICK s \in m_lFree : m_lFree' = m_lFree \ {s}
    BY <1>3 DEF TakeSample
  <2>2. s \in 1..m_lAllocated /\ s \notin Out
    BY <2>1, FreeIsAllocated DEF IInv, Out
  <2>3. Out' = Out \union {s}
    BY <1>1, <2>1, <2>2 DEF Out
  <2>4. Pool!Issue
    BY <1>1, <1>3, <2>2, <2>3 DEF Pool!Issue, TakeSample, Committed, Out
  <2> QED
    BY <2>4 DEF Pool!Next
<1> QED
  BY <1>2, <1>3 DEF GetBuffer, GetBufferAgain, TryGet, Refuse, SetWaiting

LEMMA ReleaseBufferMaps ==
  ASSUME IInv, NEW t \in Threads, ReleaseBuffer(t)
  PROVE  [Pool!Next]_(Pool!poolVars)
<1>1. m_bCommitted' = m_bCommitted /\ m_lAllocated' = m_lAllocated
      /\ m_lFree' = m_lFree \union {cur[t]}
  BY DEF ReleaseBuffer
<1>2. Carries(t, cur[t]) /\ cur[t] \in Samples
  BY DEF ReleaseBuffer, Carries, IInv, TypeOK, CallTypeOK, Samples
<1>3. cur[t] \in Out
  BY <1>2 DEF IInv, PlaceInv, Out
<1>4. Out' = Out \ {cur[t]}
  BY <1>1 DEF Out
<1>5. Pool!Return
  BY <1>1, <1>3, <1>4 DEF Pool!Return, Committed, Out
<1> QED
  BY <1>5 DEF Pool!Next

LEMMA CommitMaps ==
  ASSUME IInv, NEW t \in Threads, Commit(t)
  PROVE  [Pool!Next]_(Pool!poolVars)
<1>1. ~Committed /\ t \in clients
  BY DEF Commit, MayCall
<1>2. CASE CommitCancelsDecommit
  <2>1. m_bCommitted' = 1 /\ m_lAllocated' = m_lAllocated /\ m_lFree' = m_lFree
    BY <1>2 DEF CommitCancelsDecommit
  <2>2. m_lAllocated > 0
    <3>1. Cardinality(m_lFree) < m_lAllocated
      BY <1>2 DEF CommitCancelsDecommit, IInv, MemInv, Outstanding
    <3>2. m_lAllocated \in Nat /\ Cardinality(m_lFree) \in Nat
      BY BoundsAreNat, FreeIsAllocated, AllHome DEF IInv, TypeOK, PoolTypeOK
    <3> QED
      BY <3>1, <3>2
  <2>3. Pool!Open
    BY <1>1, <2>1, <2>2 DEF Pool!Open, Committed
  <2> QED
    BY <2>3 DEF Pool!Next
<1>3. ASSUME NEW hr \in {"OK", "FAILED"}, CommitAllocates(hr)
      PROVE  [Pool!Next]_(Pool!poolVars)
  <2>1. Out = {}
    BY <1>1, <1>3, NothingOut DEF CommitAllocates
  <2>2. Out' = {}
    <3>1. CASE m_lFree' = m_lFree /\ m_lAllocated' = m_lAllocated
      BY <2>1, <3>1 DEF Out
    <3>2. CASE m_lFree' = 1..m_lAllocated'
      BY <3>2 DEF Out
    <3> QED
      BY <1>3, <3>1, <3>2 DEF CommitAllocates, Alloc
  <2>3. m_lAllocated' \in 0..MaxBuffers
    BY <1>3, AllocType DEF CommitAllocates, IInv, TypeOK
  <2>4. hr = "OK" => m_lAllocated' > 0
    <3> SUFFICES ASSUME hr = "OK" PROVE m_lAllocated' > 0
      OBVIOUS
    <3>1. m_lCount > 0 /\ m_lCount \in Nat
      BY <1>3, BoundsAreNat DEF CommitAllocates, Alloc, IInv, TypeOK, PoolTypeOK
    <3>2. m_bChanged = 0 => m_lAllocated = m_lCount
      BY <1>1, ClientsKeepItAlive DEF IInv, MemInv
    <3>3. CASE m_bChanged = 0
      BY <1>3, <3>1, <3>2, <3>3 DEF CommitAllocates, Alloc
    <3>4. CASE m_bChanged # 0
      BY <1>3, <3>1, <3>4 DEF CommitAllocates, Alloc
    <3> QED
      BY <3>3, <3>4
  <2>5. Committed' \in BOOLEAN /\ (Committed' => hr = "OK")
    BY <1>3 DEF CommitAllocates, Committed
  <2>6. Pool!Provide
    BY <1>1, <2>1, <2>2, <2>3, <2>4, <2>5 DEF Pool!Provide, Out
  <2> QED
    BY <2>6 DEF Pool!Next
<1> QED
  BY <1>2, <1>3 DEF Commit

LEMMA DecommitMaps ==
  ASSUME NEW t \in Threads, Decommit(t) \/ BreakConnect(t)
  PROVE  [Pool!Next]_(Pool!poolVars)
<1>1. DecommitLocked(t) /\ m_lAllocated' = m_lAllocated /\ m_lFree' = m_lFree
  BY DEF Decommit, BreakConnect, decommitFrame
<1>2. CASE Committed
  <2>1. m_bCommitted' = 0
    BY <1>1, <1>2 DEF DecommitLocked
  <2>2. Pool!Close
    BY <1>1, <1>2, <2>1 DEF Pool!Close, Committed
  <2> QED
    BY <2>2 DEF Pool!Next
<1>3. CASE ~Committed
  <2>1. (m_bCommitted # 0) = (m_bCommitted # 0)'
    BY <1>1, <1>3 DEF DecommitLocked, Committed
  <2> QED
    BY <1>1, <2>1, PoolStutters
<1> QED
  BY <1>2, <1>3

(* The destructor closes a pool that is closed already.                    *)
LEMMA ReleaseMaps ==
  ASSUME IInv, NEW t \in Threads, t \in clients \/ t \in bRelease,
         ReleaseAllocator, m_bCommitted' = m_bCommitted
  PROVE  [Pool!Next]_(Pool!poolVars)
<1>1. CASE m_cRef = 1
  <2>1. m_lFree' = {} /\ m_lAllocated' = 0
    BY <1>1 DEF ReleaseAllocator
  <2>2. ~Committed /\ ~DecommitPending
    BY <1>1, LastReferenceIsLast
  <2>3. Out = {}
    BY <2>2, NothingOut
  <2>4. Out' = {}
    BY <2>1 DEF Out
  <2>5. ~Committed' /\ Committed' \in BOOLEAN
    BY <2>2 DEF Committed
  <2>6. m_lAllocated' \in 0..MaxBuffers
    BY <2>1, BoundsAreNat
  <2>7. Pool!Provide
    BY <2>2, <2>3, <2>4, <2>5, <2>6 DEF Pool!Provide, Out
  <2> QED
    BY <2>7 DEF Pool!Next
<1>2. CASE m_cRef # 1
  BY <1>2, PoolStutters DEF ReleaseAllocator
<1> QED
  BY <1>1, <1>2

LEMMA StepMaps ==
  ASSUME IInv, NEW t \in Threads, Step(t)
  PROVE  [Pool!Next]_(Pool!poolVars)
<1>1. CASE UNCHANGED poolState
  BY <1>1, PoolStutters DEF poolState
<1>2. CASE SetProperties(t)
  BY <1>2, PoolStutters DEF SetProperties
<1>3. CASE ReleaseSelf(t)
  <2>1. t \in bRelease /\ ReleaseAllocator /\ m_bCommitted' = m_bCommitted
    BY <1>3 DEF ReleaseSelf
  <2> QED
    BY <2>1, ReleaseMaps
<1>4. CASE DropAllocator(t)
  <2>1. t \in clients /\ ReleaseAllocator /\ m_bCommitted' = m_bCommitted
    BY <1>4 DEF DropAllocator, IInv, LifeInv
  <2> QED
    BY <2>1, ReleaseMaps
<1> QED
  BY <1>1, <1>2, <1>3, <1>4, GetBufferMaps, ReleaseBufferMaps, CommitMaps, DecommitMaps
     DEF Step, ClientCall, InCall, ReleaseSample, ShareAllocator, AddRefSample,
         GetBufferReturn, ReleaseLast, ReleaseDecrement, ReadNotify, Wake

(* The allocator, with its lock, its semaphore, its reference counts and   *)
(* its decommits that wait for the last sample, is a pool of buffers each  *)
(* of which is issued to one owner at a time, only while the pool is open, *)
(* and that is replaced only while it is closed and all buffers are home.  *)
THEOREM AllocatorIsPool == Spec => ImplementsPool
<1>1. Init => Pool!Init
  BY DEF Init, Pool!Init, Committed
<1>2. IInv /\ [Next]_vars => [Pool!Next]_(Pool!poolVars)
  <2> SUFFICES ASSUME IInv, [Next]_vars PROVE [Pool!Next]_(Pool!poolVars)
    OBVIOUS
  <2>1. CASE UNCHANGED vars
    BY <2>1, PoolStutters DEF vars, poolState
  <2> QED
    BY <2>1, StepMaps DEF Next, Step, Terminated
<1> QED
  BY <1>1, <1>2, PlaceInit, IInvNext, PTL DEF Spec, ImplementsPool, Pool!Spec

(***************************************************************************)
(* TransformFilter                                                         *)
(***************************************************************************)

(* Who is where: the lock goes with the call in progress, a control call   *)
(* with its steps.                                                         *)
WhereInv ==
  /\ m_csReceive = "free" <=> spc = "idle"
  /\ step = "commit" => op \in {"Pause", "Run"}
  /\ op \in {"Stop", "Pause", "Run"} => Joined
  /\ op \in {"Pause", "Run"} => m_State = "Stopped"
  /\ op = "Stop" => m_State # "Stopped"

(* A stopped filter is between its two locks: no call of the streaming     *)
(* thread, and no output allocator.  What downstream kept it gives back    *)
(* when it stops.                                                          *)
QuietInv ==
  /\ m_State = "Stopped" => spc = "idle" /\ ~outCommitted
  /\ spc # "idle" \/ outCommitted => Joined
  /\ downState = "Stopped" => kept = 0

(* An active filter has seen StartStreaming, and no StopStreaming since.   *)
StreamingInv ==
  /\ Joined /\ m_State # "Stopped" => streaming
  /\ step = "commit" => streaming

(* Downstream flushes only inside this pin's flush, and every call of the  *)
(* streaming thread inside this pin's flush began before it.               *)
FlushInv ==
  /\ m_bFlushing /\ spc # "idle" => pSample.old
  /\ downFlushing => m_bFlushing /\ downState # "Stopped"
  /\ op = "BeginFlush" => m_bFlushing /\ downState # "Stopped"
  /\ step = "unblock" => ~downFlushing
  /\ op = "EndFlush" => m_bFlushing /\ spc = "idle"
  /\ m_bFlushing /\ spc # "idle" /\ op # "BeginFlush" => downFlushing \/ downState = "Stopped"

(* A skip that is not yet reported is remembered, by the filter or by the  *)
(* output sample.                                                          *)
SkipInv ==
  skipped => IF spc \in {"transform", "deliver"} THEN prevSkipped ELSE m_bSampleSkipped

(* No end of stream has reached downstream while one may still come.       *)
EosInv ==
  /\ eosCount \in 0..1
  /\ downState = "Stopped" => eosCount = 0
  /\ Joined /\ (~ended \/ ~inCommitted) => eosCount = 0
  /\ m_bFlushing /\ op # "BeginFlush" /\ Joined => eosCount = 0
  /\ ~Joined /\ ~m_bEOSDelivered => eosCount = 0
  /\ Joined /\ ~inCommitted /\ ~ended => m_State = "Stopped" \/ downState = "Stopped"
  /\ ~inCommitted /\ spc # "idle" => downState = "Stopped"
  /\ spc # "idle" => ~ended
  /\ op \in {"Pause", "Run"} => ended

-----------------------------------------------------------------------------
(* A call of the streaming thread comes in, or is refused and ends the     *)
(* stream.                                                                 *)
Enters == Receive \/ EndOfStream

EnterEffect ==
         /\ Joined /\ ~ended /\ m_csReceive = "free"
         /\ \/ /\ CheckStreaming /\ m_csReceive' = "stream"
               /\ spc' \in {"type", "eos"} /\ ended' = ended
            \/ ended' = TRUE /\ UNCHANGED <<m_csReceive, spc, pSample>>
         /\ UNCHANGED <<m_Connected, m_bFlushing, m_bRunTimeError, m_State, op, step,
            m_bEOSDelivered, streaming, m_bSampleSkipped, m_bQualityChanged, skipped,
            prevSkipped, inCommitted, outCommitted, free, kept, downState, downFlushing,
            eosCount>>

LEMMA Entering == Enters => EnterEffect
BY DEF EnterEffect, Enters, Receive, EndOfStream, Enter, pins, control,
   marks, upstream, pool, down

LEMMA Numbers == TransformTypeOK => free \in Nat /\ kept \in Nat /\ eosCount \in Nat
BY NBuffersPositive DEF TransformTypeOK

LEMMA PlaceInvKept ==
  ASSUME WhereInv, TransformNext PROVE WhereInv'
<1> USE DEF WhereInv, Idle, Joined, Return, pins, control, marks, stream, upstream, pool,
   down
<1>1. CASE StopUnconnected
  BY <1>1 DEF StopUnconnected
<1>2. CASE Stop
  BY <1>2 DEF Stop, DecommitInput
<1>3. CASE Run
  BY <1>3 DEF Run
<1>4. CASE PauseUnconnected
  BY <1>4 DEF PauseUnconnected, ClearMarks, SendEosOnce
<1>5. CASE PauseRunning
  BY <1>5 DEF PauseRunning, ClearMarks
<1>6. CASE Pause
  BY <1>6 DEF Pause
<1>7. CASE BeginFlush
  BY <1>7 DEF BeginFlush
<1>8. CASE EndFlush
  BY <1>8 DEF EndFlush
<1>9. CASE StopLocked
  BY <1>9 DEF StopLocked, ReceiveLockFree, StopStreaming
<1>10. CASE StartStreaming
  BY <1>10 DEF StartStreaming, ReceiveLockFree, ClearMarks
<1>11. CASE CommitOutput
  BY <1>11 DEF CommitOutput, ClearMarks
<1>12. CASE DeliverBeginFlush
  BY <1>12 DEF DeliverBeginFlush, FlushDownstream
<1>13. CASE EndFlushStep
  BY <1>13 DEF EndFlushStep, EndFlushOrder
<1>14. CASE CheckType
  BY <1>14 DEF CheckType, ReturnToSender
<1>15. CASE InitializeOutputSample
  BY <1>15 DEF InitializeOutputSample, ReturnToSender
<1>16. CASE Transform
  BY <1>16 DEF Transform, SkipSample, ReturnToSender
<1>17. CASE Deliver
  BY <1>17 DEF Deliver, ClearSkipped, ReturnToSender
<1>18. CASE DeliverEndOfStream
  BY <1>18 DEF DeliverEndOfStream, ReturnToSender
<1>19. CASE Enters
  BY <1>19, Entering DEF EnterEffect, CheckStreaming
<1>20. CASE PauseAgain \/ UpstreamStart \/ UpstreamStop \/ UpstreamGetBuffer \/
   DownstreamRelease \/ DownstreamPause \/ DownstreamRun \/ DownstreamStop
  BY <1>20 DEF PauseAgain, UpstreamStart, UpstreamStop, UpstreamGetBuffer,
     DownstreamRelease, DownstreamPause, DownstreamRun, DownstreamStop, ClearMarks,
     NotFlushing
<1> QED
  BY <1>1, <1>2, <1>3, <1>4, <1>5, <1>6, <1>7, <1>8, <1>9, <1>10, <1>11, <1>12, <1>13,
     <1>14, <1>15, <1>16, <1>17, <1>18, <1>19, <1>20 DEF TransformNext, Control, ControlStep,
     Stream, Neighbours, Enters

LEMMA QuietInvKept ==
  ASSUME WhereInv, QuietInv, TransformNext PROVE QuietInv'
<1> USE DEF QuietInv, WhereInv, Idle, Joined, Return, pins, control, marks, stream,
   upstream, pool, down
<1>1. CASE StopUnconnected
  BY <1>1 DEF StopUnconnected
<1>2. CASE Run
  BY <1>2 DEF Run
<1>3. CASE PauseUnconnected
  BY <1>3 DEF PauseUnconnected, ClearMarks, SendEosOnce
<1>4. CASE PauseRunning
  BY <1>4 DEF PauseRunning, ClearMarks
<1>5. CASE StopLocked
  BY <1>5 DEF StopLocked, ReceiveLockFree, StopStreaming
<1>6. CASE CommitOutput
  BY <1>6 DEF CommitOutput, ClearMarks
<1>7. CASE DeliverBeginFlush
  BY <1>7 DEF DeliverBeginFlush, FlushDownstream
<1>8. CASE CheckType
  BY <1>8 DEF CheckType, ReturnToSender
<1>9. CASE InitializeOutputSample
  BY <1>9 DEF InitializeOutputSample, ReturnToSender
<1>10. CASE Transform
  BY <1>10 DEF Transform, SkipSample, ReturnToSender
<1>11. CASE Deliver
  BY <1>11 DEF Deliver, ClearSkipped, ReturnToSender
<1>12. CASE DeliverEndOfStream
  BY <1>12 DEF DeliverEndOfStream, ReturnToSender
<1>13. CASE Enters
  BY <1>13, Entering DEF EnterEffect, CheckStreaming
<1>14. CASE DownstreamRelease
  BY <1>14 DEF DownstreamRelease
<1>15. CASE DownstreamPause
  BY <1>15 DEF DownstreamPause, NotFlushing
<1>16. CASE DownstreamRun
  BY <1>16 DEF DownstreamRun
<1>17. CASE DownstreamStop
  BY <1>17 DEF DownstreamStop, NotFlushing
<1>18. CASE Stop \/ PauseAgain \/ Pause \/ BeginFlush \/ EndFlush \/ StartStreaming \/
   EndFlushStep \/ UpstreamStart \/ UpstreamStop \/ UpstreamGetBuffer
  BY <1>18 DEF Stop, PauseAgain, Pause, BeginFlush, EndFlush, StartStreaming, EndFlushStep,
     UpstreamStart, UpstreamStop, UpstreamGetBuffer, ClearMarks, DecommitInput,
     EndFlushOrder, ReceiveLockFree
<1> QED
  BY <1>1, <1>2, <1>3, <1>4, <1>5, <1>6, <1>7, <1>8, <1>9, <1>10, <1>11, <1>12, <1>13,
     <1>14, <1>15, <1>16, <1>17, <1>18 DEF TransformNext, Control, ControlStep, Stream, Neighbours,
     Enters

LEMMA StreamingInvKept ==
  ASSUME WhereInv, StreamingInv, TransformNext PROVE StreamingInv'
<1> USE DEF StreamingInv, WhereInv, Idle, Joined, Return, pins, control, marks, stream,
   upstream, pool, down
<1>1. CASE StopUnconnected
  BY <1>1 DEF StopUnconnected
<1>2. CASE Stop
  BY <1>2 DEF Stop, DecommitInput
<1>3. CASE Run
  BY <1>3 DEF Run
<1>4. CASE PauseUnconnected
  BY <1>4 DEF PauseUnconnected, ClearMarks, SendEosOnce
<1>5. CASE PauseRunning
  BY <1>5 DEF PauseRunning, ClearMarks
<1>6. CASE Pause
  BY <1>6 DEF Pause
<1>7. CASE BeginFlush
  BY <1>7 DEF BeginFlush
<1>8. CASE EndFlush
  BY <1>8 DEF EndFlush
<1>9. CASE StopLocked
  BY <1>9 DEF StopLocked, ReceiveLockFree, StopStreaming
<1>10. CASE StartStreaming
  BY <1>10 DEF StartStreaming, ReceiveLockFree, ClearMarks
<1>11. CASE CommitOutput
  BY <1>11 DEF CommitOutput, ClearMarks
<1>12. CASE DeliverBeginFlush
  BY <1>12 DEF DeliverBeginFlush, FlushDownstream
<1>13. CASE EndFlushStep
  BY <1>13 DEF EndFlushStep, EndFlushOrder
<1>14. CASE PauseAgain \/ CheckType \/ InitializeOutputSample \/ Transform \/ Deliver \/
   DeliverEndOfStream \/ Enters \/ UpstreamStart \/ UpstreamStop \/ UpstreamGetBuffer \/
   DownstreamRelease \/ DownstreamPause \/ DownstreamRun \/ DownstreamStop
  BY <1>14, Entering DEF PauseAgain, CheckType, InitializeOutputSample, Transform, Deliver,
     DeliverEndOfStream, UpstreamStart, UpstreamStop, UpstreamGetBuffer, DownstreamRelease,
     DownstreamPause, DownstreamRun, DownstreamStop, ClearMarks, ClearSkipped, NotFlushing,
     ReturnToSender, SkipSample, EnterEffect
<1> QED
  BY <1>1, <1>2, <1>3, <1>4, <1>5, <1>6, <1>7, <1>8, <1>9, <1>10, <1>11, <1>12, <1>13,
     <1>14 DEF TransformNext, Control, ControlStep, Stream, Neighbours, Enters

LEMMA FlushInvKept ==
  ASSUME TransformTypeOK, WhereInv, QuietInv, FlushInv, TransformNext PROVE FlushInv'
<1> USE DEF FlushInv, QuietInv, WhereInv, Idle, Joined, Return, pins, control, marks,
   stream, upstream, pool, down
<1>1. CASE Stop
  BY <1>1 DEF Stop, DecommitInput
<1>2. CASE Pause
  BY <1>2 DEF Pause
<1>3. CASE BeginFlush
  <2>1. /\ pSample'.old <=> spc # "idle"
        /\ m_bFlushing' /\ op' = "BeginFlush" /\ step' = "deliver" /\ downState # "Stopped"
        /\ UNCHANGED <<spc, downFlushing, downState>>
    BY <1>3 DEF BeginFlush, TransformTypeOK
  <2>2. ~downFlushing
    BY <1>3 DEF BeginFlush
  <2> QED
    BY <2>1, <2>2
<1>4. CASE EndFlush
  BY <1>4 DEF EndFlush
<1>5. CASE StopLocked
  BY <1>5 DEF StopLocked, ReceiveLockFree, StopStreaming
<1>6. CASE StartStreaming
  BY <1>6 DEF StartStreaming, ReceiveLockFree, ClearMarks
<1>7. CASE CommitOutput
  BY <1>7 DEF CommitOutput, ClearMarks
<1>8. CASE DeliverBeginFlush
  BY <1>8 DEF DeliverBeginFlush, FlushDownstream
<1>9. CASE EndFlushStep
  <2>1. spc' = "idle" /\ op' # "BeginFlush" /\ downState' = downState
    BY <1>9 DEF EndFlushStep, EndFlushOrder
  <2>2. \/ op' = "none" /\ UNCHANGED downFlushing /\ ~downFlushing
        \/ downFlushing' = FALSE /\ UNCHANGED m_bFlushing
    BY <1>9 DEF EndFlushStep, EndFlushOrder
  <2>3. op = "EndFlush" /\ m_bFlushing
    BY <1>9 DEF EndFlushStep
  <2>4. ~downFlushing'
    BY <2>2
  <2>5. op' = "EndFlush" => m_bFlushing'
    BY <2>2, <2>3
  <2> QED
    BY <2>1, <2>4, <2>5
<1>10. CASE CheckType
  BY <1>10 DEF CheckType, ReturnToSender
<1>11. CASE InitializeOutputSample
  BY <1>11 DEF InitializeOutputSample, ReturnToSender
<1>12. CASE Transform
  BY <1>12 DEF Transform, SkipSample, ReturnToSender
<1>13. CASE Deliver
  BY <1>13 DEF Deliver, ClearSkipped, ReturnToSender
<1>14. CASE DeliverEndOfStream
  BY <1>14 DEF DeliverEndOfStream, ReturnToSender
<1>15. CASE Enters
  BY <1>15, Entering DEF EnterEffect, CheckStreaming
<1>16. CASE DownstreamPause
  BY <1>16 DEF DownstreamPause, NotFlushing
<1>17. CASE DownstreamRun
  BY <1>17 DEF DownstreamRun
<1>18. CASE DownstreamStop
  BY <1>18 DEF DownstreamStop, NotFlushing
<1>19. CASE StopUnconnected \/ PauseAgain \/ Run \/ PauseUnconnected \/ PauseRunning \/
   UpstreamStart \/ UpstreamStop \/ UpstreamGetBuffer \/ DownstreamRelease
  BY <1>19 DEF StopUnconnected, PauseAgain, Run, PauseUnconnected, PauseRunning,
     UpstreamStart, UpstreamStop, UpstreamGetBuffer, DownstreamRelease, ClearMarks,
     SendEosOnce
<1> QED
  BY <1>1, <1>2, <1>3, <1>4, <1>5, <1>6, <1>7, <1>8, <1>9, <1>10, <1>11, <1>12, <1>13,
     <1>14, <1>15, <1>16, <1>17, <1>18, <1>19 DEF TransformNext, Control, ControlStep, Stream,
     Neighbours, Enters

LEMMA SkipInvKept ==
  ASSUME TransformTypeOK, WhereInv, SkipInv, TransformNext PROVE SkipInv'
<1> USE DEF SkipInv, pins, control, marks, stream, upstream, pool, down
<1>1. ASSUME skipped' = FALSE PROVE SkipInv'
  BY <1>1
<1>2. ASSUME UNCHANGED <<marks, prevSkipped, spc>> PROVE SkipInv'
  BY <1>2
<1>3. CASE PauseAgain \/ PauseUnconnected \/ PauseRunning \/ CommitOutput \/ Deliver
  BY <1>1, <1>3 DEF PauseAgain, PauseUnconnected, PauseRunning, CommitOutput, Deliver,
     ClearMarks
<1>4. CASE StartStreaming
  BY <1>1, <1>2, <1>4 DEF StartStreaming, ClearMarks
<1>5. CASE CheckType
  <2>1. CASE pSample.typeChanged
    BY <1>5, <2>1 DEF CheckType, ReturnToSender
  <2>2. CASE ~pSample.typeChanged
    BY <1>5, <2>2 DEF CheckType
  <2> QED
    BY <2>1, <2>2
<1>6. CASE InitializeOutputSample
  <2>1. spc = "init" /\ skipped' = skipped
    BY <1>6 DEF InitializeOutputSample
  <2>2. \/ spc' = "transform" /\ prevSkipped' = m_bSampleSkipped
        \/ spc' = "idle" /\ m_bSampleSkipped' = m_bSampleSkipped
    BY <1>6 DEF InitializeOutputSample, ReturnToSender
  <2>3. skipped => m_bSampleSkipped
    BY <2>1
  <2>4. CASE spc' = "transform" /\ prevSkipped' = m_bSampleSkipped
    BY <2>1, <2>3, <2>4
  <2>5. CASE spc' = "idle" /\ m_bSampleSkipped' = m_bSampleSkipped
    BY <2>1, <2>3, <2>5
  <2> QED
    BY <2>2, <2>4, <2>5
<1>7. CASE Transform
  <2>1. CASE spc' = "deliver" /\ UNCHANGED <<marks, prevSkipped>>
    BY <1>7, <2>1 DEF Transform
  <2>2. CASE spc' = "idle" /\ m_bSampleSkipped' = TRUE
    BY <2>2
  <2> QED
    BY <1>1, <1>7, <2>1, <2>2 DEF Transform, SkipSample, ReturnToSender
<1>8. CASE Enters
  <2>1. /\ spc \notin {"transform", "deliver"} /\ spc' \notin {"transform", "deliver"}
        /\ UNCHANGED marks
    BY <1>8, Entering DEF EnterEffect, WhereInv
  <2> QED
    BY <2>1
<1>9. CASE DeliverEndOfStream
  BY <1>9 DEF DeliverEndOfStream, ReturnToSender
<1>10. CASE \/ StopUnconnected \/ Stop \/ Run \/ Pause \/ BeginFlush \/ EndFlush \/ StopLocked
            \/ DeliverBeginFlush \/ EndFlushStep \/ UpstreamStart \/ UpstreamStop
            \/ UpstreamGetBuffer \/ DownstreamRelease \/ DownstreamPause \/ DownstreamRun
            \/ DownstreamStop
  BY <1>2, <1>10 DEF StopUnconnected, Stop, Run, Pause, BeginFlush, EndFlush, StopLocked,
     DeliverBeginFlush, EndFlushStep, UpstreamStart, UpstreamStop, UpstreamGetBuffer,
     DownstreamRelease, DownstreamPause, DownstreamRun, DownstreamStop
<1> QED
  BY <1>3, <1>4, <1>5, <1>6, <1>7, <1>8, <1>9, <1>10
     DEF TransformNext, Control, ControlStep, Stream, Neighbours, Enters

LEMMA EosInvKept ==
  ASSUME TransformTypeOK, WhereInv, QuietInv, FlushInv, EosInv, TransformNext PROVE EosInv'
<1> USE DEF EosInv, FlushInv, QuietInv, WhereInv, Idle, Joined, Return, pins, control,
   marks, stream, upstream, pool, down
<1>0. free \in Nat /\ kept \in Nat /\ eosCount \in Nat /\ NBuffers \in Nat
  BY Numbers, NBuffersPositive
<1>1. CASE StopUnconnected
  BY <1>1 DEF StopUnconnected
<1>2. CASE Stop
  BY <1>2 DEF Stop, DecommitInput
<1>3. CASE Run
  BY <1>3 DEF Run
<1>4. CASE PauseUnconnected
  <2>1. /\ ~Joined' /\ m_State' = "Paused" /\ downState' # "Stopped"
        /\ ~outCommitted /\ spc = "idle"
        /\ UNCHANGED <<spc, op, inCommitted, ended>>
    BY <1>4 DEF PauseUnconnected
  <2>2. ~m_bEOSDelivered' => eosCount' = 0
    BY <1>4, <2>1 DEF PauseUnconnected, SendEosOnce
  <2>3. eosCount' \in 0..1
    BY <1>4, <2>1 DEF PauseUnconnected, SendEosOnce
  <2> QED
    BY <1>4, <2>1, <2>2, <2>3 DEF PauseUnconnected
<1>5. CASE PauseRunning
  BY <1>5 DEF PauseRunning, ClearMarks
<1>6. CASE Pause
  BY <1>6 DEF Pause
<1>7. CASE BeginFlush
  BY <1>7 DEF BeginFlush
<1>8. CASE EndFlush
  BY <1>8 DEF EndFlush
<1>9. CASE StopLocked
  BY <1>9 DEF StopLocked, ReceiveLockFree, StopStreaming
<1>10. CASE StartStreaming
  BY <1>10 DEF StartStreaming, ReceiveLockFree, ClearMarks
<1>11. CASE CommitOutput
  BY <1>11 DEF CommitOutput, ClearMarks
<1>12. CASE DeliverBeginFlush
  BY <1>0, <1>12 DEF DeliverBeginFlush, FlushDownstream
<1>13. CASE EndFlushStep
  BY <1>13 DEF EndFlushStep, EndFlushOrder
<1>14. CASE CheckType
  BY <1>14 DEF CheckType, ReturnToSender
<1>15. CASE InitializeOutputSample
  BY <1>0, <1>15 DEF InitializeOutputSample, ReturnToSender
<1>16. CASE Transform
  BY <1>0, <1>16 DEF Transform, SkipSample, ReturnToSender
<1>17. CASE Deliver
  BY <1>0, <1>17 DEF Deliver, ClearSkipped, ReturnToSender
<1>18. CASE DeliverEndOfStream
  <2>1. Joined /\ eosCount = 0 /\ spc' = "idle" /\ ended' = TRUE
    BY <1>18 DEF DeliverEndOfStream, ReturnToSender
  <2>2. eosCount' = IF downState = "Stopped" \/ downFlushing THEN 0 ELSE 1
    BY <1>18, <2>1 DEF DeliverEndOfStream
  <2>3. /\ UNCHANGED <<m_Connected, m_bFlushing, op, m_State>>
        /\ UNCHANGED <<m_bEOSDelivered, inCommitted, downState>>
    BY <1>18 DEF DeliverEndOfStream, ReturnToSender
  <2> QED
    BY <1>18, <2>1, <2>2, <2>3 DEF DeliverEndOfStream
<1>19. CASE Enters
  BY <1>19, Entering DEF EnterEffect, CheckStreaming
<1>20. CASE UpstreamStart
  BY <1>20 DEF UpstreamStart
<1>21. CASE UpstreamStop
  BY <1>21 DEF UpstreamStop
<1>22. CASE DownstreamPause
  BY <1>22 DEF DownstreamPause, NotFlushing
<1>23. CASE DownstreamRun
  BY <1>23 DEF DownstreamRun
<1>24. CASE DownstreamStop
  BY <1>0, <1>24 DEF DownstreamStop, NotFlushing
<1>25. CASE PauseAgain \/ UpstreamGetBuffer \/ DownstreamRelease
  BY <1>25 DEF PauseAgain, UpstreamGetBuffer, DownstreamRelease, ClearMarks
<1> QED
  BY <1>1, <1>2, <1>3, <1>4, <1>5, <1>6, <1>7, <1>8, <1>9, <1>10, <1>11, <1>12, <1>13,
     <1>14, <1>15, <1>16, <1>17, <1>18, <1>19, <1>20, <1>21, <1>22, <1>23, <1>24, <1>25 DEF
     TransformNext, Control, ControlStep, Stream, Neighbours, Enters

LEMMA SamplesAccountedKept ==
  ASSUME TransformTypeOK, WhereInv, SamplesAccounted, TransformNext PROVE SamplesAccounted'
<1> USE DEF SamplesAccounted, WhereInv, Idle, Joined, Return, pins, control, marks, stream,
   upstream, pool, down
<1>0. free \in Nat /\ kept \in Nat /\ eosCount \in Nat /\ NBuffers \in Nat
  BY Numbers, NBuffersPositive
<1>1. CASE DeliverBeginFlush
  BY <1>0, <1>1 DEF DeliverBeginFlush, FlushDownstream
<1>2. CASE CheckType
  BY <1>2 DEF CheckType, ReturnToSender
<1>3. CASE InitializeOutputSample
  BY <1>0, <1>3 DEF InitializeOutputSample, ReturnToSender
<1>4. CASE Transform
  BY <1>0, <1>4 DEF Transform, SkipSample, ReturnToSender
<1>5. CASE Deliver
  BY <1>0, <1>5 DEF Deliver, ClearSkipped, ReturnToSender
<1>6. CASE DeliverEndOfStream
  BY <1>0, <1>6 DEF DeliverEndOfStream, ReturnToSender
<1>7. CASE Enters
  <2>1. /\ spc \notin {"transform", "deliver"} /\ spc' \notin {"transform", "deliver"}
        /\ UNCHANGED <<free, kept>>
    BY <1>7, Entering DEF EnterEffect
  <2> QED
    BY <2>1
<1>8. CASE DownstreamRelease
  BY <1>0, <1>8 DEF DownstreamRelease
<1>9. CASE DownstreamStop
  BY <1>0, <1>9 DEF DownstreamStop, NotFlushing
<1>10. CASE StopUnconnected \/ Stop \/ PauseAgain \/ Run \/ PauseUnconnected \/
   PauseRunning \/ Pause \/ BeginFlush \/ EndFlush \/ StopLocked \/ StartStreaming \/
   CommitOutput \/ EndFlushStep \/ UpstreamStart \/ UpstreamStop \/ UpstreamGetBuffer \/
   DownstreamPause \/ DownstreamRun
  BY <1>10 DEF StopUnconnected, Stop, PauseAgain, Run, PauseUnconnected, PauseRunning,
     Pause, BeginFlush, EndFlush, StopLocked, StartStreaming, CommitOutput, EndFlushStep,
     UpstreamStart, UpstreamStop, UpstreamGetBuffer, DownstreamPause, DownstreamRun,
     ClearMarks, DecommitInput, EndFlushOrder, NotFlushing, ReceiveLockFree, SendEosOnce,
     StopStreaming
<1> QED
  BY <1>1, <1>2, <1>3, <1>4, <1>5, <1>6, <1>7, <1>8, <1>9, <1>10 DEF TransformNext, Control,
     ControlStep, Stream, Neighbours, Enters

-----------------------------------------------------------------------------
(* Types, each kind apart from the others.                                 *)
PhaseTypes ==
  /\ m_Connected \subseteq {"in", "out"}
  /\ m_State \in {"Stopped", "Paused", "Running"}
  /\ op \in {"none", "Stop", "Pause", "Run", "BeginFlush", "EndFlush"}
  /\ step \in {"idle", "lockReceive", "commit", "deliver", "downstream", "unblock"}
  /\ m_csReceive \in {"free", "stream"}
  /\ spc \in {"idle", "type", "init", "transform", "deliver", "eos"}
  /\ downState \in {"Stopped", "Paused", "Running"}

FlagTypes ==
  /\ m_bFlushing \in BOOLEAN /\ m_bRunTimeError \in BOOLEAN /\ m_bEOSDelivered \in BOOLEAN
  /\ m_bSampleSkipped \in BOOLEAN /\ m_bQualityChanged \in BOOLEAN /\ skipped \in BOOLEAN
  /\ streaming \in BOOLEAN /\ prevSkipped \in BOOLEAN /\ inCommitted \in BOOLEAN
  /\ holding \in BOOLEAN /\ ended \in BOOLEAN /\ outCommitted \in BOOLEAN
  /\ downFlushing \in BOOLEAN

SampleType ==
  pSample \in [discontinuity : BOOLEAN, typeChanged : BOOLEAN, old : BOOLEAN]

LEMMA Returning ==
  ASSUME NEW ok \in BOOLEAN, ReturnToSender(ok)
  PROVE  /\ spc' = "idle" /\ m_csReceive' = "free" /\ inCommitted' = inCommitted
         /\ prevSkipped' \in BOOLEAN /\ holding' \in BOOLEAN /\ ended' \in BOOLEAN
         /\ SampleType'
<1>1. NoSample \in [discontinuity : BOOLEAN, typeChanged : BOOLEAN, old : BOOLEAN]
  BY DEF NoSample
<1>2. pSample' = NoSample
  BY DEF ReturnToSender
<1>3. SampleType'
  BY <1>1, <1>2 DEF SampleType
<1> QED
  BY <1>3 DEF ReturnToSender

LEMMA PhaseTypesKept ==
  ASSUME PhaseTypes, TransformNext PROVE PhaseTypes'
<1> USE DEF PhaseTypes, pins, control, marks, stream, upstream, pool, down
<1>1. CASE StopUnconnected
  BY <1>1 DEF StopUnconnected
<1>2. CASE Stop
  BY <1>2 DEF Stop, DecommitInput
<1>3. CASE PauseAgain
  BY <1>3 DEF PauseAgain, ClearMarks
<1>4. CASE Run
  BY <1>4 DEF Run
<1>5. CASE PauseUnconnected
  BY <1>5 DEF PauseUnconnected, SendEosOnce, ClearMarks
<1>6. CASE PauseRunning
  BY <1>6 DEF PauseRunning, ClearMarks
<1>7. CASE Pause
  BY <1>7 DEF Pause
<1>8. CASE BeginFlush
  BY <1>8 DEF BeginFlush
<1>9. CASE EndFlush
  BY <1>9 DEF EndFlush
<1>10. CASE StopLocked
  BY <1>10 DEF StopLocked, StopStreaming, Return
<1>11. CASE StartStreaming
  BY <1>11 DEF StartStreaming, ClearMarks, Return
<1>12. CASE CommitOutput
  BY <1>12 DEF CommitOutput, ClearMarks, Return
<1>13. CASE DeliverBeginFlush
  BY <1>13 DEF DeliverBeginFlush, FlushDownstream, Return
<1>14. CASE EndFlushStep
  BY <1>14 DEF EndFlushStep, EndFlushOrder, Return
<1>15. CASE CheckType
  BY <1>15 DEF CheckType, ReturnToSender
<1>16. CASE InitializeOutputSample
  BY <1>16 DEF InitializeOutputSample, ReturnToSender
<1>17. CASE Transform
  BY <1>17 DEF Transform, SkipSample, ReturnToSender
<1>18. CASE Deliver
  BY <1>18 DEF Deliver, ClearSkipped, ReturnToSender
<1>19. CASE DeliverEndOfStream
  BY <1>19 DEF DeliverEndOfStream, ReturnToSender
<1>20. CASE Enters
  BY <1>20, Entering DEF EnterEffect
<1>21. CASE UpstreamStart
  BY <1>21 DEF UpstreamStart
<1>22. CASE UpstreamStop
  BY <1>22 DEF UpstreamStop
<1>23. CASE UpstreamGetBuffer
  BY <1>23 DEF UpstreamGetBuffer
<1>24. CASE DownstreamRelease
  BY <1>24 DEF DownstreamRelease
<1>25. CASE DownstreamPause
  BY <1>25 DEF DownstreamPause
<1>26. CASE DownstreamRun
  BY <1>26 DEF DownstreamRun
<1>27. CASE DownstreamStop
  BY <1>27 DEF DownstreamStop
<1> QED
  BY <1>1, <1>2, <1>3, <1>4, <1>5, <1>6, <1>7, <1>8, <1>9, <1>10, <1>11, <1>12, <1>13,
     <1>14, <1>15, <1>16, <1>17, <1>18, <1>19, <1>20, <1>21, <1>22, <1>23, <1>24, <1>25,
     <1>26, <1>27
     DEF TransformNext, Control, ControlStep, Stream, Neighbours, Enters

LEMMA FlagTypesKept ==
  ASSUME FlagTypes, TransformNext PROVE FlagTypes'
<1> USE DEF FlagTypes, pins, control, marks, stream, upstream, pool, down
<1>1. CASE StopUnconnected
  BY <1>1, ZenonT(60) DEF StopUnconnected
<1>2. CASE Stop
  BY <1>2 DEF Stop, DecommitInput
<1>3. CASE PauseAgain
  BY <1>3 DEF PauseAgain, ClearMarks
<1>4. CASE Run
  BY <1>4 DEF Run
<1>5. CASE PauseUnconnected
  BY <1>5 DEF PauseUnconnected, SendEosOnce, ClearMarks
<1>6. CASE PauseRunning
  BY <1>6 DEF PauseRunning, ClearMarks
<1>7. CASE Pause
  BY <1>7 DEF Pause
<1>8. CASE BeginFlush
  BY <1>8 DEF BeginFlush
<1>9. CASE EndFlush
  BY <1>9 DEF EndFlush
<1>10. CASE StopLocked
  BY <1>10, ZenonT(60) DEF StopLocked, StopStreaming, Return
<1>11. CASE StartStreaming
  BY <1>11, ZenonT(60) DEF StartStreaming, ClearMarks, Return
<1>12. CASE CommitOutput
  BY <1>12 DEF CommitOutput, ClearMarks, Return
<1>13. CASE DeliverBeginFlush
  BY <1>13 DEF DeliverBeginFlush, FlushDownstream, Return
<1>14. CASE EndFlushStep
  BY <1>14, ZenonT(60) DEF EndFlushStep, EndFlushOrder, Return
<1>15. CASE CheckType
  <2>1. CASE pSample.typeChanged
    BY <1>15, <2>1, Returning DEF CheckType
  <2>2. CASE ~pSample.typeChanged
    BY <1>15, <2>2 DEF CheckType
  <2> QED
    BY <2>1, <2>2
<1>16. CASE InitializeOutputSample
  BY <1>16, ZenonT(60) DEF InitializeOutputSample, ReturnToSender
<1>17. CASE Transform
  <2>1. PICK hr \in TransformResults :
          \/ UNCHANGED <<marks, prevSkipped, upstream>>
          \/ SkipSample /\ skipped' = TRUE /\ ReturnToSender(TRUE)
          \/ /\ ReturnToSender(FALSE)
             /\ skipped' = FALSE /\ UNCHANGED <<m_bSampleSkipped, m_bQualityChanged>>
    BY <1>17 DEF Transform
  <2>2. UNCHANGED <<pins, control, outCommitted, downFlushing>>
    BY <1>17 DEF Transform
  <2>3. CASE UNCHANGED <<marks, prevSkipped, upstream>>
    BY <2>2, <2>3
  <2>4. CASE SkipSample /\ skipped' = TRUE /\ ReturnToSender(TRUE)
    BY <2>2, <2>4, Returning DEF SkipSample
  <2>5. CASE /\ ReturnToSender(FALSE)
             /\ skipped' = FALSE /\ UNCHANGED <<m_bSampleSkipped, m_bQualityChanged>>
    BY <2>2, <2>5, Returning
  <2> QED
    BY <2>1, <2>3, <2>4, <2>5
<1>18. CASE Deliver
  BY <1>18 DEF Deliver, ClearSkipped, ReturnToSender
<1>19. CASE DeliverEndOfStream
  BY <1>19 DEF DeliverEndOfStream, ReturnToSender
<1>20. CASE Enters
  <2>1. holding' \in BOOLEAN
    BY <1>20 DEF Enters, Receive, EndOfStream, Enter
  <2>2. ended' \in BOOLEAN
    BY <1>20, Entering DEF EnterEffect
  <2>3. /\ UNCHANGED <<m_bFlushing, m_bRunTimeError, m_bEOSDelivered, m_bSampleSkipped>>
        /\ UNCHANGED <<m_bQualityChanged, skipped, streaming, prevSkipped, inCommitted>>
        /\ UNCHANGED <<outCommitted, downFlushing>>
    BY <1>20, Entering DEF EnterEffect
  <2> QED
    BY <2>1, <2>2, <2>3
<1>21. CASE UpstreamStart
  BY <1>21 DEF UpstreamStart
<1>22. CASE UpstreamStop
  BY <1>22 DEF UpstreamStop
<1>23. CASE UpstreamGetBuffer
  BY <1>23 DEF UpstreamGetBuffer
<1>24. CASE DownstreamRelease
  BY <1>24 DEF DownstreamRelease
<1>25. CASE DownstreamPause
  BY <1>25 DEF DownstreamPause
<1>26. CASE DownstreamRun
  BY <1>26 DEF DownstreamRun
<1>27. CASE DownstreamStop
  BY <1>27, ZenonT(60) DEF DownstreamStop
<1> QED
  BY <1>1, <1>2, <1>3, <1>4, <1>5, <1>6, <1>7, <1>8, <1>9, <1>10, <1>11, <1>12, <1>13,
     <1>14, <1>15, <1>16, <1>17, <1>18, <1>19, <1>20, <1>21, <1>22, <1>23, <1>24, <1>25,
     <1>26, <1>27
     DEF TransformNext, Control, ControlStep, Stream, Neighbours, Enters

LEMMA SampleTypeKept ==
  ASSUME SampleType, TransformNext PROVE SampleType'
<1> USE DEF SampleType, pins, control, marks, stream, upstream, pool, down
<1>1. CASE StopUnconnected
  BY <1>1 DEF StopUnconnected
<1>2. CASE Stop
  BY <1>2 DEF Stop, DecommitInput
<1>3. CASE PauseAgain
  BY <1>3 DEF PauseAgain, ClearMarks
<1>4. CASE Run
  BY <1>4 DEF Run
<1>5. CASE PauseUnconnected
  BY <1>5 DEF PauseUnconnected, SendEosOnce, ClearMarks
<1>6. CASE PauseRunning
  BY <1>6 DEF PauseRunning, ClearMarks
<1>7. CASE Pause
  BY <1>7 DEF Pause
<1>8. CASE BeginFlush
  BY <1>8 DEF BeginFlush
<1>9. CASE EndFlush
  BY <1>9 DEF EndFlush
<1>10. CASE StopLocked
  BY <1>10 DEF StopLocked, StopStreaming, Return
<1>11. CASE StartStreaming
  BY <1>11 DEF StartStreaming, ClearMarks, Return
<1>12. CASE CommitOutput
  BY <1>12 DEF CommitOutput, ClearMarks, Return
<1>13. CASE DeliverBeginFlush
  BY <1>13 DEF DeliverBeginFlush, FlushDownstream, Return
<1>14. CASE EndFlushStep
  BY <1>14 DEF EndFlushStep, EndFlushOrder, Return
<1>15. CASE CheckType
  <2>1. pSample' = pSample \/ \E ok \in BOOLEAN : ReturnToSender(ok)
    BY <1>15 DEF CheckType
  <2> QED
    BY <2>1, Returning
<1>16. CASE InitializeOutputSample
  <2>1. pSample' = pSample \/ \E ok \in BOOLEAN : ReturnToSender(ok)
    BY <1>16 DEF InitializeOutputSample
  <2> QED
    BY <2>1, Returning
<1>17. CASE Transform
  <2>1. pSample' = pSample \/ \E ok \in BOOLEAN : ReturnToSender(ok)
    BY <1>17 DEF Transform
  <2> QED
    BY <2>1, Returning
<1>18. CASE Deliver
  <2>1. pSample' = pSample \/ \E ok \in BOOLEAN : ReturnToSender(ok)
    BY <1>18 DEF Deliver
  <2> QED
    BY <2>1, Returning
<1>19. CASE DeliverEndOfStream
  <2>1. pSample' = pSample \/ \E ok \in BOOLEAN : ReturnToSender(ok)
    BY <1>19 DEF DeliverEndOfStream
  <2> QED
    BY <2>1, Returning
<1>20. CASE Receive
  <2>1. PICK d, t \in BOOLEAN :
          Enter("type", [discontinuity |-> d, typeChanged |-> t, old |-> FALSE])
    BY <1>20 DEF Receive
  <2>2. pSample' = pSample \/ pSample' = [discontinuity |-> d, typeChanged |-> t, old |-> FALSE]
    BY <2>1 DEF Enter
  <2>3. [discontinuity |-> d, typeChanged |-> t, old |-> FALSE]
          \in [discontinuity : BOOLEAN, typeChanged : BOOLEAN, old : BOOLEAN]
    OBVIOUS
  <2>4. CASE pSample' = pSample
    BY <2>4
  <2>5. CASE pSample' = [discontinuity |-> d, typeChanged |-> t, old |-> FALSE]
    <3> DEFINE s == [discontinuity |-> d, typeChanged |-> t, old |-> FALSE]
    <3> HIDE DEF s
    <3>1. pSample' = s /\ s \in [discontinuity : BOOLEAN, typeChanged : BOOLEAN, old : BOOLEAN]
      BY <2>3, <2>5 DEF s
    <3> QED
      BY <3>1
  <2> QED
    BY <2>2, <2>4, <2>5
<1>21. CASE EndOfStream
  <2>1. pSample' = pSample \/ pSample' = NoSample
    BY <1>21 DEF EndOfStream, Enter
  <2>2. NoSample \in [discontinuity : BOOLEAN, typeChanged : BOOLEAN, old : BOOLEAN]
    BY DEF NoSample
  <2> QED
    BY <2>1, <2>2
<1>22. CASE UpstreamStart
  BY <1>22 DEF UpstreamStart
<1>23. CASE UpstreamStop
  BY <1>23 DEF UpstreamStop
<1>24. CASE UpstreamGetBuffer
  BY <1>24 DEF UpstreamGetBuffer
<1>25. CASE DownstreamRelease
  BY <1>25 DEF DownstreamRelease
<1>26. CASE DownstreamPause
  BY <1>26 DEF DownstreamPause
<1>27. CASE DownstreamRun
  BY <1>27 DEF DownstreamRun
<1>28. CASE DownstreamStop
  BY <1>28 DEF DownstreamStop
<1> QED
  BY <1>1, <1>2, <1>3, <1>4, <1>5, <1>6, <1>7, <1>8, <1>9, <1>10, <1>11, <1>12, <1>13,
     <1>14, <1>15, <1>16, <1>17, <1>18, <1>19, <1>20, <1>21, <1>22, <1>23, <1>24, <1>25,
     <1>26, <1>27, <1>28
     DEF TransformNext, Control, ControlStep, Stream, Neighbours

LEMMA CountsKept ==
  ASSUME TransformTypeOK, TransformNext PROVE free' \in Nat /\ kept' \in Nat
<1> USE DEF pins, control, marks, stream, upstream, pool, down
<1>0. free \in Nat /\ kept \in Nat
  BY Numbers
<1>1. CASE DeliverBeginFlush
  BY <1>0, <1>1 DEF DeliverBeginFlush, FlushDownstream
<1>2. CASE InitializeOutputSample
  <2>1. kept' = kept
    BY <1>2 DEF InitializeOutputSample
  <2>2. free' = free \/ (free > 0 /\ free' = free - 1)
    BY <1>2 DEF InitializeOutputSample
  <2> QED
    BY <1>0, <2>1, <2>2
<1>3. CASE Transform
  <2>1. kept' = kept /\ (free' = free \/ free' = free + 1)
    BY <1>3 DEF Transform, SkipSample
  <2> QED
    BY <1>0, <2>1
<1>4. CASE Deliver
  <2>1. /\ kept' = kept \/ kept' = kept + 1
        /\ free' = free \/ free' = free + 1
    BY <1>4 DEF Deliver
  <2> QED
    BY <1>0, <2>1
<1>5. CASE DownstreamRelease
  BY <1>0, <1>5 DEF DownstreamRelease
<1>6. CASE DownstreamStop
  BY <1>0, <1>6 DEF DownstreamStop
<1>7. CASE Enters
  BY <1>0, <1>7, Entering DEF EnterEffect
<1>8. CASE StopUnconnected \/ Stop \/ PauseAgain \/ Run \/ PauseUnconnected \/
   PauseRunning \/ Pause \/ BeginFlush \/ EndFlush \/ StopLocked \/ StartStreaming \/
   CommitOutput \/ EndFlushStep \/ CheckType \/ DeliverEndOfStream \/ UpstreamStart \/
   UpstreamStop \/ UpstreamGetBuffer \/ DownstreamPause \/ DownstreamRun
  <2>1. UNCHANGED <<free, kept>>
    BY <1>8 DEF StopUnconnected, Stop, PauseAgain, Run, PauseUnconnected, PauseRunning,
       Pause, BeginFlush, EndFlush, StopLocked, StartStreaming, CommitOutput, EndFlushStep,
       CheckType, DeliverEndOfStream, UpstreamStart, UpstreamStop, UpstreamGetBuffer,
       DownstreamPause, DownstreamRun
  <2> QED
    BY <1>0, <2>1
<1> QED
  BY <1>1, <1>2, <1>3, <1>4, <1>5, <1>6, <1>7, <1>8
     DEF TransformNext, Control, ControlStep, Stream, Neighbours, Enters

LEMMA TypeParts == TransformTypeOK => PhaseTypes /\ FlagTypes /\ SampleType
<1> SUFFICES ASSUME TransformTypeOK PROVE PhaseTypes /\ FlagTypes /\ SampleType
  OBVIOUS
<1>1. PhaseTypes
  BY DEF TransformTypeOK, PhaseTypes
<1>2. FlagTypes
  BY DEF TransformTypeOK, FlagTypes
<1>3. SampleType
  BY DEF TransformTypeOK, SampleType
<1> QED
  BY <1>1, <1>2, <1>3

CountTypes == free \in Nat /\ kept \in Nat /\ eosCount \in Nat

Parts == PhaseTypes /\ FlagTypes /\ SampleType /\ SamplesAccounted /\ CountTypes

LEMMA TypeWhole == Parts => TransformTypeOK
<1> SUFFICES ASSUME Parts PROVE TransformTypeOK
  OBVIOUS
<1>1. free \in 0 .. NBuffers /\ kept \in 0 .. NBuffers
  BY NBuffersPositive DEF Parts, CountTypes, SamplesAccounted
<1>2. {m_bFlushing, m_bRunTimeError, m_bEOSDelivered, m_bSampleSkipped,
       m_bQualityChanged, skipped, streaming, prevSkipped, inCommitted, holding, ended,
       outCommitted, downFlushing} \subseteq BOOLEAN
  BY DEF Parts, FlagTypes
<1> QED
  BY <1>1, <1>2 DEF Parts, TransformTypeOK, PhaseTypes, SampleType, CountTypes

-----------------------------------------------------------------------------
(* The inductive invariant.                                                *)
TransformInv ==
  /\ TransformTypeOK /\ WhereInv /\ QuietInv /\ StreamingInv
  /\ FlushInv /\ SkipInv /\ EosInv /\ SamplesAccounted

LEMMA TransformInvInit == TransformInit => TransformInv
<1> SUFFICES ASSUME TransformInit PROVE TransformInv
  OBVIOUS
<1>1. SamplesAccounted /\ CountTypes
  BY NBuffersPositive DEF TransformInit, SamplesAccounted, CountTypes
<1>2. PhaseTypes
  BY DEF TransformInit, PhaseTypes
<1>3. FlagTypes
  BY DEF TransformInit, FlagTypes
<1>4. SampleType
  BY DEF TransformInit, SampleType, NoSample
<1>5. TransformTypeOK
  BY <1>1, <1>2, <1>3, <1>4, TypeWhole DEF Parts
<1>6. WhereInv /\ QuietInv /\ StreamingInv
  BY DEF TransformInit, WhereInv, QuietInv, StreamingInv
<1>7. FlushInv /\ SkipInv /\ EosInv
  BY DEF TransformInit, FlushInv, SkipInv, EosInv
<1> QED
  BY <1>1, <1>5, <1>6, <1>7 DEF TransformInv

LEMMA TransformInvNext == TransformInv /\ TransformNext => TransformInv'
<1> SUFFICES ASSUME TransformInv, TransformNext PROVE TransformInv'
  OBVIOUS
<1>0. /\ TransformTypeOK /\ WhereInv /\ QuietInv /\ StreamingInv
      /\ FlushInv /\ SkipInv /\ EosInv /\ SamplesAccounted
  BY DEF TransformInv
<1>1. WhereInv' /\ QuietInv' /\ StreamingInv'
  BY <1>0, PlaceInvKept, QuietInvKept, StreamingInvKept
<1>2. FlushInv' /\ SkipInv'
  BY <1>0, FlushInvKept, SkipInvKept
<1>3. EosInv' /\ SamplesAccounted'
  BY <1>0, EosInvKept, SamplesAccountedKept
<1>4. PhaseTypes' /\ FlagTypes' /\ SampleType'
  BY <1>0, TypeParts, PhaseTypesKept, FlagTypesKept, SampleTypeKept
<1>5. CountTypes'
  BY <1>0, <1>3, CountsKept DEF EosInv, CountTypes
<1>6. Parts'
  BY <1>3, <1>4, <1>5 DEF Parts
<1>7. TransformTypeOK'
  BY <1>6, TypeWhole, PTL
<1> QED
  BY <1>1, <1>2, <1>3, <1>7 DEF TransformInv

LEMMA StutterIInv == TransformInv /\ UNCHANGED transformVars => TransformInv'
<1> SUFFICES ASSUME TransformInv, UNCHANGED transformVars PROVE TransformInv'
  OBVIOUS
<1> USE DEF TransformInv, transformVars, pins, control, marks, stream, upstream, pool, down
<1>1. TransformTypeOK'
  BY DEF TransformTypeOK
<1>2. WhereInv' /\ QuietInv' /\ StreamingInv'
  BY DEF WhereInv, QuietInv, StreamingInv, Joined
<1>3. FlushInv' /\ SamplesAccounted'
  BY DEF FlushInv, SamplesAccounted
<1>4. SkipInv'
  BY DEF SkipInv
<1>5. EosInv'
  BY DEF EosInv, Joined
<1> QED
  BY <1>1, <1>2, <1>3, <1>4, <1>5

LEMMA Invariance == TransformSpec => []TransformInv
BY TransformInvInit, TransformInvNext, StutterIInv, PTL DEF TransformSpec

-----------------------------------------------------------------------------
(* Every variable keeps its type: in particular the allocator never has    *)
(* more samples than it was made with, nor fewer than none.                *)
THEOREM TransformTypeCorrect == TransformSpec => []TransformTypeOK
<1>1. TransformInv => TransformTypeOK
  BY DEF TransformInv
<1> QED
  BY <1>1, Invariance, PTL

(* No way out of CTransformFilter::Receive loses an output sample or       *)
(* releases it twice, whatever Transform returns and however calls of the  *)
(* control thread come in between.                                         *)
THEOREM NoSampleLost == TransformSpec => []SamplesAccounted
<1>1. TransformInv => SamplesAccounted
  BY DEF TransformInv
<1> QED
  BY <1>1, Invariance, PTL

(* Stop, with its two locks, leaves no Receive behind and no sample out of *)
(* the allocator.                                                          *)
THEOREM StopIsComplete == TransformSpec => []QuietWhenStopped
<1>1. TransformInv => QuietWhenStopped
  <2> SUFFICES ASSUME TransformInv, m_State = "Stopped" PROVE QuietWhenStopped
    BY DEF QuietWhenStopped
  <2>1. spc = "idle" /\ ~outCommitted
    BY DEF TransformInv, QuietInv
  <2>2. downState = "Stopped" => kept = 0
    BY DEF TransformInv, QuietInv
  <2>3. downState = "Stopped" => free = NBuffers
    BY <2>1, <2>2, Numbers, NBuffersPositive DEF TransformInv, SamplesAccounted
  <2> QED
    BY <2>1, <2>3 DEF QuietWhenStopped
<1> QED
  BY <1>1, Invariance, PTL

(* Calls return only from their own last steps: Stop from StopLocked.      *)
LEMMA StopReturns ==
  ASSUME WhereInv, TransformNext, op' # op PROVE op = "Stop" => StopLocked
<1> SUFFICES ASSUME op = "Stop" PROVE StopLocked
  OBVIOUS
<1>1. ~Control
  BY DEF Control, Idle, StopUnconnected, Stop, PauseAgain, Run, PauseUnconnected,
     PauseRunning, Pause, BeginFlush, EndFlush
<1>2. ~Stream
  BY DEF Stream, CheckType, InitializeOutputSample, Transform, Deliver,
     DeliverEndOfStream, control
<1>3. ~Neighbours
  <2>1. ~Enters
    BY Entering DEF EnterEffect
  <2>2. ~(UpstreamStart \/ UpstreamStop \/ UpstreamGetBuffer \/ DownstreamRelease)
    BY DEF UpstreamStart, UpstreamStop, UpstreamGetBuffer, DownstreamRelease, control
  <2>3. ~(DownstreamPause \/ DownstreamRun \/ DownstreamStop)
    BY DEF DownstreamPause, DownstreamRun, DownstreamStop, control
  <2> QED
    BY <2>1, <2>2, <2>3 DEF Neighbours, Enters
<1>4. ~(StartStreaming \/ CommitOutput \/ DeliverBeginFlush \/ EndFlushStep)
  BY DEF StartStreaming, CommitOutput, DeliverBeginFlush, EndFlushStep, WhereInv
<1> QED
  BY <1>1, <1>2, <1>3, <1>4 DEF TransformNext, ControlStep

LEMMA ConnectionKept == TransformNext => m_Connected' = m_Connected
<1> SUFFICES ASSUME TransformNext PROVE m_Connected' = m_Connected
  OBVIOUS
<1>1. CASE Control
  BY <1>1 DEF Control, StopUnconnected, Stop, PauseAgain, Run, PauseUnconnected,
     PauseRunning, Pause, BeginFlush, EndFlush, pins
<1>2. CASE ControlStep
  BY <1>2 DEF ControlStep, StopLocked, StartStreaming, CommitOutput, DeliverBeginFlush,
     EndFlushStep, pins
<1>3. CASE Stream
  BY <1>3 DEF Stream, CheckType, InitializeOutputSample, Transform, Deliver,
     DeliverEndOfStream, pins
<1>4. CASE Enters
  BY <1>4, Entering DEF EnterEffect
<1>5. CASE UpstreamStart \/ UpstreamStop \/ UpstreamGetBuffer \/ DownstreamRelease \/
   DownstreamPause \/ DownstreamRun \/ DownstreamStop
  BY <1>5 DEF UpstreamStart, UpstreamStop, UpstreamGetBuffer, DownstreamRelease,
     DownstreamPause, DownstreamRun, DownstreamStop, pins
<1> QED
  BY <1>1, <1>2, <1>3, <1>4, <1>5 DEF TransformNext, Neighbours, Enters

(* The derived class sees StartStreaming before the filter is active, and  *)
(* StopStreaming before a Stop completes.                                  *)
THEOREM StreamingIsPaired == TransformSpec => StreamingPaired
<1> DEFINE Paired == Joined /\ op' = "none" =>
                       /\ m_State' # "Stopped" => streaming'
                       /\ op = "Stop" /\ m_State' = "Stopped" => ~streaming'
<1>1. TransformInv /\ TransformInv' /\ [TransformNext]_transformVars => [Paired]_transformVars
  <2> SUFFICES ASSUME TransformInv, TransformInv', TransformNext, Joined, op' = "none"
               PROVE  /\ m_State' # "Stopped" => streaming'
                      /\ op = "Stop" /\ m_State' = "Stopped" => ~streaming'
    OBVIOUS
  <2>1. m_Connected' = m_Connected
    BY ConnectionKept
  <2>2. m_State' # "Stopped" => streaming'
    BY <2>1 DEF TransformInv, StreamingInv, Joined
  <2>3. op = "Stop" /\ m_State' = "Stopped" => ~streaming'
    <3>1. SUFFICES ASSUME op = "Stop", m_State' = "Stopped" PROVE ~streaming'
      OBVIOUS
    <3>2. StopLocked
      BY <3>1, StopReturns DEF TransformInv
    <3>3. m_State # "Stopped"
      BY <3>1 DEF TransformInv, WhereInv
    <3> QED
      BY <3>1, <3>2, <3>3 DEF StopLocked, StopStreaming
  <2> QED
    BY <2>2, <2>3
<1> QED
  BY <1>1, Invariance, PTL DEF TransformSpec, StreamingPaired

(* Downstream refuses for a flush only what this pin received before the   *)
(* flush.                                                                  *)
THEOREM FlushKeepsNewSamples == TransformSpec => []FlushLosesOnlyOldSamples
<1>1. TransformInv => FlushLosesOnlyOldSamples
  BY DEF TransformInv, FlushInv, FlushLosesOnlyOldSamples
<1> QED
  BY <1>1, Invariance, PTL

(* The next sample delivered after skipped ones says so to GetBuffer.      *)
THEOREM SkipsAreReported == TransformSpec => []SkipIsReported
<1>1. TransformInv => SkipIsReported
  BY DEF TransformInv, SkipInv, SkipIsReported
<1> QED
  BY <1>1, Invariance, PTL

(* One stream has one end, whichever of EndOfStream and Pause sends it.    *)
THEOREM OneEndOfStream == TransformSpec => []EosAtMostOnce
<1>1. TransformInv => EosAtMostOnce
  BY DEF TransformInv, EosInv, EosAtMostOnce
<1> QED
  BY <1>1, Invariance, PTL

(* All of it together, for any number of samples, results and faults.      *)
THEOREM TransformIsSafe == TransformSpec => []TransformSafety
<1>1. TransformTypeOK /\ SamplesAccounted /\ QuietWhenStopped /\ FlushLosesOnlyOldSamples
        /\ SkipIsReported /\ EosAtMostOnce => TransformSafety
  BY DEF TransformSafety
<1> QED
  BY <1>1, TransformTypeCorrect, NoSampleLost, StopIsComplete, FlushKeepsNewSamples,
     SkipsAreReported, OneEndOfStream, PTL
=============================================================================
