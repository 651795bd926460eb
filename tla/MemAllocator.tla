---------------------------- MODULE MemAllocator ----------------------------
(***************************************************************************)
(* The shared memory allocator of the DirectShow base classes:             *)
(* CBaseAllocator, CMemAllocator and the life of its CMediaSamples         *)
(* (src/SDK/BaseClasses/amfilter.cpp).  One allocator object, used by the  *)
(* threads of the two connected filters.  A critical section of the        *)
(* allocator (CAutoLock this) is one step; what the code does outside the  *)
(* lock, before and after it, is a step of its own, so that the gaps in    *)
(* which another thread may run are the gaps of the code.                  *)
(*                                                                         *)
(* Samples are the numbers 1..m_lAllocated; the free list is a set, since  *)
(* no property depends on its order.                                       *)
(***************************************************************************)
EXTENDS Integers, FiniteSets

CONSTANTS Threads,      \* the streaming and application threads
          MaxBuffers,   \* bound: the largest buffer count a client asks for
          MaxCredit     \* bound: wakeups that AM_GBF_NOWAIT callers leave behind

ASSUME ThreadsFinite == IsFiniteSet(Threads)
ASSUME BoundsAreNat == MaxBuffers \in Nat /\ MaxCredit \in Nat

VARIABLES
  m_bCommitted,           \* BOOL (1 or 0): GetBuffer may hand out samples
  m_bDecommitInProgress,  \* BOOL: decommitted, last sample still to come home
  m_bChanged,             \* BOOL: properties set since the last allocation
  m_lCount,               \* buffers asked for by SetProperties
  m_lAllocated,           \* samples that exist
  m_pBuffer,              \* sample slots in the block it points to, 0 for NULL
  m_lFree,                \* the free list
  m_lWaiting,             \* waiters not yet notified
  m_hSem,                 \* count of the semaphore they wait on
  m_cRef,                 \* COM reference count of the allocator
  sampleRef,              \* m_cRef of every sample
  pc,                     \* where every thread is
  cur,                    \* local pSample of the call in progress, 0 if none
  bRelease,               \* the threads whose local bRelease is TRUE
  held,                   \* references to samples a thread owns
  clients                 \* the threads that own a reference to the allocator

poolState == <<m_bCommitted, m_bDecommitInProgress, m_bChanged, m_lCount,
               m_lAllocated, m_pBuffer, m_lFree>>
waitState == <<m_lWaiting, m_hSem>>
lifeState == <<m_cRef, clients>>
vars == <<poolState, waitState, lifeState, sampleRef, pc, cur, bRelease, held>>

Samples == 1..MaxBuffers

(* The creator holds the first reference; nothing is allocated yet.        *)
Init ==
  /\ m_bCommitted = 0 /\ m_bDecommitInProgress = 0
  /\ m_bChanged = 0 /\ m_lCount = 0
  /\ m_lAllocated = 0 /\ m_pBuffer = 0 /\ m_lFree = {}
  /\ m_lWaiting = 0 /\ m_hSem = 0
  /\ \E creator \in Threads : clients = {creator}
  /\ m_cRef = 1
  /\ sampleRef = [s \in Samples |-> 0]
  /\ pc = [t \in Threads |-> "idle"]
  /\ cur = [t \in Threads |-> 0]
  /\ bRelease = {}
  /\ held = [t \in Threads |-> {}]

(***************************************************************************)
(* Helpers                                                                 *)
(***************************************************************************)

Committed == m_bCommitted # 0
DecommitPending == m_bDecommitInProgress # 0

(* The destructor has not run.                                             *)
alive == m_cRef > 0

(* A COM client calls the allocator through a reference it owns.           *)
MayCall(t) == pc[t] = "idle" /\ t \in clients

GoTo(t, label) == pc' = [pc EXCEPT ![t] = label]

(* Mutant: ReleaseSemaphore by one, as if there were never two waiters.    *)
NotifyOne ==
  /\ m_hSem' = m_hSem + (IF m_lWaiting > 0 THEN 1 ELSE 0)
  /\ m_lWaiting' = 0

(* NotifySample: wake every waiter recorded since the last notification.   *)
NotifySample == m_hSem' = m_hSem + m_lWaiting /\ m_lWaiting' = 0

(* Mutant: an off-by-one that forgets one sample.                          *)
OutstandingButOne == Cardinality(m_lFree) + 1 < m_lAllocated

(* m_lFree.GetCount() < m_lAllocated: some sample is not home.             *)
Outstanding == Cardinality(m_lFree) < m_lAllocated

(* CUnknown release; the last one runs ~CMemAllocator: its Decommit finds  *)
(* nothing to do (see DestroyedWhenQuiet) and ReallyFree deletes samples.  *)
ReleaseAllocator ==
  /\ m_cRef' = m_cRef - 1
  /\ IF m_cRef = 1
     THEN m_lFree' = {} /\ m_lAllocated' = 0 /\ m_pBuffer' = 0
     ELSE UNCHANGED <<m_lFree, m_lAllocated, m_pBuffer>>

(***************************************************************************)
(* GetBuffer                                                               *)
(***************************************************************************)

(* The locked part of the loop: fail with VFW_E_NOT_COMMITTED,             *)
Refuse(t) ==
  /\ ~Committed
  /\ GoTo(t, "idle")
  /\ UNCHANGED <<m_lFree, m_lWaiting, cur>>

(* take a sample off the free list,                                        *)
TakeSample(t) ==
  /\ Committed
  /\ \E s \in m_lFree : /\ m_lFree' = m_lFree \ {s}
                        /\ cur' = [cur EXCEPT ![t] = s]
  /\ GoTo(t, "gotSample")
  /\ UNCHANGED m_lWaiting

(* or SetWaiting, and then wait or return VFW_E_TIMEOUT.                   *)
SetWaiting(t, dwFlags) ==
  /\ Committed
  /\ m_lFree = {}
  /\ dwFlags = "NOWAIT" => m_hSem + m_lWaiting < MaxCredit
  /\ m_lWaiting' = m_lWaiting + 1
  /\ GoTo(t, IF dwFlags = "NOWAIT" THEN "idle" ELSE "waiting")
  /\ UNCHANGED <<m_lFree, cur>>

TryGet(t, dwFlags) == Refuse(t) \/ TakeSample(t) \/ SetWaiting(t, dwFlags)

getBufferFrame == <<m_bCommitted, m_bDecommitInProgress, m_bChanged, m_lCount,
                    m_lAllocated, m_pBuffer, m_hSem, lifeState, sampleRef,
                    bRelease, held>>

(* A thread does not block for a sample while it keeps one of this         *)
(* allocator to itself; with AM_GBF_NOWAIT it may try.                     *)
GetBuffer(t) ==
  /\ MayCall(t)
  /\ \E dwFlags \in {"NOWAIT", "WAIT"} :
       (dwFlags = "NOWAIT" \/ held[t] = {}) /\ TryGet(t, dwFlags)
  /\ UNCHANGED getBufferFrame

(* WaitForSingleObject(m_hSem, INFINITE) returns.                          *)
Wake(t) ==
  /\ pc[t] = "waiting" /\ m_hSem > 0
  /\ m_hSem' = m_hSem - 1
  /\ GoTo(t, "retry")
  /\ UNCHANGED <<poolState, m_lWaiting, lifeState, sampleRef, cur, bRelease, held>>

GetBufferAgain(t) ==
  /\ pc[t] = "retry"
  /\ TryGet(t, "WAIT")
  /\ UNCHANGED getBufferFrame

(* Outside the lock: pSample->m_cRef = 1, and the caller owns the sample.  *)
GetBufferReturn(t) ==
  /\ pc[t] = "gotSample"
  /\ sampleRef' = [sampleRef EXCEPT ![cur[t]] = 1]
  /\ held' = [held EXCEPT ![t] = @ \union {cur[t]}]
  /\ cur' = [cur EXCEPT ![t] = 0]
  /\ GoTo(t, "idle")
  /\ UNCHANGED <<poolState, waitState, lifeState, bRelease>>

(***************************************************************************)
(* CMediaSample::AddRef and Release, CBaseAllocator::ReleaseBuffer         *)
(***************************************************************************)

(* A filter keeps the sample it was given: a second reference.             *)
AddRefSample(t, u, s) ==
  /\ pc[t] = "idle" /\ pc[u] = "idle"
  /\ s \in held[t] /\ s \notin held[u]
  /\ sampleRef' = [sampleRef EXCEPT ![s] = @ + 1]
  /\ held' = [held EXCEPT ![u] = @ \union {s}]
  /\ UNCHANGED <<poolState, waitState, lifeState, pc, cur, bRelease>>

(* Mutant: the fast path is taken with a second reference still out.       *)
LooksLastTooEarly(s) == sampleRef[s] <= 2

(* m_cRef == 1, read without the interlock.                                *)
LooksLast(s) == sampleRef[s] = 1

(* Release looks at the count without the interlock first.                 *)
ReleaseSample(t, s) ==
  /\ pc[t] = "idle" /\ s \in held[t]
  /\ cur' = [cur EXCEPT ![t] = s]
  /\ GoTo(t, IF LooksLast(s) THEN "setZero" ELSE "decrement")
  /\ UNCHANGED <<poolState, waitState, lifeState, sampleRef, bRelease, held>>

ReleaseLast(t) ==
  /\ pc[t] = "setZero"
  /\ sampleRef' = [sampleRef EXCEPT ![cur[t]] = 0]
  /\ held' = [held EXCEPT ![t] = @ \ {cur[t]}]
  /\ GoTo(t, "releaseBuffer")
  /\ UNCHANGED <<poolState, waitState, lifeState, cur, bRelease>>

ReleaseDecrement(t) ==
  LET lRef == sampleRef[cur[t]] - 1 IN
  /\ pc[t] = "decrement"
  /\ sampleRef' = [sampleRef EXCEPT ![cur[t]] = lRef]
  /\ held' = [held EXCEPT ![t] = @ \ {cur[t]}]
  /\ GoTo(t, IF lRef = 0 THEN "releaseBuffer" ELSE "idle")
  /\ cur' = [cur EXCEPT ![t] = IF lRef = 0 THEN @ ELSE 0]
  /\ UNCHANGED <<poolState, waitState, lifeState, bRelease>>

(* The locked part of ReleaseBuffer: requeue, notify, complete a pending   *)
(* decommit with the last sample.                                          *)
ReleaseBuffer(t) ==
  /\ pc[t] = "releaseBuffer"
  /\ m_lFree' = m_lFree \union {cur[t]}
  /\ NotifySample
  /\ LET last == DecommitPending /\ Cardinality(m_lFree') = m_lAllocated IN
       /\ m_bDecommitInProgress' = IF last THEN 0 ELSE m_bDecommitInProgress
       /\ bRelease' = IF last THEN bRelease \union {t} ELSE bRelease
  /\ cur' = [cur EXCEPT ![t] = 0]
  /\ GoTo(t, "readNotify")
  /\ UNCHANGED <<m_bCommitted, m_bChanged, m_lCount, m_lAllocated, m_pBuffer,
                 lifeState, sampleRef, held>>

(* if (m_pNotify) ...: the object is read again, without its lock.  If it  *)
(* has been destroyed meanwhile the read is undefined: it may find the old *)
(* NULL or lead into freed memory.                                         *)
ReadNotify(t) ==
  /\ pc[t] = "readNotify"
  /\ \/ GoTo(t, IF t \in bRelease THEN "release" ELSE "idle")
     \/ ~alive /\ GoTo(t, "crashed")
  /\ UNCHANGED <<poolState, waitState, lifeState, sampleRef, cur, bRelease, held>>

(* if (bRelease) Release(): the allocator's reference to itself.           *)
ReleaseSelf(t) ==
  /\ pc[t] \in {"release", "drop"} /\ t \in bRelease
  /\ ReleaseAllocator
  /\ bRelease' = bRelease \ {t}
  /\ GoTo(t, IF pc[t] = "drop" THEN "drop" ELSE "idle")
  /\ UNCHANGED <<m_bCommitted, m_bDecommitInProgress, m_bChanged, m_lCount,
                 waitState, clients, sampleRef, cur, held>>

(***************************************************************************)
(* SetProperties, Commit, Decommit                                         *)
(***************************************************************************)

(* Refused while committed or with samples outstanding.  The buffer count  *)
(* stands for the request: 0 is a request Alloc will reject.               *)
SetProperties(t) ==
  /\ MayCall(t)
  /\ ~Committed /\ ~Outstanding
  /\ m_lCount' \in 0..MaxBuffers
  /\ m_bChanged' = 1
  /\ UNCHANGED <<m_bCommitted, m_bDecommitInProgress, m_lAllocated, m_pBuffer,
                 m_lFree, waitState, lifeState, sampleRef, pc, cur, bRelease, held>>

(* Mutant: the change is forgotten even though the allocation failed.      *)
ForgetChange(hr) == m_bChanged' = 0

(* Only a complete allocation clears m_bChanged; a failed one is retried.  *)
ClearChanged(hr) == m_bChanged' = IF hr = "OK" THEN 0 ELSE 1

(* Mutant: the loop over the samples runs once too often.                  *)
SamplesCreatedOver(slots) == 0..(slots + 1)

(* new may fail after any number of samples.                               *)
SamplesCreated(slots) == 0..slots

(* CMemAllocator::Alloc with its result: size not set; requirements        *)
(* unchanged (S_FALSE); or the old memory is freed and VirtualAlloc fails, *)
(* or some or all of the samples are created in the new block.             *)
Alloc(hr) ==
  \/ /\ m_lCount = 0 /\ hr = "FAILED"
     /\ UNCHANGED <<m_lAllocated, m_lFree, m_pBuffer, m_bChanged>>
  \/ /\ m_lCount > 0 /\ m_bChanged = 0 /\ hr = "OK"
     /\ UNCHANGED <<m_lAllocated, m_lFree, m_pBuffer, m_bChanged>>
  \/ /\ m_lCount > 0 /\ m_bChanged # 0
     /\ m_pBuffer' \in {0, m_lCount}
     /\ m_lAllocated' \in SamplesCreated(m_pBuffer')
     /\ m_lFree' = 1..m_lAllocated'
     /\ hr = IF m_lAllocated' = m_lCount THEN "OK" ELSE "FAILED"
     /\ ClearChanged(hr)

(* Mutant: the pending decommit is not cancelled.                          *)
CommitKeepingDecommit ==
  /\ DecommitPending
  /\ m_bCommitted' = 1
  /\ UNCHANGED <<m_bDecommitInProgress, m_lAllocated, m_lFree, m_pBuffer,
                 m_bChanged, m_cRef>>

(* A decommit still in progress is cancelled, and with it the release of   *)
(* the self reference it owed.                                             *)
CommitCancelsDecommit ==
  /\ DecommitPending
  /\ m_bCommitted' = 1
  /\ m_bDecommitInProgress' = 0
  /\ UNCHANGED <<m_lAllocated, m_lFree, m_pBuffer, m_bChanged, m_cRef>>

(* Otherwise allocate, and take a self reference if that succeeds.         *)
CommitAllocates(hr) ==
  /\ ~DecommitPending
  /\ Alloc(hr)
  /\ m_bCommitted' = IF hr = "OK" THEN 1 ELSE 0
  /\ m_cRef' = IF hr = "OK" THEN m_cRef + 1 ELSE m_cRef
  /\ UNCHANGED m_bDecommitInProgress

Commit(t) ==
  /\ MayCall(t)
  /\ ~Committed
  /\ CommitCancelsDecommit \/ \E hr \in {"OK", "FAILED"} : CommitAllocates(hr)
  /\ UNCHANGED <<m_lCount, waitState, clients, sampleRef, pc, cur, bRelease, held>>

(* Nothing to do if already decommitted; else complete now or leave it to  *)
(* the last ReleaseBuffer, and wake the waiters so they can be rejected.   *)
DecommitLocked(t) ==
  IF Committed \/ DecommitPending
  THEN /\ m_bCommitted' = 0
       /\ m_bDecommitInProgress' = IF Outstanding THEN 1 ELSE 0
       /\ bRelease' = IF Outstanding THEN bRelease ELSE bRelease \union {t}
       /\ NotifySample
  ELSE UNCHANGED <<m_bCommitted, m_bDecommitInProgress, bRelease, waitState>>

decommitFrame == <<m_bChanged, m_lCount, m_lAllocated, m_pBuffer, m_lFree,
                   lifeState, sampleRef, cur, held>>

Decommit(t) ==
  /\ MayCall(t)
  /\ Committed \/ DecommitPending
  /\ DecommitLocked(t)
  /\ GoTo(t, IF Outstanding THEN "idle" ELSE "release")
  /\ UNCHANGED decommitFrame

(***************************************************************************)
(* The clients' references to the allocator                                *)
(***************************************************************************)

(* NotifyAllocator, GetAllocator: a pin hands the allocator to another.    *)
ShareAllocator(t, u) ==
  /\ MayCall(t) /\ u \notin clients
  /\ m_cRef' = m_cRef + 1
  /\ clients' = clients \union {u}
  /\ UNCHANGED <<poolState, waitState, sampleRef, pc, cur, bRelease, held>>

(* BreakConnect of either pin: Decommit, then Release, and between the two *)
(* any other client may run.                                               *)
BreakConnect(t) ==
  /\ MayCall(t)
  /\ DecommitLocked(t)
  /\ GoTo(t, "drop")
  /\ UNCHANGED decommitFrame

DropAllocator(t) ==
  /\ pc[t] = "drop" /\ t \notin bRelease
  /\ clients' = clients \ {t}
  /\ ReleaseAllocator
  /\ GoTo(t, "idle")
  /\ UNCHANGED <<m_bCommitted, m_bDecommitInProgress, m_bChanged, m_lCount,
                 waitState, sampleRef, cur, bRelease, held>>

(* The object is gone and every call has returned (or crashed).            *)
Terminated ==
  /\ ~alive /\ \A t \in Threads : pc[t] \in {"idle", "crashed"}
  /\ UNCHANGED vars

(***************************************************************************)
(* Specification                                                           *)
(***************************************************************************)

(* The steps of a call that has begun, which the thread carries through.   *)
InCall(t) == \/ GetBufferAgain(t) \/ GetBufferReturn(t)
             \/ ReleaseLast(t) \/ ReleaseDecrement(t) \/ ReleaseBuffer(t)
             \/ ReadNotify(t) \/ ReleaseSelf(t) \/ DropAllocator(t)

ClientCall(t) ==
  \/ GetBuffer(t) \/ SetProperties(t) \/ Commit(t) \/ Decommit(t) \/ BreakConnect(t)
  \/ \E s \in Samples : ReleaseSample(t, s)
  \/ \E u \in Threads : ShareAllocator(t, u)
  \/ \E u \in Threads, s \in Samples : AddRefSample(t, u, s)

Next == (\E t \in Threads : ClientCall(t) \/ InCall(t) \/ Wake(t)) \/ Terminated

Spec == Init /\ [][Next]_vars

(* Threads are scheduled, and a semaphore with a count releases a waiter.  *)
Fairness == \A t \in Threads : WF_vars(InCall(t)) /\ WF_vars(Wake(t))

FairSpec == Spec /\ Fairness

(***************************************************************************)
(* Properties                                                              *)
(***************************************************************************)

(* Types of the variables; a call that works on a sample has one.          *)
PoolTypeOK ==
  /\ m_bCommitted \in 0..1 /\ m_bDecommitInProgress \in 0..1 /\ m_bChanged \in 0..1
  /\ m_lCount \in 0..MaxBuffers /\ m_lAllocated \in 0..MaxBuffers
  /\ m_pBuffer \in 0..MaxBuffers
  /\ m_lFree \subseteq Samples
CountTypeOK ==
  /\ m_lWaiting \in Nat /\ m_hSem \in Nat /\ m_cRef \in Int
  /\ clients \subseteq Threads /\ bRelease \subseteq Threads
CallTypeOK ==
  /\ sampleRef \in [Samples -> Int]
  /\ held \in [Threads -> SUBSET Samples]
  /\ pc \in [Threads -> {"idle", "waiting", "retry", "gotSample", "setZero",
                         "decrement", "releaseBuffer", "readNotify", "release",
                         "drop", "crashed"}]
  /\ cur \in [Threads -> 0..MaxBuffers]
  /\ \A t \in Threads :
       pc[t] \in {"gotSample", "setZero", "decrement", "releaseBuffer"} => cur[t] # 0
TypeOK == PoolTypeOK /\ CountTypeOK /\ CallTypeOK

Waiting == {t \in Threads : pc[t] = "waiting"}

(* Every thread blocked in GetBuffer is either recorded in m_lWaiting or   *)
(* has a count of the semaphore to wake it.                                *)
WaitersAccounted == Cardinality(Waiting) <= m_hSem + m_lWaiting

(* Waiters are recorded only while the pool is committed and empty.        *)
RecordedOnlyWhenEmpty == m_lWaiting > 0 => Committed /\ m_lFree = {}

(* No lost wakeup: whenever a sample is free, or the allocator has been    *)
(* decommitted, the semaphore holds a wakeup for each thread blocked in    *)
(* GetBuffer, although waiting and notifying are separate from the lock.   *)
NoLostWakeup ==
  (m_lFree # {} \/ ~Committed) => Cardinality(Waiting) <= m_hSem

(* The threads that are taking sample s out of the pool or putting it back.*)
InTransit(s) ==
  {t \in Threads : cur[t] = s /\ pc[t] \in {"gotSample", "releaseBuffer"}}
Holders(s) == {t \in Threads : s \in held[t]}

(* Each sample is in one place only: on the free list with no references,  *)
(* in the hands of the single thread that takes or returns it, or out with *)
(* as many references as it has holders.  (ASSERT(pSample->m_cRef == 0) of *)
(* GetBuffer and ASSERT(m_lAllocated == m_lFree.GetCount()) of ReallyFree  *)
(* follow.)                                                                *)
EverySampleInOnePlace ==
  \A s \in Samples :
    /\ sampleRef[s] = Cardinality(Holders(s))
    /\ Cardinality(InTransit(s)) + (IF s \in m_lFree THEN 1 ELSE 0)
       + (IF Holders(s) # {} THEN 1 ELSE 0) = (IF s \in 1..m_lAllocated THEN 1 ELSE 0)

(* The unlocked test m_cRef == 1 of CMediaSample::Release is not stale     *)
(* when the count is overwritten with 0: no other thread has a reference.  *)
FastReleaseIsExclusive ==
  \A t \in Threads : pc[t] = "setZero" => Holders(cur[t]) = {t}

(* The destructor runs when nothing is committed, pending or outstanding,  *)
(* and no thread is inside a call that still touches the pool.             *)
DestroyedWhenQuiet ==
  ~alive => /\ m_cRef = 0 /\ clients = {} /\ bRelease = {}
            /\ ~Committed /\ ~DecommitPending
            /\ \A t \in Threads : /\ pc[t] \in {"idle", "readNotify", "crashed"}
                                  /\ held[t] = {}

(* The memory block exists whenever Alloc may skip the allocation, the     *)
(* ASSERT(m_pBuffer) of CMemAllocator::Alloc, also after allocations that  *)
(* failed half way, and whenever there are samples pointing into it.       *)
MemoryBacksSamples ==
  alive => /\ m_bChanged = 0 => m_pBuffer = m_lCount
           /\ m_lAllocated <= m_pBuffer
           /\ Committed => m_lAllocated = m_lCount

(* A thread blocked in GetBuffer gets out once the allocator has been      *)
(* decommitted or a sample has come back, unless it is committed again or  *)
(* somebody else takes the sample first.                                   *)
WaitersGetOut ==
  \A t \in Threads :
    (pc[t] = "waiting" /\ (~Committed \/ m_lFree # {}))
      ~> (pc[t] # "waiting" \/ (Committed /\ m_lFree = {}))

(* The comments in CMediaSample::Release and CBaseAllocator::ReleaseBuffer *)
(* say that each sample holds a reference to the allocator from GetBuffer  *)
(* until the end of ReleaseBuffer, so that the allocator cannot go away    *)
(* before a ReleaseBuffer is finished with it.                             *)
ReleaseBufferKeepsAllocator ==
  \A t \in Threads : pc[t] \in {"releaseBuffer", "readNotify", "release"} => alive

(* The allocator implements the pool it promises its clients.              *)
Pool == INSTANCE BufferPool WITH
          open <- Committed, count <- m_lAllocated,
          out <- (1..m_lAllocated) \ m_lFree
ImplementsPool == Pool!Spec

(* What holds at every step: each sample in one place, an exclusive fast   *)
(* release, a quiet destruction, memory under every sample.                *)
AllocatorSafety ==
  /\ TypeOK /\ EverySampleInOnePlace /\ FastReleaseIsExclusive
  /\ DestroyedWhenQuiet /\ MemoryBacksSamples
=============================================================================
