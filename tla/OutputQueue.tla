---------------------------- MODULE OutputQueue ----------------------------
(***************************************************************************)
(* COutputQueue (src/SDK/BaseClasses/outputq.cpp): an output pin hands it  *)
(* samples, and it passes them downstream in batches, either on a worker   *)
(* thread of its own (IsQueued()) or at once, on the caller's thread.      *)
(*                                                                         *)
(* Two threads use it.  The streaming thread calls Receive, SendAnyway,    *)
(* NewSegment and EOS; the control thread calls BeginFlush, EndFlush,      *)
(* Reset and the destructor.  As the comments in BeginFlush and EndFlush   *)
(* assume, the filter lets no new call in from BeginFlush to the end of    *)
(* EndFlush, and calls EndFlush, Reset and the destructor when no call is  *)
(* in progress on the streaming thread.  The downstream pin is external:   *)
(* it blocks in ReceiveMultiple while it is paused, and returns S_FALSE    *)
(* while it is flushing.  Memory for list nodes does not run out: the new  *)
(* of this build does not return NULL.                                     *)
(***************************************************************************)
EXTENDS Naturals, Sequences, FiniteSets, SequencesExt, FiniteSetsExt

CONSTANTS Modes,       \* arguments of the constructor, and how the owner uses it
          Calls,       \* what the streaming thread calls
          MaxSamples,  \* bound: samples it sends
          MaxFlushes,  \* bound: flushes that reach downstream
          MaxList,     \* bound: a call is made when the list is shorter
          Faults       \* {"downstream"}: ReceiveMultiple may fail

ASSUME ModesAreModes ==
  Modes \subseteq [queued : BOOLEAN, exact : BOOLEAN, size : Nat \ {0}, opt : BOOLEAN,
                    resets : BOOLEAN, late : SUBSET Calls]
ASSUME CallsAreKnown == Calls \subseteq {"Receive", "SendAnyway", "NewSegment", "EOS"}
ASSUME BoundsAreNat == {MaxSamples, MaxFlushes, MaxList} \subseteq Nat
ASSUME FaultsAreKnown == Faults \subseteq {"downstream"}

VARIABLES
  mode,                \* queued, exact, size, opt: the constructor's arguments;
                       \* the owner calls Reset; calls of the streaming thread
                       \* that may be on their way when a flush begins
  m_List,              \* the queue: samples and control packets
  m_ppSamples,         \* the batch, m_nBatched samples of it
  m_lWaiting, m_hSem,  \* the worker announced its wait; count of the semaphore
  m_evFlushComplete,   \* auto-reset event
  m_bFlushing, m_bFlushed, m_bTerminate,
  m_hr,                \* deferred return code
  \* the worker
  wpc, pSample,        \* where it is; what kind of packet ended the batch
  sending,             \* the batch it took out of m_ppSamples to send
  hr,                  \* result of its ReceiveMultiple
  \* the streaming thread
  call, spc, todo,     \* its call, where it is, samples it still has
  sent,                \* number of samples it has sent in all
  \* the control thread
  op, step,
  filterFlushing,      \* the filter lets no new call in
  \* downstream
  downPaused, downFlushing,
  last,                \* the latest sample received
  \* observers: flushes downstream has seen the end of, references per sample
  era, refs

queue == <<m_List, m_ppSamples>>
wait == <<m_lWaiting, m_hSem>>
flags == <<m_bFlushing, m_bFlushed, m_bTerminate>>
worker == <<wpc, pSample, sending, hr>>
stream == <<call, spc, todo, sent>>
control == <<op, step, filterFlushing>>
down == <<downPaused, downFlushing, last>>
fixed == <<mode, era>>
queueState == <<queue, wait, m_evFlushComplete, flags>>
callers == <<stream, control>>
vars == <<fixed, queueState, m_hr, worker, callers, down, refs>>

Samples == 1 .. MaxSamples

(* m_bBatchExact as the constructor computes it.                           *)
BatchExact == mode.exact /\ mode.size > 1

(* A sample or packet, with the flush era it was handed over in.           *)
Sample(i) == [kind |-> "sample", id |-> i, era |-> era]
Packet(k) == [kind |-> k, id |-> 0, era |-> era]
IsSample(x) == x.kind = "sample"

(* The samples among the first i entries of s, and the sequence of all of  *)
(* them: the n-th is the one with n samples up to it.                      *)
SamplesUpTo(s, i) == {j \in 1 .. i : IsSample(s[j])}
Nth(s, n) == CHOOSE i \in DOMAIN s : IsSample(s[i]) /\ Cardinality(SamplesUpTo(s, i)) = n
SamplesOf(s) == [n \in 1 .. Cardinality(SamplesUpTo(s, Len(s))) |-> s[Nth(s, n)]]
Ids(s) == {s[i].id : i \in SamplesUpTo(s, Len(s))}

NoPacket == [kind |-> "none", id |-> 0, era |-> 0]

Init ==
  /\ mode \in Modes
  /\ m_List = <<>> /\ m_ppSamples = <<>> /\ m_lWaiting = 0 /\ m_hSem = 0
  /\ m_evFlushComplete = FALSE
  /\ m_bFlushing = FALSE /\ m_bFlushed = TRUE /\ m_bTerminate = FALSE /\ m_hr = "S_OK"
  /\ wpc = (IF mode.queued THEN "get" ELSE "none")
  /\ pSample = NoPacket /\ sending = <<>> /\ hr = "S_OK"
  /\ call = "none" /\ spc = "idle" /\ todo = <<>> /\ sent = 0
  /\ op = "none" /\ step = "idle" /\ filterFlushing = FALSE
  /\ downPaused = FALSE /\ downFlushing = FALSE /\ last = 0
  /\ era = 0 /\ refs = [i \in Samples |-> 0]

(***************************************************************************)
(* Operations on the queue, made under the lock                            *)
(***************************************************************************)

(* The streaming thread holds the lock while it calls downstream itself.   *)
Locked == spc \in {"batch", "deliver", "eos"}

Release(s) == refs' = [i \in Samples |-> IF i \in Ids(s) THEN refs[i] - 1 ELSE refs[i]]

(* Nothing to signal unless the worker announced its wait.                 *)
NotifyThread == m_hSem' = m_hSem + m_lWaiting /\ m_lWaiting' = 0

QueueSamples(s) == m_List' = m_List \o s

(* Mutant: m_nBatched is not reset.                                        *)
FreeKeepingCount ==
  /\ m_List' = <<>> /\ UNCHANGED m_ppSamples
  /\ Release(m_List \o m_ppSamples)

FreeSamples ==
  /\ m_List' = <<>> /\ m_ppSamples' = <<>>
  /\ Release(m_List \o m_ppSamples)

(***************************************************************************)
(* ThreadProc                                                              *)
(***************************************************************************)

(* The batch after the first i entries of the list.                        *)
Batched(i) == m_ppSamples \o SamplesOf(SubSeq(m_List, 1, i))

(* Mutant: the batch is sent one sample too late.                          *)
EndsBatchLate(i) ==
  IF IsSample(m_List[i]) THEN Len(Batched(i)) > mode.size
  ELSE m_List[i].kind = "SEND_PACKET" => Batched(i) # <<>>

(* The inner loop ends at an entry that fills the batch and at every       *)
(* packet but a SEND_PACKET with nothing to send.                          *)
EndsBatch(i) ==
  IF IsSample(m_List[i]) THEN Len(Batched(i)) = mode.size
  ELSE m_List[i].kind = "SEND_PACKET" => Batched(i) # <<>>

Ends == {i \in DOMAIN m_List : EndsBatch(i)}

Terminate ==
  /\ wpc = "get" /\ m_bTerminate
  /\ FreeSamples
  /\ wpc' = "exited"
  /\ UNCHANGED <<callers, fixed, wait, flags, down, m_evFlushComplete, m_hr,
                 pSample, sending, hr>>

(* Whatever was queued or batched is gone, so the worker waits.            *)
FlushQueue ==
  /\ wpc = "get" /\ ~m_bTerminate /\ m_bFlushing
  /\ FreeSamples
  /\ m_evFlushComplete' = TRUE
  /\ m_lWaiting' = 1
  /\ wpc' = "wait"
  /\ UNCHANGED <<callers, fixed, flags, down, m_hSem, m_hr, pSample, sending,
                 hr>>

MayGet == wpc = "get" /\ ~m_bTerminate /\ ~m_bFlushing

(* The entry that ends the batch goes with it, NEW_SEGMENT with the packet *)
(* behind it.                                                              *)
GetBatch ==
  /\ MayGet /\ Ends # {}
  /\ LET i == Min(Ends)
         taken == IF m_List[i].kind = "NEW_SEGMENT" THEN i + 1 ELSE i
     IN /\ sending' = Batched(i)
        /\ pSample' = m_List[i]
        /\ m_List' = SubSeq(m_List, taken + 1, Len(m_List))
  /\ m_ppSamples' = <<>>
  /\ wpc' = "send"
  /\ UNCHANGED <<callers, fixed, wait, flags, down, m_evFlushComplete, m_hr, hr,
                 refs>>

(* The list is exhausted: send what there is, unless batches are exact.    *)
GetLast ==
  /\ MayGet /\ Ends = {}
  /\ m_List' = <<>>
  /\ LET all == Batched(Len(m_List)) IN
       IF BatchExact \/ all = <<>>
       THEN /\ m_ppSamples' = all /\ m_lWaiting' = 1 /\ wpc' = "wait"
            /\ UNCHANGED <<sending, pSample>>
       ELSE /\ sending' = all /\ pSample' = NoPacket /\ m_ppSamples' = <<>>
            /\ wpc' = "send"
            /\ UNCHANGED m_lWaiting
  /\ UNCHANGED <<callers, fixed, flags, down, m_hSem, m_evFlushComplete, m_hr,
                 hr, refs>>

Wait ==
  /\ wpc = "wait" /\ m_hSem > 0
  /\ m_hSem' = m_hSem - 1
  /\ wpc' = "get"
  /\ UNCHANGED <<callers, fixed, queue, flags, down, m_lWaiting,
                 m_evFlushComplete, m_hr, pSample, sending, hr, refs>>

(* m_hr is read without the lock.                                          *)
StartSend ==
  /\ wpc = "send" /\ sending # <<>> /\ m_hr = "S_OK"
  /\ wpc' = "deliver"
  /\ UNCHANGED <<queueState, callers, fixed, down, m_hr, pSample, sending, hr,
                 refs>>

(* The next round of the outer loop has fresh locals.                      *)
NextRound == wpc' = "get" /\ pSample' = NoPacket

AfterSend ==
  IF pSample.kind \in {"EOS_PACKET", "RESET_PACKET", "NEW_SEGMENT"}
  THEN wpc' = "packet" /\ UNCHANGED pSample ELSE NextRound

SkipSend ==
  /\ wpc = "send" /\ (sending = <<>> \/ m_hr # "S_OK")
  /\ Release(sending)
  /\ sending' = <<>>
  /\ AfterSend
  /\ UNCHANGED <<queueState, callers, fixed, down, m_hr, hr>>

(* External: what downstream makes of a batch, with ReceiveMultiple's      *)
(* result r.  A batch that fails may have got through in part.             *)
Received(batch, r) ==
  \/ /\ r = "S_OK" /\ ~downFlushing /\ ~downPaused
     /\ last' = Last(batch).id
  \/ /\ r = "S_FALSE" /\ downFlushing
     /\ UNCHANGED last
  \/ /\ r = "E_FAIL" /\ "downstream" \in Faults /\ ~downFlushing /\ ~downPaused
     /\ last' \in {last} \union Ids(batch)

Deliver ==
  /\ wpc = "deliver"
  /\ \E r \in {"S_OK", "S_FALSE", "E_FAIL"} : Received(sending, r) /\ hr' = r
  /\ wpc' = "store"
  /\ UNCHANGED <<queueState, callers, fixed, m_hr, pSample, sending, downPaused,
                 downFlushing, refs>>

(* "Don't overwrite a flushing state HRESULT".                             *)
StoreResult ==
  /\ wpc = "store"
  /\ m_hr' = IF m_hr = "S_OK" THEN hr ELSE m_hr
  /\ Release(sending)
  /\ sending' = <<>> /\ hr' = "S_OK"
  /\ AfterSend
  /\ UNCHANGED <<queueState, callers, fixed, down>>

(* End of stream is passed on only if all went well; m_hr is read without  *)
(* the lock, and the call comes later.                                     *)
CheckEos ==
  /\ wpc = "packet" /\ pSample.kind = "EOS_PACKET"
  /\ IF m_hr = "S_OK" THEN wpc' = "eos" /\ UNCHANGED pSample ELSE NextRound
  /\ UNCHANGED <<queueState, callers, fixed, down, m_hr, sending, hr,
                 refs>>

SendEos ==
  /\ wpc = "eos"
  /\ NextRound
  /\ UNCHANGED <<queueState, callers, fixed, m_hr, sending, hr,
                 downPaused, downFlushing, last, refs>>

(* Downstream's NewSegment changes nothing here.                           *)
SendNewSegment ==
  /\ wpc = "packet" /\ pSample.kind = "NEW_SEGMENT"
  /\ NextRound
  /\ UNCHANGED <<queueState, callers, fixed, down, m_hr, sending, hr,
                 refs>>

(* RESET_PACKET, without the lock: clear m_hr, then signal.                *)
ClearResult ==
  /\ wpc = "packet" /\ pSample.kind = "RESET_PACKET"
  /\ m_hr' = "S_OK"
  /\ wpc' = "signal"
  /\ UNCHANGED <<queueState, callers, fixed, down, pSample, sending, hr, refs>>

SignalReset ==
  /\ wpc = "signal"
  /\ m_evFlushComplete' = TRUE
  /\ NextRound
  /\ UNCHANGED <<callers, fixed, queue, wait, flags, down, m_hr,
                 sending, hr, refs>>

(***************************************************************************)
(* The streaming thread                                                    *)
(***************************************************************************)

(* A call has passed the filter's own check and is on its way here.        *)
StartCall ==
  /\ spc = "idle" /\ op = "none" /\ ~filterFlushing /\ Len(m_List) < MaxList
  /\ \E c \in Calls, n \in 0 .. 2 :
       /\ n > 0 <=> c = "Receive"
       /\ sent + n <= MaxSamples
       /\ call' = c /\ sent' = sent + n
       /\ todo' = [i \in 1 .. n |-> Sample(sent + i)]
       /\ refs' = [i \in Samples |-> IF i \in sent + 1 .. sent + n THEN 1 ELSE refs[i]]
  /\ spc' = "call"
  /\ UNCHANGED <<queueState, fixed, worker, control, down, m_hr>>

Return == call' = "none" /\ spc' = "idle" /\ todo' = <<>>

(* ReceiveMultiple without effect: the samples are released all the same.  *)
Discard ==
  /\ spc = "call" /\ call = "Receive" /\ m_hr # "S_OK"
  /\ Release(todo)
  /\ Return
  /\ UNCHANGED <<queueState, fixed, worker, control, down, m_hr, sent>>

(* Mutant: the batch that the worker has begun is not counted.             *)
ListIsFull == Len(m_List') >= mode.size

(* The worker would be able to fill a batch.                               *)
BatchIsFull == Len(m_ppSamples) + Len(m_List') >= mode.size

QueueReceive ==
  /\ mode.queued /\ spc = "call" /\ call = "Receive" /\ m_hr = "S_OK"
  /\ m_bFlushed' = FALSE
  /\ QueueSamples(todo)
  /\ IF ~BatchExact \/ BatchIsFull THEN NotifyThread ELSE UNCHANGED wait
  /\ Return
  /\ UNCHANGED <<fixed, worker, control, down, m_ppSamples, m_evFlushComplete,
                 m_bFlushing, m_bTerminate, m_hr, sent, refs>>

QueueSendAnyway ==
  /\ mode.queued /\ spc = "call" /\ call = "SendAnyway"
  /\ QueueSamples(<<Packet("SEND_PACKET")>>)
  /\ NotifyThread
  /\ Return
  /\ UNCHANGED <<fixed, flags, worker, control, down, m_ppSamples,
                 m_evFlushComplete, m_hr, sent, refs>>

QueueEos ==
  /\ mode.queued /\ spc = "call" /\ call = "EOS"
  /\ IF m_hr = "S_OK"
     THEN /\ m_bFlushed' = FALSE
          /\ QueueSamples(<<Packet("EOS_PACKET")>>)
          /\ NotifyThread
     ELSE UNCHANGED <<m_bFlushed, m_List, wait>>
  /\ Return
  /\ UNCHANGED <<fixed, worker, control, down, m_ppSamples, m_evFlushComplete,
                 m_bFlushing, m_bTerminate, m_hr, sent, refs>>

(* NewSegment looks at m_hr before it takes the lock.                      *)
CheckNewSegment ==
  /\ spc = "call" /\ call = "NewSegment"
  /\ IF m_hr # "S_OK" THEN Return
     ELSE /\ spc' = (IF mode.queued THEN "queue" ELSE IF BatchExact THEN "anyway" ELSE "segment")
          /\ UNCHANGED <<call, todo>>
  /\ UNCHANGED <<queueState, fixed, worker, control, down, m_hr, sent, refs>>

QueueNewSegment ==
  /\ spc = "queue"
  /\ QueueSamples(<<Packet("NEW_SEGMENT"), Packet("packet")>>)
  /\ NotifyThread
  /\ Return
  /\ UNCHANGED <<fixed, flags, worker, control, down, m_ppSamples,
                 m_evFlushComplete, m_hr, sent, refs>>

(***************************************************************************)
(* The same calls without a worker                                         *)
(***************************************************************************)

(* ReceiveMultiple takes the lock and keeps it to its end.                 *)
DirectReceive ==
  /\ ~mode.queued /\ spc = "call" /\ call = "Receive" /\ m_hr = "S_OK"
  /\ m_bFlushed' = FALSE
  /\ spc' = "batch"
  /\ UNCHANGED <<fixed, queue, wait, worker, control, down, m_evFlushComplete,
                 m_bFlushing, m_bTerminate, m_hr, call, todo, sent, refs>>

(* One round of the loop: fill the batch and pass it on when it is full,   *)
(* or drop it when an earlier batch of this call failed.                   *)
FillBatch ==
  /\ spc = "batch" /\ todo # <<>>
  /\ LET n == Min({Len(todo), mode.size - Len(m_ppSamples)})
         batch == m_ppSamples \o SubSeq(todo, 1, n)
         full == Len(batch) = mode.size
     IN /\ todo' = SubSeq(todo, n + 1, Len(todo))
        /\ spc' = IF full /\ m_hr = "S_OK" THEN "deliver" ELSE "batch"
        /\ IF full /\ m_hr # "S_OK"
           THEN m_ppSamples' = <<>> /\ Release(batch)
           ELSE m_ppSamples' = batch /\ UNCHANGED refs
  /\ UNCHANGED <<fixed, wait, flags, worker, control, down, m_List,
                 m_evFlushComplete, m_hr, call, sent>>

DirectDeliver ==
  /\ spc = "deliver"
  /\ \E r \in {"S_OK", "S_FALSE", "E_FAIL"} : Received(m_ppSamples, r) /\ m_hr' = r
  /\ m_ppSamples' = <<>>
  /\ Release(m_ppSamples)
  /\ spc' = "batch"
  /\ UNCHANGED <<fixed, wait, flags, worker, control, m_List, m_evFlushComplete,
                 call, todo, sent, downPaused, downFlushing>>

(* SendAnyway, alone, from EOS or from NewSegment: ReceiveMultiple with no *)
(* samples, which sends what is in the batch unless m_hr forbids it.       *)
DirectSendAnyway ==
  /\ ~mode.queued
  /\ \/ spc = "call" /\ (call = "SendAnyway" \/ (call = "EOS" /\ BatchExact))
     \/ spc = "anyway"
  /\ m_bFlushed' = (m_bFlushed /\ m_hr # "S_OK")
  /\ spc' = IF m_hr = "S_OK" /\ m_ppSamples # <<>> THEN "deliver" ELSE "batch"
  /\ UNCHANGED <<fixed, queue, wait, worker, control, down, m_evFlushComplete,
                 m_bFlushing, m_bTerminate, m_hr, call, todo, sent, refs>>

DirectEos ==
  /\ ~mode.queued /\ spc = "call" /\ call = "EOS" /\ ~BatchExact
  /\ spc' = "batch"
  /\ UNCHANGED <<queueState, fixed, worker, control, down, m_hr, call, todo,
                 sent, refs>>

(* The loop is over: return, or go on with what called SendAnyway.         *)
BatchDone ==
  /\ spc = "batch" /\ todo = <<>>
  /\ CASE call = "EOS" /\ m_hr = "S_OK" ->
            spc' = "eos" /\ m_bFlushed' = FALSE /\ UNCHANGED <<call, todo>>
       [] call = "NewSegment" ->
            spc' = "segment" /\ UNCHANGED <<call, todo, m_bFlushed>>
       [] OTHER -> Return /\ UNCHANGED m_bFlushed
  /\ UNCHANGED <<fixed, queue, wait, worker, control, down, m_evFlushComplete,
                 m_bFlushing, m_bTerminate, m_hr, sent, refs>>

DirectSendEos ==
  /\ spc = "eos"
  /\ Return
  /\ UNCHANGED <<queueState, fixed, worker, control, m_hr, sent, downPaused,
                 downFlushing, last, refs>>

DirectNewSegment ==
  /\ spc = "segment"
  /\ Return
  /\ UNCHANGED <<queueState, fixed, worker, control, down, m_hr, sent, refs>>

(***************************************************************************)
(* The control thread                                                      *)
(***************************************************************************)

ControlIdle == op = "none" /\ spc = "idle"

ReturnControl == op' = "none" /\ step' = "idle"

(* Mutant: the lock first, as the queued branch does.                      *)
LockFirst == "lock"

(* "pass downstream first to avoid deadlocks".                             *)
FirstFlushStep == IF mode.queued THEN "lock" ELSE "down"

BeginFlush ==
  /\ op = "none" /\ ~filterFlushing /\ era < MaxFlushes
  /\ call \in mode.late \union {"none"}
  /\ filterFlushing' = TRUE
  /\ op' = "BeginFlush" /\ step' = FirstFlushStep
  /\ UNCHANGED <<queueState, fixed, worker, stream, down, m_hr, refs>>

FlushIsNoop == mode.queued /\ mode.opt /\ m_bFlushed

(* Mutant: a signal left over is not cleared.                              *)
KeepSignal == UNCHANGED m_evFlushComplete

(* "Make sure we really wait for the flush to complete".                   *)
ClearSignal == m_evFlushComplete' = FALSE

BeginFlushLocked ==
  /\ op = "BeginFlush" /\ step = "lock" /\ ~Locked
  /\ m_bFlushing' = TRUE
  /\ m_hr' = IF m_hr = "S_OK" THEN "S_FALSE" ELSE m_hr
  /\ IF mode.queued /\ ~FlushIsNoop
     THEN /\ ClearSignal
          /\ NotifyThread
          /\ step' = "down" /\ UNCHANGED op
     ELSE /\ ReturnControl
          /\ UNCHANGED <<m_evFlushComplete, wait>>
  /\ UNCHANGED <<fixed, queue, worker, stream, down, m_bFlushed, m_bTerminate,
                 filterFlushing, refs>>

DeliverBeginFlush ==
  /\ op = "BeginFlush" /\ step = "down"
  /\ downFlushing' = TRUE
  /\ IF mode.queued THEN ReturnControl ELSE step' = "lock" /\ UNCHANGED op
  /\ UNCHANGED <<queueState, fixed, worker, stream, m_hr, filterFlushing,
                 downPaused, last, refs>>

EndFlushNoop ==
  /\ ControlIdle /\ filterFlushing /\ FlushIsNoop
  /\ m_bFlushing' = FALSE /\ m_hr' = "S_OK" /\ filterFlushing' = FALSE
  /\ UNCHANGED <<fixed, queue, wait, worker, stream, down, m_evFlushComplete,
                 m_bFlushed, m_bTerminate, op, step, refs>>

EndFlush ==
  /\ ControlIdle /\ filterFlushing /\ ~FlushIsNoop
  /\ op' = "EndFlush"
  /\ step' = IF mode.queued THEN "wait" ELSE "leave"
  /\ IF mode.queued THEN UNCHANGED <<queue, refs>> ELSE FreeSamples
  /\ UNCHANGED <<fixed, wait, flags, worker, stream, down, m_evFlushComplete,
                 m_hr, filterFlushing>>

(* m_evFlushComplete.Wait() of EndFlush and of Reset.                      *)
WaitComplete ==
  /\ step = "wait" /\ m_evFlushComplete
  /\ m_evFlushComplete' = FALSE
  /\ IF op = "EndFlush" THEN step' = "leave" /\ UNCHANGED op ELSE ReturnControl
  /\ UNCHANGED <<fixed, queue, wait, flags, worker, stream, down, m_hr,
                 filterFlushing, refs>>

LeaveFlush ==
  /\ step = "leave"
  /\ m_bFlushing' = FALSE /\ m_bFlushed' = TRUE
  /\ step' = "down"
  /\ UNCHANGED <<fixed, queue, wait, worker, stream, down, m_evFlushComplete,
                 m_bTerminate, m_hr, op, filterFlushing, refs>>

DeliverEndFlush ==
  /\ op = "EndFlush" /\ step = "down"
  /\ downFlushing' = FALSE
  /\ era' = era + 1
  /\ step' = "clear"
  /\ UNCHANGED <<queueState, worker, stream, mode, m_hr, op, filterFlushing,
                 downPaused, last, refs>>

EndFlushReturn ==
  /\ step = "clear"
  /\ m_hr' = "S_OK"
  /\ filterFlushing' = FALSE
  /\ ReturnControl
  /\ UNCHANGED <<queueState, fixed, worker, stream, down, refs>>

DirectReset ==
  /\ ControlIdle /\ ~filterFlushing /\ ~mode.queued /\ mode.resets
  /\ m_hr' = "S_OK"
  /\ UNCHANGED <<queueState, callers, fixed, worker, down, refs>>

Reset ==
  /\ ControlIdle /\ ~filterFlushing /\ mode.queued /\ mode.resets
  /\ Len(m_List) < MaxList
  /\ QueueSamples(<<Packet("RESET_PACKET")>>)
  /\ NotifyThread
  /\ op' = "Reset" /\ step' = "wait"
  /\ UNCHANGED <<fixed, flags, worker, stream, down, m_ppSamples,
                 m_evFlushComplete, m_hr, filterFlushing, refs>>

(* The destructor.                                                         *)
DestroyDirect ==
  /\ ControlIdle /\ ~filterFlushing /\ ~mode.queued
  /\ FreeSamples
  /\ op' = "destroyed"
  /\ UNCHANGED <<fixed, wait, flags, worker, stream, down, m_evFlushComplete,
                 m_hr, step, filterFlushing>>

Destroy ==
  /\ ControlIdle /\ ~filterFlushing /\ mode.queued
  /\ m_bTerminate' = TRUE /\ m_hr' = "S_FALSE"
  /\ NotifyThread
  /\ op' = "Destroy" /\ step' = "join"
  /\ UNCHANGED <<fixed, queue, worker, stream, down, m_evFlushComplete,
                 m_bFlushing, m_bFlushed, filterFlushing, refs>>

Join ==
  /\ step = "join" /\ wpc = "exited"
  /\ op' = "destroyed" /\ step' = "idle"
  /\ UNCHANGED <<queueState, fixed, worker, stream, down, m_hr, filterFlushing,
                 refs>>

(* External: downstream is paused and goes on.                             *)
DownstreamPause ==
  /\ op # "destroyed"
  /\ downPaused' = ~downPaused
  /\ UNCHANGED <<queueState, callers, fixed, worker, m_hr, downFlushing, last, refs>>

Destroyed == op = "destroyed" /\ UNCHANGED vars

(***************************************************************************)
(* Specification                                                           *)
(***************************************************************************)

WorkerStep ==
  \/ Terminate \/ FlushQueue \/ GetBatch \/ GetLast \/ Wait
  \/ StartSend \/ SkipSend \/ Deliver \/ StoreResult
  \/ CheckEos \/ SendEos \/ SendNewSegment \/ ClearResult \/ SignalReset

StreamStep ==
  \/ Discard \/ QueueReceive \/ QueueSendAnyway \/ QueueEos
  \/ CheckNewSegment \/ QueueNewSegment
  \/ DirectReceive \/ FillBatch \/ DirectDeliver \/ DirectSendAnyway \/ DirectEos
  \/ BatchDone \/ DirectSendEos \/ DirectNewSegment

ControlCall == BeginFlush \/ EndFlushNoop \/ EndFlush \/ DirectReset \/ Reset
               \/ DestroyDirect \/ Destroy

ControlStep ==
  \/ BeginFlushLocked \/ DeliverBeginFlush \/ WaitComplete \/ LeaveFlush
  \/ DeliverEndFlush \/ EndFlushReturn \/ Join

Next == WorkerStep \/ StartCall \/ StreamStep \/ ControlCall \/ ControlStep
        \/ DownstreamPause \/ Destroyed

Spec == Init /\ [][Next]_vars

(* Threads run, and so ReceiveMultiple returns when downstream is neither  *)
(* paused nor keeps being paused again; nobody has to make a call.         *)
FairSpec ==
  Spec /\ WF_vars(WorkerStep) /\ WF_vars(StreamStep) /\ WF_vars(ControlStep)

(***************************************************************************)
(* Correctness                                                             *)
(***************************************************************************)

Item == [kind : {"none", "sample", "SEND_PACKET", "EOS_PACKET", "RESET_PACKET",
                 "NEW_SEGMENT", "packet"},
         id : 0 .. MaxSamples, era : 0 .. MaxFlushes]

(* The variables hold what their declarations say; a batch never exceeds   *)
(* the array of m_lBatchSize samples, and the worker's wait is announced   *)
(* once at a time.                                                         *)
TypeOK ==
  /\ mode \in Modes
  /\ m_List \in Seq(Item) /\ m_ppSamples \in Seq(Item) /\ sending \in Seq(Item)
  /\ Len(m_ppSamples) <= mode.size /\ Len(sending) <= mode.size
  /\ m_lWaiting \in 0 .. 1 /\ m_hSem \in 0 .. 1
  /\ {m_evFlushComplete, m_bFlushing, m_bFlushed, m_bTerminate, filterFlushing,
      downPaused, downFlushing} \subseteq BOOLEAN
  /\ {m_hr, hr} \subseteq {"S_OK", "S_FALSE", "E_FAIL"}
  /\ wpc \in {"none", "get", "wait", "send", "deliver", "store", "packet", "eos", "signal",
              "exited"}
  /\ pSample \in Item
  /\ call \in Calls \union {"none"} /\ todo \in Seq(Item) /\ sent \in 0 .. MaxSamples
  /\ spc \in {"idle", "call", "queue", "anyway", "batch", "deliver", "eos", "segment"}
  /\ op \in {"none", "BeginFlush", "EndFlush", "Reset", "Destroy", "destroyed"}
  /\ step \in {"idle", "lock", "down", "wait", "leave", "clear", "join"}
  /\ last \in 0 .. MaxSamples /\ era \in 0 .. MaxFlushes
  /\ refs \in [Samples -> 0 .. 1]

(* All samples in the queue's hands, the oldest first.                     *)
Line == SamplesOf(sending \o m_ppSamples \o m_List \o todo)

(* Every sample handed over is released once, and until then has one place *)
(* in the queue, behind all samples handed over before it: none is lost,   *)
(* repeated or overtaken on any way through batches, errors and flushes.   *)
SamplesInLine ==
  /\ \A i, j \in DOMAIN Line : i < j => Line[i].id < Line[j].id
  /\ \A i \in Samples : refs[i] = IF i \in Ids(Line) THEN 1 ELSE 0
  /\ wpc # "store" => \A i \in DOMAIN Line : Line[i].id > last

(* "ensure no more data to go downstream" (EndFlush): what downstream gets *)
(* after its EndFlush was handed over after the flush.                     *)
FlushLeavesNothing ==
  ~downFlushing =>
    /\ wpc = "deliver" => \A i \in DOMAIN sending : sending[i].era = era
    /\ wpc = "eos" => pSample.era = era
    /\ spc = "deliver" => \A i \in DOMAIN m_ppSamples : m_ppSamples[i].era = era

(* A worker blocked on its semaphore has announced it, and has left no     *)
(* packet and no complete batch behind.                                    *)
WorkerNotForgotten ==
  wpc = "wait" /\ m_hSem = 0 =>
    /\ m_lWaiting = 1 /\ ~m_bTerminate
    /\ m_List # <<>> =>
         /\ BatchExact /\ \A i \in DOMAIN m_List : IsSample(m_List[i])
         /\ ~(Len(m_ppSamples) + Len(m_List) >= mode.size)

(* IsIdle: "TRUE if there is nothing on the queue and nothing in the batch *)
(* and all data has been sent", with ASSERT(m_List->GetCount() == 0).      *)
IsIdle == ~((mode.queued /\ m_lWaiting = 0) \/ m_ppSamples # <<>>)
IdleMeansAllSent == ~Locked /\ IsIdle => m_List = <<>> /\ sending = <<>>

(* Every call of the control thread returns whatever downstream does, but  *)
(* Reset and the destructor may have to wait for a paused one: a flush     *)
(* gets the worker, or the caller that holds the lock, out of it.          *)
CallsReturn ==
  (op # "none") ~> \/ op \in {"none", "destroyed"}
                 \/ (op \in {"Reset", "Destroy"} /\ downPaused)

(* What holds at every step: samples stay in line, nothing from before a   *)
(* flush follows it, and no waiting worker has work.                       *)
QueueSafety == TypeOK /\ SamplesInLine /\ FlushLeavesNothing /\ WorkerNotForgotten

(* What FlushLeavesNothing asks of an owner that calls Reset on a queue    *)
(* with a worker: no flushing optimization, and no NewSegment or           *)
(* SendAnyway under way when a flush begins.  Either makes the queue       *)
(* signal m_evFlushComplete once more than anybody waits for it.           *)
UsedWell(modes) ==
  \A m \in modes : m.queued /\ m.resets =>
    ~m.opt /\ m.late \intersect {"SendAnyway", "NewSegment"} = {}
=============================================================================
