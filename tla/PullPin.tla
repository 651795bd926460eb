------------------------------ MODULE PullPin ------------------------------
(***************************************************************************)
(* CPullPin (pullpin.cpp): a worker pulls a file through an IAsyncReader   *)
(* and delivers it downstream, while the filter starts it, stops it and    *)
(* seeks.  m_AccessLock is held through every call but the one-line Active *)
(* and Inactive, so one application thread stands for all.  CallWorker is  *)
(* the synchronous call that AMThread is shown to implement (SyncCall).    *)
(*                                                                         *)
(* External: the reader, which answers requests in order, cancels them     *)
(* while it flushes, and then refuses new ones; the allocator, a count of  *)
(* free samples; the downstream filter, which may hold a call of Receive   *)
(* until it is flushed or stopped.  Positions are in units of a sample.    *)
(*                                                                         *)
(* A thread that would use the reader or the allocator when Disconnect has *)
(* let them go takes no further step: what follows is undefined.           *)
(***************************************************************************)
EXTENDS Naturals, Sequences

CONSTANTS Duration,    \* m_tDuration
          Align,       \* cbAlign of the reader
          cBuffers,    \* samples of the allocator
          Ranges,      \* <<start, stop>> the application seeks to
          Refuses      \* whether the reader may refuse to flush

VARIABLES
  m_bSync, connected,  \* m_pReader and m_pAlloc
  m_State, m_tStart, m_tStop,
  threadExists, committed,
  op, step,            \* the call of the application and where it is
  isActive,            \* Active has been called, and Inactive not since
  refused,             \* the last call in which the reader refused to flush for this
                       \* worker, or "none"
  call,                \* of CallWorker: "none", a command, or "answered"
  flushing,            \* the reader
  requests,            \* samples queued at the reader
  free, kept,          \* samples of the allocator, and those held downstream
  downFlushing,
  pc, todo,            \* of the worker, and where it goes after cleaning up
  tStart, tCurrent, tAlignStop, tStop, bDiscontinuity,
  pSample,             \* the sample it has in hand, or NoSample
  round,               \* which start of the worker this is
  result,              \* of the last Receive of this round
  delivered, ended     \* samples and ends of stream delivered in this round

settings == <<m_bSync, connected, m_State, m_tStart, m_tStop, threadExists, committed>>
application == <<op, step, isActive, refused>>
reader == <<flushing, requests>>
pool == <<free, kept>>
range == <<tStart, tCurrent, tAlignStop, tStop, bDiscontinuity>>
seen == <<round, result, delivered, ended>>
worker == <<pc, todo, range, pSample, seen>>
pullVars == <<settings, application, call, reader, pool, downFlushing, worker>>

NoSample == [start |-> 0, stop |-> 0, disc |-> FALSE, round |-> 0]

Init ==
  /\ m_bSync \in BOOLEAN /\ connected = FALSE
  /\ m_State = "TM_Exit" /\ m_tStart = 0 /\ m_tStop = 0
  /\ threadExists = FALSE /\ committed = FALSE
  /\ op = "none" /\ step = "idle" /\ isActive = FALSE /\ refused = "none" /\ call = "none"
  /\ flushing = FALSE /\ requests = <<>> /\ free = cBuffers /\ kept = 0 /\ downFlushing = FALSE
  /\ pc = "none" /\ todo = "none"
  /\ tStart = 0 /\ tCurrent = 0 /\ tAlignStop = 0 /\ tStop = 0 /\ bDiscontinuity = FALSE
  /\ pSample = NoSample /\ round = 0 /\ result = "none" /\ delivered = <<>> /\ ended = FALSE

-----------------------------------------------------------------------------
(* The application.                                                        *)

Idle == op = "none"
At(o, s) == op \in o /\ step = s
GoTo(s) == step' = s /\ UNCHANGED <<op, isActive, refused>>
Return == op' = "none" /\ step' = "idle" /\ UNCHANGED refused

(* Bound: a pin is not connected again beside a worker left behind.        *)
Connect ==
  /\ Idle /\ ~connected /\ refused # "disconnect"
  /\ connected' = TRUE /\ m_tStart' = 0 /\ m_tStop' = Duration
  /\ UNCHANGED <<m_bSync, m_State, threadExists, committed, application, call, reader, pool,
                 downFlushing, worker>>

Begin(o, s) == /\ Idle /\ op' = o /\ step' = s /\ UNCHANGED refused
               /\ UNCHANGED <<settings, call, reader, pool, downFlushing, worker>>

(* The filter graph stops the downstream filter before it stops this one,  *)
(* and starts it first; a filter that has become active is made inactive   *)
(* before it becomes active again.                                         *)
Active == ~isActive /\ Begin("active", "start") /\ UNCHANGED isActive
Inactive == Begin("inactive", "stop") /\ isActive' = FALSE
Disconnect == Begin("disconnect", "stop") /\ UNCHANGED isActive

Seek(start, stop) ==
  /\ Idle
  /\ op' = "seek" /\ UNCHANGED <<isActive, refused>>
  /\ m_tStart' = IF m_State = "TM_Start" THEN m_tStart ELSE start
  /\ m_tStop' = IF m_State = "TM_Start" THEN m_tStop ELSE stop
  /\ step' = IF m_State = "TM_Start" THEN "flush" ELSE "done"
  /\ UNCHANGED <<m_bSync, connected, m_State, threadExists, committed, call, reader, pool,
                 downFlushing, worker>>

SeekBeginFlush ==
  /\ At({"seek"}, "flush")
  /\ downFlushing' = TRUE /\ GoTo("stop")
  /\ UNCHANGED <<settings, call, reader, pool, worker>>

(* PauseThread and StopThread.                                             *)
Command == IF op = "seek" THEN "TM_Pause" ELSE "TM_Exit"

NoThread ==
  /\ step = "stop" /\ ~threadExists
  /\ GoTo(IF op = "seek" THEN "unflush" ELSE "release")
  /\ UNCHANGED <<settings, call, reader, pool, downFlushing, worker>>

(* Mutant: the reader is not flushed.                                      *)
KeepReader == UNCHANGED flushing

FlushReader == flushing' = TRUE

BeginFlushReader ==
  /\ step = "stop" /\ threadExists /\ connected
  /\ FlushReader /\ GoTo("ask")
  /\ UNCHANGED <<settings, call, requests, pool, downFlushing, worker>>

TellToStop ==
  /\ step = "ask" /\ call = "none"
  /\ m_State' = Command /\ call' = Command
  /\ GoTo("wait")
  /\ UNCHANGED <<m_bSync, connected, m_tStart, m_tStop, threadExists, committed, reader, pool,
                 downFlushing, worker>>

(* No caller looks at what PauseThread or StopThread returned.             *)
ReaderRefuses ==
  /\ Refuses /\ step = "stop" /\ threadExists /\ connected
  /\ step' = (IF op = "seek" THEN "unflush" ELSE "release")
  /\ refused' = op /\ UNCHANGED <<op, isActive>>
  /\ UNCHANGED <<settings, call, reader, pool, downFlushing, worker>>

EndFlushReader ==
  /\ At({"seek", "inactive", "disconnect"}, "wait") /\ call = "answered"
  /\ call' = "none" /\ flushing' = FALSE
  /\ GoTo(IF op = "seek" THEN "unflush" ELSE "close")
  /\ UNCHANGED <<settings, requests, pool, downFlushing, worker>>

(* Mutant: the thread is not waited for.                                   *)
NotWaitedFor == TRUE

ThreadGone == pc = "none"

Close ==
  /\ step = "close" /\ ThreadGone
  /\ threadExists' = FALSE /\ committed' = FALSE
  /\ step' = "release" /\ refused' = "none" /\ UNCHANGED <<op, isActive>>
  /\ UNCHANGED <<m_bSync, connected, m_State, m_tStart, m_tStop, call, reader, pool,
                 downFlushing, worker>>

Release ==
  /\ step = "release"
  /\ connected' = (connected /\ op # "disconnect")
  /\ committed' = (committed /\ op # "disconnect")
  /\ Return /\ UNCHANGED isActive
  /\ UNCHANGED <<m_bSync, m_State, m_tStart, m_tStop, threadExists, call, reader, pool,
                 downFlushing, worker>>

SeekEndFlush(start, stop) ==
  /\ At({"seek"}, "unflush")
  /\ downFlushing' = FALSE
  /\ m_tStart' = start /\ m_tStop' = stop
  /\ GoTo("start")
  /\ UNCHANGED <<m_bSync, connected, m_State, threadExists, committed, call, reader, pool, worker>>

(* StartThread.                                                            *)
CreateThread ==
  /\ step = "start" /\ connected /\ ~threadExists
  /\ committed' = TRUE /\ threadExists' = TRUE /\ pc' = "request"
  /\ GoTo("tell")
  /\ UNCHANGED <<m_bSync, connected, m_State, m_tStart, m_tStop, call, reader, pool,
                 downFlushing, todo, range, pSample, seen>>

(* Nothing to pull from, or Commit failed, or Create did, which leaves the *)
(* allocator committed.                                                    *)
StartFails ==
  /\ step = "start"
  /\ \/ ~connected /\ UNCHANGED committed
     \/ connected /\ ~threadExists /\ committed' \in {committed, TRUE}
  /\ Return /\ UNCHANGED isActive
  /\ UNCHANGED <<m_bSync, connected, m_State, m_tStart, m_tStop, threadExists, call, reader, pool,
                 downFlushing, worker>>

TellStart ==
  /\ \/ step = "start" /\ connected /\ threadExists
     \/ step = "tell"
  /\ call = "none"
  /\ m_State' = "TM_Start" /\ call' = "TM_Start"
  /\ GoTo("started")
  /\ UNCHANGED <<m_bSync, connected, m_tStart, m_tStop, threadExists, committed, reader, pool,
                 downFlushing, worker>>

Started ==
  /\ \/ step = "started" /\ call = "answered"
     \/ step = "done"
  /\ call' = "none" /\ Return /\ isActive' = (isActive \/ op = "active")
  /\ UNCHANGED <<settings, reader, pool, downFlushing, worker>>

-----------------------------------------------------------------------------
(* The worker.                                                             *)

Work(next) == pc' = next /\ UNCHANGED <<settings, application, call, downFlushing>>

GetRequest ==
  /\ pc = "request" /\ call \in {"TM_Start", "TM_Pause", "TM_Exit"}
  /\ call' = "answered"
  /\ pc' = CASE call = "TM_Start" -> "process"
             [] call = "TM_Pause" -> "flush"
             [] call = "TM_Exit"  -> "exit"
  /\ UNCHANGED <<settings, application, reader, pool, downFlushing, todo, range, pSample, seen>>

ThreadEnds ==
  /\ pc = "exit" /\ Work("none")
  /\ UNCHANGED <<reader, pool, todo, range, pSample, seen>>

AlignDown(x) == (x \div Align) * Align
AlignUp(x) == AlignDown(x + Align - 1)
Least(a, b) == IF a < b THEN a ELSE b

Process ==
  /\ pc = "process"
  /\ round' = 1 - round /\ result' = "none" /\ delivered' = <<>> /\ ended' = FALSE
  /\ IF m_tStop <= m_tStart
     THEN Work("end") /\ UNCHANGED range
     ELSE /\ connected
          /\ tStart' = AlignDown(m_tStart) /\ tCurrent' = tStart'
          /\ tStop' = Least(m_tStop, Duration) /\ tAlignStop' = AlignUp(tStop')
          /\ bDiscontinuity' = TRUE
          /\ Work("check")
  /\ UNCHANGED <<reader, pool, todo, pSample>>

(* The outer loop, where a request is looked for.                          *)
CheckRequest ==
  /\ pc = "check"
  /\ Work(IF tCurrent >= tAlignStop THEN "end"
          ELSE IF call # "none" /\ call # "answered" THEN "flush"
          ELSE IF m_bSync THEN "buffer"
          ELSE IF cBuffers > 1 THEN "first" ELSE "buffer")
  /\ UNCHANGED <<reader, pool, todo, range, pSample, seen>>

(* QueueSample, for the first sample and for those of the inner loop, and  *)
(* the reads of the synchronous loop.                                      *)
NewSample == [start |-> tCurrent, stop |-> Least(tCurrent + 1, tAlignStop),
              disc |-> bDiscontinuity, round |-> round]

GetBuffer ==
  /\ pc \in {"first", "buffer"} /\ connected /\ free > 0
  /\ free' = free - 1
  /\ pSample' = NewSample /\ tCurrent' = NewSample.stop /\ bDiscontinuity' = FALSE
  /\ todo' = pc
  /\ Work(IF m_bSync THEN "read" ELSE "queue")
  /\ UNCHANGED <<reader, kept, tStart, tAlignStop, tStop, seen>>

Queue ==
  /\ pc = "queue" /\ connected
  /\ IF flushing
     THEN /\ free' = free + 1 /\ todo' = "flush" /\ Work("cleanup") /\ UNCHANGED requests
     ELSE /\ requests' = Append(requests, pSample) /\ UNCHANGED <<free, todo>>
          /\ Work(IF todo = "first" THEN "inner" ELSE "collect")
  /\ pSample' = NoSample
  /\ UNCHANGED <<flushing, kept, range, seen>>

Inner ==
  /\ pc = "inner"
  /\ IF tCurrent < tAlignStop THEN Work("buffer") /\ UNCHANGED todo
     ELSE IF cBuffers > 1     THEN Work("collect") /\ todo' = "last"
     ELSE                          Work("check") /\ UNCHANGED todo
  /\ UNCHANGED <<reader, pool, range, pSample, seen>>

(* WaitForNext( INFINITE ): the reader answers when it can, or hands back  *)
(* what it has cancelled, which has failed.                                *)
Collect ==
  /\ pc = "collect" /\ connected /\ ~flushing /\ requests # <<>>
  /\ pSample' = Head(requests) /\ requests' = Tail(requests)
  /\ Work("deliver")
  /\ UNCHANGED <<flushing, pool, todo, range, seen>>

CollectCancelled ==
  /\ pc = "collect" /\ connected /\ flushing
  /\ requests' = IF requests = <<>> THEN <<>> ELSE Tail(requests)
  /\ free' = IF requests = <<>> THEN free ELSE free + 1
  /\ todo' = "flush" /\ Work("cleanup")
  /\ UNCHANGED <<flushing, kept, range, pSample, seen>>

(* SyncReadAligned.                                                        *)
Read ==
  /\ pc = "read" /\ connected
  /\ \/ flushing /\ Work("flush") /\ free' = free + 1 /\ pSample' = NoSample
     \/ Work("deliver") /\ UNCHANGED <<free, pSample>>
  /\ UNCHANGED <<reader, kept, todo, range, seen>>

(* What is delivered: the times are relative to the aligned start.         *)
Relative(s) == [start |-> s.start - tStart, stop |-> Least(s.stop, tStop) - tStart,
                disc |-> s.disc, round |-> s.round]

(* Mutant: whatever Receive says but an error, the worker goes on.         *)
OnlyErrorsEnd(r) == r = "E_FAIL"

Ends(r) == IF todo = "last" THEN r = "E_FAIL" ELSE r # "S_OK"

AfterReceive(r) ==
  IF m_bSync THEN IF Ends(r) THEN "flush" ELSE "check"
  ELSE IF r = "E_FAIL"  THEN "cleanup"
  ELSE IF Ends(r)       THEN "flush"
  ELSE IF todo = "last" THEN "check"
  ELSE                       "inner"

Receive(r) ==
  /\ pc = "deliver"
  /\ delivered' = Append(delivered, Relative(pSample)) /\ result' = r
  /\ pSample' = NoSample
  /\ \/ free' = free + 1 /\ UNCHANGED kept
     \/ kept' = kept + 1 /\ UNCHANGED free
  /\ todo' = IF r = "E_FAIL" THEN "flush" ELSE todo
  /\ Work(AfterReceive(r))
  /\ UNCHANGED <<reader, range, round, ended>>

EndOfStream ==
  /\ pc = "end"
  /\ ended' = TRUE /\ Work("flush")
  /\ UNCHANGED <<reader, pool, todo, range, pSample, round, result, delivered>>

(* CleanupCancelled: what the reader has finished or cancelled is taken    *)
(* back; without a flush, what it has not finished stays there.            *)
CleanupCancelled ==
  /\ pc \in {"cleanup", "unflush"} /\ connected
  /\ \E n \in (IF flushing THEN {Len(requests)} ELSE 0 .. Len(requests)) :
       /\ requests' = SubSeq(requests, n + 1, Len(requests)) /\ free' = free + n
  /\ IF pc = "unflush"
     THEN Work("request") /\ flushing' = FALSE
     ELSE Work(todo) /\ UNCHANGED flushing
  /\ UNCHANGED <<kept, todo, range, pSample, seen>>

(* Mutant: nothing is cancelled when the worker goes idle.                 *)
KeepRequests == UNCHANGED flushing

CancelRequests == flushing' = TRUE

ForceFlush ==
  /\ pc = "flush" /\ connected
  /\ CancelRequests /\ Work("unflush")
  /\ UNCHANGED <<requests, pool, todo, range, pSample, seen>>

(* The downstream filter gives a sample back.                              *)
GiveBack ==
  /\ kept > 0 /\ kept' = kept - 1 /\ free' = free + 1
  /\ UNCHANGED <<settings, application, call, reader, downFlushing, worker>>

Application ==
  \/ Connect \/ Active \/ Inactive \/ Disconnect
  \/ \E r \in Ranges : Seek(r[1], r[2]) \/ SeekEndFlush(r[1], r[2])

Caller == \/ SeekBeginFlush \/ NoThread \/ BeginFlushReader \/ TellToStop \/ ReaderRefuses \/ EndFlushReader
          \/ Close \/ Release \/ CreateThread \/ StartFails \/ TellStart \/ Started
          \/ \E r \in Ranges : SeekEndFlush(r[1], r[2])

Delivers == \E r \in {"S_OK", "S_FALSE", "E_FAIL"} : Receive(r)

Worker == \/ GetRequest \/ ThreadEnds \/ Process \/ CheckRequest \/ GetBuffer \/ Queue
          \/ Inner \/ CollectCancelled \/ Read \/ EndOfStream \/ CleanupCancelled \/ ForceFlush

PullNext == Application \/ Caller \/ Worker \/ Collect \/ Delivers \/ GiveBack

(* The reader need not answer before it is flushed.  Receive and the       *)
(* samples held downstream come back when the downstream filter is flushed *)
(* or, as in Inactive, has been stopped.                                   *)
Lets == downFlushing \/ op \in {"inactive", "disconnect"}

Spec == /\ Init /\ [][PullNext]_pullVars
        /\ WF_pullVars(Caller) /\ WF_pullVars(Worker)
        /\ WF_pullVars(Lets /\ Delivers) /\ WF_pullVars(Lets /\ GiveBack)

-----------------------------------------------------------------------------
InHand == IF pSample = NoSample THEN 0 ELSE 1

TypeOK ==
  /\ {m_bSync, connected, threadExists, committed, isActive, flushing, downFlushing, bDiscontinuity,
      ended} \subseteq BOOLEAN
  /\ refused \in {"none", "inactive", "disconnect", "seek"}
  /\ m_State \in {"TM_Exit", "TM_Pause", "TM_Start"}
  /\ call \in {"none", "answered", "TM_Exit", "TM_Pause", "TM_Start"}
  /\ op \in {"none", "active", "inactive", "disconnect", "seek"}
  /\ {free, kept} \subseteq 0 .. cBuffers
  /\ Len(requests) <= cBuffers
  /\ result \in {"none", "S_OK", "S_FALSE", "E_FAIL"}

(* Every sample of the allocator is in one place.                          *)
SamplesConserved == free + kept + Len(requests) + InHand = cBuffers

(* pullpin.cpp 323: a worker that waits for a command has nothing          *)
(* outstanding upstream; 326: and its own EndFlush, which may end a flush  *)
(* of the application, leaves no flush behind when it is to pull again.    *)
IdleIsClean == /\ pc = "request" => requests = <<>>
               /\ pc = "process" => requests = <<>> /\ (flushing => step \in {"ask", "wait"})

(* No worker outlives the reader and the allocator it works with, whenever *)
(* the pin is disconnected, unless the reader refused to be flushed for    *)
(* that Disconnect, which lets go of both all the same (pullpin.cpp 118).  *)
WorkerHasReader == pc # "none" => (connected /\ committed) \/ refused = "disconnect"

PullSafety == TypeOK /\ SamplesConserved /\ IdleIsClean /\ WorkerHasReader

(* Between two starts the samples of the range follow each other from the  *)
(* aligned start on, only the first marked as a discontinuity, and none    *)
(* that was asked for before the worker was stopped is among them.         *)
PullsInOrder ==
  \A i \in DOMAIN delivered :
    /\ delivered[i].round = round
    /\ delivered[i].disc = (i = 1)
    /\ delivered[i].start = IF i = 1 THEN 0 ELSE delivered[i - 1].stop

(* The end of the stream comes after all of it.                            *)
EndIsTheEnd ==
  ended /\ delivered # <<>> =>
    delivered[Len(delivered)].stop = tStop - tStart /\ requests = <<>>

PullsTheRange == PullsInOrder /\ EndIsTheEnd

(* Every call returns, though the downstream filter may hold Receive until *)
(* it is flushed (hazard: Seek holds m_AccessLock meanwhile); of a reader  *)
(* that has refused to be flushed for the worker there is, nothing is said *)
(* until the worker has been stopped.                                      *)
PullReturns == op # "none" ~> op = "none" \/ refused # "none"

(* pullpin.cpp 171: ASSERT(!ThreadExists()), of a filter that becomes      *)
(* active after it was made inactive.                                      *)
StartsWithoutThread == op = "active" /\ step = "start" => ~threadExists

(* pullpin.h 133: a "return value other than S_OK will stop data".         *)
StopIsHeeded == result \in {"S_FALSE", "E_FAIL"} => ~ended
=============================================================================
