------------------------------ MODULE CmdQueue ------------------------------
(***************************************************************************)
(* CCmdQueue and CDeferredCommand (ctlutil.cpp): commands that wait for    *)
(* their presentation time or their stream time, ordered by it, an event   *)
(* that the clock sets when the first is due, a worker that fetches and    *)
(* invokes them, and an owner that cancels or postpones them from another  *)
(* thread.  Nothing in CDeferredCommand takes a lock; the queue's methods  *)
(* hold m_Lock and are one step each.  The worker and the owner are        *)
(* external, as is the clock.  Time 0 is the code's TimeZero.              *)
(***************************************************************************)
EXTENDS Integers, Sequences, Functions

CONSTANTS
  Commands,         \* the commands that are created, numbers from 1
  Times,            \* when they are due, at least 1
  Offsets,          \* stream time offsets of Run
  MaxNow, MaxCalls  \* bounds on the clock and on the calls of the filter

VARIABLES
  m_time, m_bStream, m_pQueue, m_cRef,  \* of each command; m_pQueue: is it set
  ran,                                  \* how often each was executed
  m_listPresentation, m_listStream,
  m_evDue, m_dwAdvise, m_tCurrentAdvise, m_pClock, m_bRunning, m_StreamTimeOffset,
  clockNow, calls,
  workerPc, held,   \* the worker and the command that it got
  ownerPc, owns,    \* the owner's call and the commands that it refers to
  newTime,          \* of Postpone
  crashed           \* a thread went through a null m_pQueue

commandVars == <<m_time, m_bStream, m_pQueue, m_cRef, ran>>
adviseVars == <<m_evDue, m_dwAdvise, m_tCurrentAdvise>>
modeVars == <<m_pClock, m_bRunning, m_StreamTimeOffset>>
queueVars == <<m_listPresentation, m_listStream, adviseVars, modeVars>>
threadVars == <<workerPc, held, ownerPc, owns, newTime>>
cmdVars == <<commandVars, queueVars, threadVars, clockNow, calls, crashed>>

none == 0
Idle == <<"idle", none>>

Init ==
  /\ m_time = [c \in Commands |-> 0] /\ m_bStream = [c \in Commands |-> FALSE]
  /\ m_pQueue = [c \in Commands |-> FALSE] /\ m_cRef = [c \in Commands |-> 0]
  /\ ran = [c \in Commands |-> 0]
  /\ m_listPresentation = <<>> /\ m_listStream = <<>>
  /\ m_evDue = FALSE /\ m_dwAdvise = 0 /\ m_tCurrentAdvise = 0
  /\ m_pClock = FALSE /\ m_bRunning = FALSE /\ m_StreamTimeOffset = 0
  /\ clockNow = 0 /\ calls = 0 /\ crashed = FALSE
  /\ workerPc = "idle" /\ held = none /\ ownerPc = Idle /\ owns = {} /\ newTime = 0

(***************************************************************************)
(* The queue                                                               *)
(***************************************************************************)
FirstOf(list, default) == IF list = <<>> THEN default ELSE Head(list)

(* The presentation time of a command, as far as one is known.             *)
DueTime(c, time) == time[c] + (IF m_bStream[c] THEN m_StreamTimeOffset ELSE 0)

(* A time that has come.  Without a clock nothing is due, and nothing in   *)
(* stream time while the graph does not run.                               *)
CheckTime(time, stream) ==
  /\ m_pClock /\ (stream => m_bRunning)
  /\ time + (IF stream THEN m_StreamTimeOffset ELSE 0) <= clockNow

(* The command that comes first; the presentation time one of two equals.  *)
Earliest(presentation, stream, running, time, offset) ==
  LET p == FirstOf(presentation, none)
      s == IF running THEN FirstOf(stream, none) ELSE none
  IN  IF s # none /\ (p = none \/ time[s] + offset < time[p]) THEN s ELSE p

(* Ask the clock for the earliest time, unless that has been asked before. *)
(* An advise that is no longer wanted stays.  m_dwAdvise is the time of    *)
(* the one outstanding, 0 when it has fired.                               *)
SetTimeAdvise(presentation, stream, time, clock, advise, running, offset) ==
  LET first == Earliest(presentation, stream, running, time, offset)
      current == IF first = none THEN 0
                 ELSE time[first] + (IF first = FirstOf(presentation, none) THEN 0 ELSE offset)
      ask == current > 0 /\ current # m_tCurrentAdvise
  IN
  IF ~clock THEN UNCHANGED <<m_evDue, m_tCurrentAdvise>> /\ m_dwAdvise' = advise
  ELSE /\ m_evDue' = FALSE
       /\ m_dwAdvise' = (IF ask THEN current ELSE advise)
       /\ m_tCurrentAdvise' = (IF ask THEN current ELSE m_tCurrentAdvise)

(* In front of the first that is later.                                    *)
Sorted(list, c, time) ==
  LET Later(i) == i > Len(list) \/ time[list[i]] > time[c]
      n == CHOOSE i \in 1 .. Len(list) + 1 : Later(i) /\ \A j \in 1 .. i - 1 : ~Later(j)
  IN  (SubSeq(list, 1, n - 1) \o <<c>>) \o SubSeq(list, n, Len(list))

Without(list, c) ==
  IF c \notin Range(list) THEN list
  ELSE LET i == CHOOSE i \in DOMAIN list : list[i] = c
       IN  SubSeq(list, 1, i - 1) \o SubSeq(list, i + 1, Len(list))

Advises(presentation, stream, time) ==
  SetTimeAdvise(presentation, stream, time, m_pClock, m_dwAdvise, m_bRunning, m_StreamTimeOffset)

Insert(c, time, stream) ==
  /\ m_listStream' = (IF stream THEN Sorted(m_listStream, c, time) ELSE m_listStream)
  /\ m_listPresentation' =
       (IF stream THEN m_listPresentation ELSE Sorted(m_listPresentation, c, time))
  /\ Advises(m_listPresentation', m_listStream', time)
  /\ UNCHANGED modeVars

Queued(c) == c \in Range(m_listPresentation) \cup Range(m_listStream)

(* Mutant: the advise is left for the command that has gone.               *)
RemoveQuietly(c) ==
  /\ m_listStream' = Without(m_listStream, c)
  /\ m_listPresentation' = Without(m_listPresentation, c)
  /\ UNCHANGED <<adviseVars, modeVars>>

Remove(c) ==
  /\ m_listStream' = Without(m_listStream, c)
  /\ m_listPresentation' = Without(m_listPresentation, c)
  /\ IF Queued(c) THEN Advises(m_listPresentation', m_listStream', m_time)
     ELSE UNCHANGED adviseVars
  /\ UNCHANGED modeVars

(***************************************************************************)
(* The owner.  Its reference is counted as soon as New returns.            *)
(***************************************************************************)
Running == ~crashed

(* The constructor: the command joins the queue with one reference of the  *)
(* queue's; the caller of New counts its own at once.                       *)
Construct(c) ==
  /\ \E t \in Times, stream \in BOOLEAN :
       /\ m_time' = [m_time EXCEPT ![c] = t] /\ m_bStream' = [m_bStream EXCEPT ![c] = stream]
       /\ Insert(c, m_time', stream)
  /\ m_pQueue' = [m_pQueue EXCEPT ![c] = TRUE]

New(c) ==
  /\ Running /\ ownerPc = Idle /\ c \notin owns /\ m_cRef[c] = 0 /\ ran[c] = 0 /\ m_time[c] = 0
  /\ \A d \in Commands : d < c => m_time[d] > 0
  /\ Construct(c)
  /\ m_cRef' = [m_cRef EXCEPT ![c] = 2] /\ owns' = owns \cup {c}
  /\ UNCHANGED <<ran, workerPc, held, ownerPc, newTime, clockNow, calls, crashed>>

(* Cancel answers VFW_E_ALREADY_CANCELLED and changes nothing when         *)
(* m_pQueue is null; it leaves m_pQueue when Remove does not find it.      *)
Cancel(c) ==
  /\ Running /\ ownerPc = Idle /\ c \in owns /\ m_cRef[c] > 0 /\ m_pQueue[c] /\ Queued(c)
  /\ Remove(c) /\ m_cRef' = [m_cRef EXCEPT ![c] = @ - 1] /\ ownerPc' = <<"cancel", c>>
  /\ UNCHANGED <<m_time, m_bStream, m_pQueue, ran, workerPc, held, owns, newTime, clockNow,
                 calls, crashed>>

Cancelled(c) ==
  /\ Running /\ ownerPc = <<"cancel", c>>
  /\ m_pQueue' = [m_pQueue EXCEPT ![c] = FALSE] /\ ownerPc' = Idle
  /\ UNCHANGED <<m_time, m_bStream, m_cRef, ran, queueVars, workerPc, held, owns, newTime,
                 clockNow, calls, crashed>>

(* Postpone looks at m_pQueue not at all.                                  *)
Postpone(c) ==
  /\ Running /\ ownerPc = Idle /\ c \in owns /\ m_cRef[c] > 0
  /\ crashed' = ~m_pQueue[c]
  /\ \E t \in Times :
       IF m_pQueue[c] /\ ~CheckTime(t, m_bStream[c]) /\ Queued(c)
       THEN /\ Remove(c) /\ m_cRef' = [m_cRef EXCEPT ![c] = @ - 1]
            /\ ownerPc' = <<"postpone", c>> /\ newTime' = t
       ELSE UNCHANGED <<queueVars, m_cRef, ownerPc, newTime>>
  /\ UNCHANGED <<m_time, m_bStream, m_pQueue, ran, workerPc, held, owns, clockNow, calls>>

Postponed(c) ==
  /\ Running /\ ownerPc = <<"postpone", c>> /\ ownerPc' = Idle /\ newTime' = 0
  /\ m_time' = [m_time EXCEPT ![c] = newTime]
  /\ crashed' = ~m_pQueue[c]
  /\ IF m_pQueue[c] THEN Insert(c, m_time', m_bStream[c]) /\ m_cRef' = [m_cRef EXCEPT ![c] = @ + 1]
     ELSE UNCHANGED <<queueVars, m_cRef>>
  /\ UNCHANGED <<m_bStream, m_pQueue, ran, workerPc, held, owns, clockNow, calls>>

Release(c) ==
  /\ Running /\ ownerPc = Idle /\ c \in owns /\ m_cRef[c] > 0
  /\ owns' = owns \ {c} /\ m_cRef' = [m_cRef EXCEPT ![c] = @ - 1]
  /\ UNCHANGED <<m_time, m_bStream, m_pQueue, ran, queueVars, workerPc, held, ownerPc, newTime,
                 clockNow, calls, crashed>>

(***************************************************************************)
(* The worker                                                              *)
(***************************************************************************)
Got(c) == m_cRef' = [m_cRef EXCEPT ![c] = @ + 1] /\ held' = c /\ workerPc' = "got"

First == Earliest(m_listPresentation, m_listStream, m_bRunning, m_time, m_StreamTimeOffset)

(* The command that GetDueCommand returns, none if there is none.          *)
DueCommand ==
  IF First # none /\ CheckTime(m_time[First], m_bStream[First]) THEN First ELSE none

GetDueCommand ==
  /\ Running /\ workerPc = "idle"
  /\ IF DueCommand # none THEN Got(DueCommand)
     ELSE workerPc' = "wait" /\ UNCHANGED <<m_cRef, held>>
  /\ UNCHANGED <<m_time, m_bStream, m_pQueue, ran, queueVars, ownerPc, owns, newTime, clockNow,
                 calls, crashed>>

WaitEnds ==
  /\ Running /\ workerPc = "wait" /\ workerPc' = "idle"
  /\ UNCHANGED <<commandVars, queueVars, held, ownerPc, owns, newTime, clockNow, calls, crashed>>

(* It is woken, or its time-out passes.                                    *)
Woken == m_evDue /\ WaitEnds
TimedOut == ~m_evDue /\ WaitEnds

(* For the samples of stream time t: the last of the three ways returns a  *)
(* pointer that is not counted.                                            *)
GetCommandDueFor(t) ==
  /\ Running /\ workerPc = "idle"
  /\ LET p == FirstOf(m_listPresentation, none)
         s == FirstOf(m_listStream, none)
     IN  IF p # none /\ CheckTime(m_time[p], FALSE) THEN Got(p)
         ELSE IF s # none /\ m_time[s] <= t THEN Got(s)
         ELSE /\ m_bRunning /\ p # none /\ m_time[p] <= t + m_StreamTimeOffset
              /\ held' = p /\ workerPc' = "got" /\ UNCHANGED m_cRef
  /\ UNCHANGED <<m_time, m_bStream, m_pQueue, ran, queueVars, ownerPc, owns, newTime, clockNow,
                 calls, crashed>>

(* It is executed unless it has been cancelled.                            *)
Invoke ==
  /\ Running /\ workerPc = "got"
  /\ ran' = [ran EXCEPT ![held] = @ + (IF m_pQueue[held] THEN 1 ELSE 0)]
  /\ workerPc' = (IF m_pQueue[held] THEN "invoked" ELSE "release")
  /\ UNCHANGED <<m_time, m_bStream, m_pQueue, m_cRef, queueVars, held, ownerPc, owns, newTime,
                 clockNow, calls, crashed>>

(* "remove from list whether or not successful or we loop indefinitely"    *)
Invoked ==
  /\ Running /\ workerPc = "invoked" /\ workerPc' = "release"
  /\ crashed' = ~m_pQueue[held]
  /\ IF m_pQueue[held]
     THEN /\ Remove(held) /\ m_pQueue' = [m_pQueue EXCEPT ![held] = FALSE]
          /\ m_cRef' = [m_cRef EXCEPT ![held] = @ - (IF Queued(held) THEN 1 ELSE 0)]
     ELSE UNCHANGED <<queueVars, m_pQueue, m_cRef>>
  /\ UNCHANGED <<m_time, m_bStream, ran, held, ownerPc, owns, newTime, clockNow, calls>>

Released ==
  /\ Running /\ workerPc = "release" /\ workerPc' = "idle" /\ held' = none
  /\ m_cRef' = [m_cRef EXCEPT ![held] = @ - 1]
  /\ UNCHANGED <<m_time, m_bStream, m_pQueue, ran, queueVars, ownerPc, owns, newTime, clockNow,
                 calls, crashed>>

(***************************************************************************)
(* The filter, and the clock                                               *)
(***************************************************************************)
FilterCall == Running /\ calls < MaxCalls /\ calls' = calls + 1

Lists == UNCHANGED <<m_listPresentation, m_listStream>>

(* The advise of the old clock is taken back.                              *)
SetSyncSource(clock) ==
  /\ FilterCall /\ clock # m_pClock /\ m_pClock' = clock
  /\ LET advise == IF m_pClock THEN 0 ELSE m_dwAdvise IN
     SetTimeAdvise(m_listPresentation, m_listStream, m_time, clock, advise, m_bRunning,
                   m_StreamTimeOffset)
  /\ Lists /\ UNCHANGED <<m_bRunning, m_StreamTimeOffset, commandVars, threadVars, clockNow, crashed>>

Run(offset) ==
  /\ FilterCall /\ ~m_bRunning /\ m_bRunning' = TRUE /\ m_StreamTimeOffset' = offset
  /\ SetTimeAdvise(m_listPresentation, m_listStream, m_time, m_pClock, m_dwAdvise, TRUE, offset)
  /\ Lists /\ UNCHANGED <<m_pClock, commandVars, threadVars, clockNow, crashed>>

EndRun ==
  /\ FilterCall /\ m_bRunning /\ m_bRunning' = FALSE
  /\ SetTimeAdvise(m_listPresentation, m_listStream, m_time, m_pClock, m_dwAdvise, FALSE,
                   m_StreamTimeOffset)
  /\ Lists /\ UNCHANGED <<m_pClock, m_StreamTimeOffset, commandVars, threadVars, clockNow, crashed>>

ClockFires ==
  /\ Running /\ m_dwAdvise \in 1 .. clockNow /\ m_evDue' = TRUE /\ m_dwAdvise' = 0
  /\ Lists /\ UNCHANGED <<m_tCurrentAdvise, modeVars, commandVars, threadVars, clockNow, calls, crashed>>

ClockTicks ==
  /\ Running /\ clockNow < MaxNow /\ clockNow' = clockNow + 1
  /\ UNCHANGED <<commandVars, queueVars, threadVars, calls, crashed>>

Owner == \E c \in Commands :
  New(c) \/ Cancel(c) \/ Cancelled(c) \/ Postpone(c) \/ Postponed(c) \/ Release(c)

Fetch == GetDueCommand \/ WaitEnds
Executes == Invoke \/ Invoked \/ Released

Filter == \/ \E clock \in BOOLEAN : SetSyncSource(clock)
          \/ \E offset \in Offsets : Run(offset)
          \/ EndRun

CmdNext ==
  \/ Owner \/ GetDueCommand \/ Woken \/ TimedOut \/ Executes \/ Filter
  \/ \E t \in Times : GetCommandDueFor(t)
  \/ ClockFires \/ ClockTicks

CmdSpec == Init /\ [][CmdNext]_cmdVars

(***************************************************************************)
(* Correctness                                                             *)
(***************************************************************************)
InTimeOrder(list) == \A i, j \in DOMAIN list : i < j => m_time[list[i]] <= m_time[list[j]]

(* In whatever order commands are queued, postponed, cancelled, fetched    *)
(* and invoked: both lists are in time order and hold each command at most *)
(* once; what is in neither is there for no one to fetch; nothing is       *)
(* executed twice; and while there is a clock the last advise asked for is *)
(* that of the earliest of all commands.                                   *)
CmdSafety ==
  /\ InTimeOrder(m_listPresentation) /\ InTimeOrder(m_listStream)
  /\ IsInjective(m_listPresentation \o m_listStream)
  /\ \A c \in Commands : ran[c] <= 1
  /\ \A c \in Range(m_listPresentation) : ~m_bStream[c]
  /\ \A c \in Range(m_listStream) : m_bStream[c]
  /\ m_pClock /\ First # none => m_tCurrentAdvise = DueTime(First, m_time)

(* A worker that asks again and again gets to every command that is due:   *)
(* again and again nothing is (none that cannot run yet keeps one that can *)
(* from being fetched).                                                    *)
SomethingIsDue ==
  \E c \in Commands : Queued(c) /\ CheckTime(m_time[c], m_bStream[c])
NothingIsLeftDue == SomethingIsDue => crashed

(* "signalled whenever there are deferred commands due for execution (when *)
(* GetDueCommand will not block)" (GetDueHandle).                          *)
DueHandle == DueCommand # none => m_evDue \/ m_dwAdvise # 0

(* "Returns an AddRef-ed object": every pointer held is counted.           *)
AddRefed ==
  ~crashed => \A c \in Commands :
    m_cRef[c] >= (IF Queued(c) THEN 1 ELSE 0) + (IF c \in owns THEN 1 ELSE 0)
                 + (IF held = c THEN 1 ELSE 0)

(* No call goes through the null m_pQueue of a command that another thread *)
(* has cancelled or invoked.                                               *)
NoCrash == ~crashed
=============================================================================
