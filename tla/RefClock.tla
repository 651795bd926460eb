------------------------------ MODULE RefClock ------------------------------
(***************************************************************************)
(* CBaseReferenceClock (refclock.cpp) with its CAMSchedule (schedule.cpp): *)
(* clients ask to be advised at a time, once or periodically, and take it  *)
(* back; an outside clock corrects the time; a thread of the highest       *)
(* priority sleeps until the first advise is due and signals it.           *)
(*                                                                         *)
(* A unit of reference time is half a millisecond, the least correction    *)
(* SetTimeDelta wakes the thread for; waits and timeGetTime are in         *)
(* milliseconds.  The time a step of the thread takes is not counted.      *)
(***************************************************************************)
EXTENDS Integers, Sequences, SequencesExt, FiniteSets

CONSTANTS Clients,
          DueTimes,    \* due times clients ask for
          Periods,
          Deltas,      \* corrections of the clock
          CacheMax,    \* dwCacheMax: 5 in the code
          MaxSys,      \* bound on timeGetTime
          MaxCookies,  \* bound on advises
          MaxDeltas    \* bound on corrections

ASSUME ClockAssumption ==
  /\ DueTimes \subseteq Nat \ {0} /\ Periods \subseteq Nat \ {0} /\ Deltas \subseteq Int
  /\ CacheMax \in Nat /\ MaxSys \in Nat /\ MaxCookies \in Nat /\ MaxDeltas \in Nat
  /\ {"none", "thread"} \cap Clients = {}

VARIABLES
  list,              \* the packets between head and z
  m_dwNextCookie, m_dwAdviseCount, m_dwCacheCount,
  m_ev,              \* the event that ends the thread's wait
  holder,            \* of m_Serialize: "none", "thread" or a client
  sys,               \* timeGetTime()
  m_dwPrevSystemTime, m_rtPrivateTime, m_rtLastGotTime,
  m_bAbort,
  pc,                \* of AdviseThread: "wait", "look", "enter", "fire", "ended", "closed"
  rtNow, deadline,   \* what it works from; when its wait times out
  looked,            \* timeGetTime() when it last took rtNow
  cookie,            \* what each client was given, 0 when it has none
  signals,           \* how often its event or semaphore was signalled for it
  highest,           \* the latest the private time has been
  drift,             \* corrections the thread was not woken for since it looked
  deltas             \* corrections so far

schedule == <<list, m_dwNextCookie, m_dwAdviseCount, m_dwCacheCount>>
times == <<m_dwPrevSystemTime, m_rtPrivateTime, m_rtLastGotTime>>
thread == <<pc, rtNow, deadline, looked>>
clients == <<cookie, signals>>
history == <<highest, drift, deltas>>
clockVars == <<schedule, m_ev, holder, sys, times, m_bAbort, thread, clients, history>>

Infinite == -1
Millisecond == 2

(* What GetPrivateTime would return now.                                   *)
PrivateNow == m_rtPrivateTime + Millisecond * (sys - m_dwPrevSystemTime)

Larger(a, b) == IF a > b THEN a ELSE b

ClockInit ==
  /\ list = <<>> /\ m_dwNextCookie = 0 /\ m_dwAdviseCount = 0 /\ m_dwCacheCount = 0
  /\ m_ev = FALSE /\ holder = "none" /\ sys = 0
  /\ m_dwPrevSystemTime = sys /\ m_rtPrivateTime = Millisecond * sys /\ m_rtLastGotTime = 0
  /\ m_bAbort = FALSE
  /\ pc = "wait" /\ rtNow = 0 /\ deadline = Infinite /\ looked = 0
  /\ cookie = [c \in Clients |-> 0] /\ signals = [c \in Clients |-> 0]
  /\ highest = PrivateNow /\ drift = 0 /\ deltas = 0

-----------------------------------------------------------------------------
(* The schedule.                                                           *)

(* A new packet goes before those of its time, a shunted one after them.   *)
Before(l, t) == Cardinality({i \in DOMAIN l : l[i].time < t})
NotAfter(l, t) == Cardinality({i \in DOMAIN l : l[i].time <= t})

(* Mutant: the periodic packet stays where it is.                          *)
AdvanceHead == list' = [list EXCEPT ![1].time = @ + Head(list).period]

ShuntHead ==
  LET p == [Head(list) EXCEPT !.time = @ + Head(list).period]
      rest == Tail(list)
  IN  list' = InsertAt(rest, NotAfter(rest, p.time) + 1, p)

(* Mutant: the cookie is the number of packets on the list.                *)
CountAsCookie == m_dwAdviseCount + 1

NewCookie == m_dwNextCookie + 1

(* SetEvent follows when the packet is the new head: the lock is held      *)
(* until then.                                                             *)
AddAdvisePacket(c, t, period, periodic) ==
  LET p == [cookie |-> NewCookie, time |-> t, period |-> period, periodic |-> periodic,
            client |-> c]
  IN  /\ holder = "none"
      /\ m_dwCacheCount' = IF m_dwCacheCount > 0 THEN m_dwCacheCount - 1 ELSE 0
      /\ list' = InsertAt(list, Before(list, t) + 1, p)
      /\ m_dwNextCookie' = m_dwNextCookie + 1
      /\ m_dwAdviseCount' = m_dwAdviseCount + 1
      /\ holder' = c
      /\ cookie' = [cookie EXCEPT ![c] = NewCookie]
      /\ signals' = [signals EXCEPT ![c] = 0]

(* Mutant: the event is set only for the first packet of an empty list.    *)
IsOnlyPacket(c) == Len(list) = 1

IsNewHead(c) == Head(list).cookie = cookie[c]

Announce(c) ==
  /\ holder = c
  /\ m_ev' = (m_ev \/ IsNewHead(c))
  /\ holder' = "none"
  /\ UNCHANGED <<schedule, sys, times, m_bAbort, thread, clients, history>>

DeletePacket == m_dwCacheCount' = IF m_dwCacheCount >= CacheMax THEN m_dwCacheCount
                                                                 ELSE m_dwCacheCount + 1

(* Only the first packet with the cookie goes.                             *)
Unadvise(c) ==
  LET hits == {i \in DOMAIN list : list[i].cookie = cookie[c]}
  IN  /\ ~m_bAbort /\ cookie[c] # 0 /\ holder = "none"
      /\ IF hits = {}
         THEN UNCHANGED <<list, m_dwAdviseCount, m_dwCacheCount>>
         ELSE /\ list' = RemoveAt(list, CHOOSE i \in hits : \A j \in hits : i <= j)
              /\ m_dwAdviseCount' = m_dwAdviseCount - 1
              /\ DeletePacket
      /\ cookie' = [cookie EXCEPT ![c] = 0]
      /\ UNCHANGED <<m_dwNextCookie, m_ev, holder, sys, times, m_bAbort, thread, signals,
                     history>>

-----------------------------------------------------------------------------
(* The interface of the clock.                                             *)

AdviseTime(c, t) ==
  /\ ~m_bAbort /\ cookie[c] = 0 /\ m_dwNextCookie < MaxCookies
  /\ AddAdvisePacket(c, t, 0, FALSE)
  /\ UNCHANGED <<m_ev, sys, times, m_bAbort, thread, history>>

AdvisePeriodic(c, t, period) ==
  /\ ~m_bAbort /\ cookie[c] = 0 /\ m_dwNextCookie < MaxCookies
  /\ AddAdvisePacket(c, t, period, TRUE)
  /\ UNCHANGED <<m_ev, sys, times, m_bAbort, thread, history>>

GetPrivateTime ==
  m_rtPrivateTime' = PrivateNow /\ m_dwPrevSystemTime' = sys

GetTime ==
  /\ ~m_bAbort
  /\ GetPrivateTime
  /\ m_rtLastGotTime' = Larger(m_rtLastGotTime, PrivateNow)
  /\ UNCHANGED <<schedule, m_ev, holder, sys, m_bAbort, thread, clients, history>>

(* Under the lock of the clock but not under that of the schedule, whose   *)
(* count it reads.                                                         *)
(* Mutant: only a correction backwards wakes the thread.                   *)
TriggerBackwards(d) == d < -1 /\ m_dwAdviseCount > 0

WorthATrigger(d) == d > 1 /\ m_dwAdviseCount > 0

SetTimeDelta(d) ==
  /\ ~m_bAbort /\ deltas < MaxDeltas
  /\ m_rtPrivateTime' = m_rtPrivateTime + d
  /\ m_ev' = (m_ev \/ WorthATrigger(d))
  /\ highest' = Larger(highest, PrivateNow + d)
  /\ drift' = drift + (IF d = 1 THEN d ELSE 0)
  /\ deltas' = deltas + 1
  /\ UNCHANGED <<schedule, holder, sys, m_dwPrevSystemTime, m_rtLastGotTime, m_bAbort, thread,
                 clients>>

(* Mutant: the destructor does not trigger the thread.                     *)
AbortOnly == m_bAbort' = TRUE /\ UNCHANGED m_ev

Abort == m_bAbort' = TRUE /\ m_ev' = TRUE

(* The last reference went: no client is in a call.                        *)
Destroy ==
  /\ ~m_bAbort /\ holder \notin Clients
  /\ Abort
  /\ UNCHANGED <<schedule, holder, sys, times, thread, clients, history>>

DeleteSchedule ==
  /\ pc = "ended"
  /\ list' = <<>> /\ m_dwAdviseCount' = m_dwAdviseCount - Len(list) /\ m_dwCacheCount' = 0
  /\ pc' = "closed"
  /\ UNCHANGED <<m_dwNextCookie, m_ev, holder, sys, times, m_bAbort, rtNow, deadline, looked,
                 clients, history>>

-----------------------------------------------------------------------------
(* The thread.                                                             *)

Wake ==
  /\ pc = "wait" /\ (m_ev \/ deadline = sys)
  /\ m_ev' = FALSE
  /\ pc' = IF m_bAbort THEN "ended" ELSE "look"
  /\ UNCHANGED <<schedule, holder, sys, times, m_bAbort, rtNow, deadline, looked, clients,
                 history>>

Look ==
  /\ pc = "look"
  /\ GetPrivateTime /\ rtNow' = PrivateNow /\ looked' = sys /\ drift' = 0
  /\ pc' = "enter"
  /\ UNCHANGED <<schedule, m_ev, holder, sys, m_rtLastGotTime, m_bAbort, deadline, clients,
                 highest, deltas>>

EnterAdvise ==
  /\ pc = "enter" /\ holder = "none"
  /\ holder' = "thread" /\ pc' = "fire"
  /\ UNCHANGED <<schedule, m_ev, sys, times, m_bAbort, rtNow, deadline, looked, clients,
                 history>>

(* Advise is called with a millisecond more than the time, the resolution   *)
(* of the wait.                                                            *)
(* Mutant: it is called with the time as it is.                            *)
DueNow == list # <<>> /\ rtNow >= Head(list).time

Due == list # <<>> /\ rtNow + Millisecond >= Head(list).time

(* One turn of the loop of CAMSchedule::Advise.                            *)
Fire ==
  /\ pc = "fire" /\ Due
  /\ signals' = [signals EXCEPT ![Head(list).client] = @ + 1]
  /\ IF Head(list).periodic
     THEN ShuntHead /\ UNCHANGED <<m_dwAdviseCount, m_dwCacheCount>>
     ELSE /\ list' = Tail(list)
          /\ m_dwAdviseCount' = m_dwAdviseCount - 1
          /\ DeletePacket
  /\ UNCHANGED <<m_dwNextCookie, m_ev, holder, sys, times, m_bAbort, thread, cookie, history>>

(* How long to sleep, in whole milliseconds.                               *)
WaitFor(t) == (t - rtNow) \div Millisecond

Plan ==
  /\ pc = "fire" /\ ~Due
  /\ deadline' = IF list = <<>> THEN Infinite ELSE sys + WaitFor(Head(list).time)
  /\ holder' = "none"
  /\ pc' = IF m_bAbort THEN "ended" ELSE "wait"
  /\ UNCHANGED <<schedule, m_ev, sys, times, m_bAbort, rtNow, looked, clients, history>>

-----------------------------------------------------------------------------
(* Time passes while the thread sleeps: it has the highest priority.       *)
Sleeping == pc = "wait" /\ ~m_ev /\ deadline # sys

Tick ==
  /\ Sleeping /\ sys < MaxSys
  /\ sys' = sys + 1
  /\ highest' = Larger(highest, PrivateNow + Millisecond)
  /\ UNCHANGED <<schedule, m_ev, holder, times, m_bAbort, thread, clients, drift, deltas>>

Advisee(c) ==
  \/ \E t \in DueTimes : AdviseTime(c, t)
  \/ \E t \in DueTimes, period \in Periods : AdvisePeriodic(c, t, period)
  \/ Unadvise(c)

AdviseThread == Wake \/ Look \/ EnterAdvise \/ Fire \/ Plan

ClockNext ==
  \/ \E c \in Clients : Advisee(c) \/ Announce(c)
  \/ \E d \in Deltas : SetTimeDelta(d)
  \/ GetTime \/ Destroy \/ DeleteSchedule \/ AdviseThread \/ Tick

ClockSpec == /\ ClockInit /\ [][ClockNext]_clockVars
             /\ WF_clockVars(AdviseThread) /\ WF_clockVars(DeleteSchedule) /\ WF_clockVars(Tick)
             /\ \A c \in Clients : WF_clockVars(Announce(c))

-----------------------------------------------------------------------------
Packets == [cookie : 1 .. MaxCookies, time : Nat, period : Periods \union {0},
            periodic : BOOLEAN, client : Clients]

TypeOK ==
  /\ list \in Seq(Packets)
  /\ m_dwNextCookie \in 0 .. MaxCookies /\ m_dwAdviseCount \in 0 .. MaxCookies
  /\ m_dwCacheCount \in 0 .. CacheMax
  /\ m_ev \in BOOLEAN /\ m_bAbort \in BOOLEAN /\ holder \in Clients \union {"none", "thread"}
  /\ sys \in 0 .. MaxSys /\ m_dwPrevSystemTime \in 0 .. sys
  /\ {m_rtPrivateTime, m_rtLastGotTime, rtNow, highest} \subseteq Int
  /\ pc \in {"wait", "look", "enter", "fire", "ended", "closed"}
  /\ deadline \in {Infinite} \union Nat /\ looked \in Nat
  /\ cookie \in [Clients -> 0 .. MaxCookies] /\ signals \in [Clients -> Nat]
  /\ drift \in Nat /\ deltas \in 0 .. MaxDeltas

(* Every packet on the list is one some client still holds the cookie of,  *)
(* the one of a client that has not been signalled is there, and the count *)
(* others read without the lock is its length (schedule.cpp 43, 58).       *)
ListBelongsToClients ==
  /\ \A i \in DOMAIN list : m_bAbort \/ cookie[list[i].client] = list[i].cookie
  /\ \A c \in Clients : cookie[c] = 0 \/ m_bAbort \/ signals[c] > 0
                          \/ \E i \in DOMAIN list : list[i].client = c
  /\ m_dwAdviseCount = Len(list)

(* A one-shot is signalled at most once, and only what it still asks for.  *)
OneShotRingsOnce ==
  \A i \in DOMAIN list : list[i].periodic \/ signals[list[i].client] = 0

(* CAMSchedule keeps its packets in order of time; a client has one at a   *)
(* time here, and no two are given the same cookie.                        *)
InOrder(l) == \A i, j \in DOMAIN l : i < j => l[i].time <= l[j].time
OnePerClient(l) == \A i, j \in DOMAIN l : i # j => l[i].client # l[j].client
ListInOrder ==
  /\ InOrder(list) /\ OnePerClient(list)
  /\ \A c, d \in Clients : cookie[c] = cookie[d] /\ cookie[c] # 0 => c = d

(* ASSERT( llWait > 0 ), refclock.cpp 358: the wait that the thread plans   *)
(* is at least one whole millisecond.  When it ends by itself the time is  *)
(* later than when the thread looked last: it does not loop "franticly".   *)
NeverSpins == pc = "wait" /\ deadline # Infinite => deadline > looked

ClockSafety == TypeOK /\ ListBelongsToClients /\ OneShotRingsOnce /\ ListInOrder /\ NeverSpins

(* The thread does not sleep past an advise (schedule.cpp 215): while it   *)
(* sleeps and no call is adding one, no packet of the list is overdue by   *)
(* more than the small corrections it was not woken for, whatever was      *)
(* inserted, removed, shunted or corrected meanwhile.                      *)
NeverLate ==
  Sleeping /\ holder \notin Clients =>
    \A i \in DOMAIN list : list[i].time >= PrivateNow - drift

(* The clock keeps what AlarmService promises.                             *)
Alarms == INSTANCE AlarmService
            WITH pending <- {list[i] : i \in DOMAIN list}, asked <- m_dwNextCookie,
                 reached <- highest, told <- m_rtLastGotTime, Resolution <- Millisecond
KeepsItsPromise == Alarms!Spec

(* A client that does not take its advise back is signalled, and the       *)
(* destructor's wait for the thread ends.                                  *)
Served ==
  /\ \A c \in Clients : cookie[c] # 0 ~> signals[c] > 0 \/ cookie[c] = 0 \/ m_bAbort
  /\ m_bAbort ~> pc = "closed"

=============================================================================
