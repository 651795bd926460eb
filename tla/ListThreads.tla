---------------------------- MODULE ListThreads ----------------------------
(***************************************************************************)
(* AddTailI of one CBaseList (wxlist.cpp), statement by statement, called   *)
(* by several threads at once: no call takes a lock.  Each thread adds one  *)
(* node, named like it; the cache, which is not locked either, is left out. *)
(***************************************************************************)
EXTENDS Naturals, Sequences, FiniteSets, Functions

CONSTANTS Threads, NoNode

VARIABLES prev, next, m_pFirst, m_pLast, m_Count,   \* the nodes and the list
          pc, counted                               \* the call of each thread

vars == <<prev, next, m_pFirst, m_pLast, m_Count, pc, counted>>

Init ==
    /\ prev = [t \in Threads |-> NoNode] /\ next = [t \in Threads |-> NoNode]
    /\ m_pFirst = NoNode /\ m_pLast = NoNode /\ m_Count = 0
    /\ pc = [t \in Threads |-> "new"]
    /\ counted = [t \in Threads |-> 0]

Step(t, from, to) == pc[t] = from /\ pc' = [pc EXCEPT ![t] = to]

AddTail(t) ==
    /\ Step(t, "new", "link")
    /\ next' = [next EXCEPT ![t] = NoNode] /\ prev' = [prev EXCEPT ![t] = m_pLast]
    /\ UNCHANGED <<m_pFirst, m_pLast, m_Count, counted>>

AddLinks(t) ==
    /\ Step(t, "link", "last")
    /\ IF m_pLast = NoNode THEN m_pFirst' = t /\ UNCHANGED next
       ELSE next' = [next EXCEPT ![m_pLast] = t] /\ UNCHANGED m_pFirst
    /\ UNCHANGED <<prev, m_pLast, m_Count, counted>>

AddSetsLast(t) ==
    /\ Step(t, "last", "count") /\ m_pLast' = t
    /\ UNCHANGED <<prev, next, m_pFirst, m_Count, counted>>

(* ++m_Count reads and writes.                                             *)
ReadCount(t) ==
    /\ Step(t, "count", "write") /\ counted' = [counted EXCEPT ![t] = m_Count]
    /\ UNCHANGED <<prev, next, m_pFirst, m_pLast, m_Count>>

WriteCount(t) ==
    /\ Step(t, "write", "done")
    /\ m_Count' = counted[t] + 1
    /\ UNCHANGED <<prev, next, m_pFirst, m_pLast, counted>>

Next == \E t \in Threads :
    AddTail(t) \/ AddLinks(t) \/ AddSetsLast(t) \/ ReadCount(t) \/ WriteCount(t)

Spec == Init /\ [][Next]_vars

Reach[n \in Threads \cup {NoNode}, k \in 0 .. Cardinality(Threads)] ==
    IF n = NoNode \/ k = 0 THEN {} ELSE {n} \cup Reach[next[n], k - 1]

(* "The class is thread safe in that separate threads may add and delete   *)
(* items in the list concurrently" (wxlist.h, wxlist.cpp): when the calls  *)
(* have returned the list holds what they added, and counts it.            *)
ThreadSafe ==
    (\A t \in Threads : pc[t] = "done") =>
        Reach[m_pFirst, Cardinality(Threads)] = Threads /\ m_Count = Cardinality(Threads)
=============================================================================
