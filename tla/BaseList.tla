---------------------------- MODULE BaseList ----------------------------
(***************************************************************************)
(* CBaseList (wxlist.h, wxlist.cpp): doubly linked chains of nodes, each   *)
(* list with a cache of its own for the nodes it has removed.  Nodes move  *)
(* from list to list by relinking.  An operation on one element is one     *)
(* step; an operation that copies a whole list takes one step per element, *)
(* because `new` may answer NULL between two of them.                      *)
(***************************************************************************)
EXTENDS Naturals, Integers, Sequences, FiniteSets, FiniteSetsExt, Functions

CONSTANTS Lists, Nodes, Objects, NoNode, CacheSize    \* nodes are numbers

VARIABLES prev, next, data,                 \* CNode: m_pPrev, m_pNext, m_pObject
          first, last, count,               \* m_pFirst, m_pLast, m_Count
          cached, used,                     \* CNodeCache: m_pHead, m_iUsed
          spare,                            \* nodes that are not allocated
          copying                           \* the whole-list call under way

chainVars == <<prev, next, data, first, last, count>>
cacheVars == <<cached, used, spare>>
vars      == <<prev, next, data, first, last, count, cached, used, spare, copying>>

Position == Nodes \cup {NoNode}
NotCopying == [op |-> "none"]

(* The nodes met from n on along the pointers f, at most one more than there are. *)
Along(f, n) ==
    LET from[k \in 0 .. Cardinality(Nodes) + 1] ==
            [m \in Nodes \cup {NoNode} |->
                IF m = NoNode \/ k = 0 THEN <<>> ELSE <<m>> \o from[k - 1][f[m]]]
    IN  from[Cardinality(Nodes) + 1][n]

InList(l) == Range(Along(next, first[l]))

Init ==
    /\ prev = [n \in Nodes |-> NoNode] /\ next = [n \in Nodes |-> NoNode]
    /\ data = [n \in Nodes |-> NoNode]
    /\ first = [l \in Lists |-> NoNode] /\ last = [l \in Lists |-> NoNode]
    /\ count = [l \in Lists |-> 0]
    /\ cached = [l \in Lists |-> NoNode] /\ used = [l \in Lists |-> 0]
    /\ spare = Nodes
    /\ copying = NotCopying

---------------------------------------------------------------------------
(* The node cache. *)

(* RemoveFromCache, then `new` when the cache is empty. *)
TakeNode(l, n) ==
    IF cached[l] # NoNode
    THEN /\ n = cached[l]
         /\ cached' = [cached EXCEPT ![l] = next[n]]
         /\ used' = [used EXCEPT ![l] = @ - 1]
         /\ UNCHANGED spare
    ELSE /\ spare # {} /\ n = Min(spare)
         /\ spare' = spare \ {n}
         /\ UNCHANGED <<cached, used>>

NoMemory(l) == cached[l] = NoNode

---------------------------------------------------------------------------
(* Linking one node that has been taken. *)

LinkTail(l, n, x) ==
    /\ data' = [data EXCEPT ![n] = x]
    /\ next' = [m \in Nodes |-> IF m = n THEN NoNode
                                ELSE IF m = last[l] THEN n ELSE next[m]]
    /\ prev' = [prev EXCEPT ![n] = last[l]]
    /\ first' = [first EXCEPT ![l] = IF last[l] = NoNode THEN n ELSE @]
    /\ last' = [last EXCEPT ![l] = n]
    /\ count' = [count EXCEPT ![l] = @ + 1]

LinkHead(l, n, x) ==
    /\ data' = [data EXCEPT ![n] = x]
    /\ prev' = [m \in Nodes |-> IF m = n THEN NoNode
                                ELSE IF m = first[l] THEN n ELSE prev[m]]
    /\ next' = [next EXCEPT ![n] = first[l]]
    /\ last' = [last EXCEPT ![l] = IF first[l] = NoNode THEN n ELSE @]
    /\ first' = [first EXCEPT ![l] = n]
    /\ count' = [count EXCEPT ![l] = @ + 1]

(* A mutant: the node that follows still points back over the new one.     *)
LinkForwards(l, n, x, after, before) ==
    /\ data' = [data EXCEPT ![n] = x]
    /\ prev' = [prev EXCEPT ![n] = after]
    /\ next' = [next EXCEPT ![n] = before, ![after] = n]
    /\ count' = [count EXCEPT ![l] = @ + 1]
    /\ UNCHANGED <<first, last>>

LinkBetween(l, n, x, after, before) ==
    /\ data' = [data EXCEPT ![n] = x]
    /\ prev' = [prev EXCEPT ![n] = after, ![before] = n]
    /\ next' = [next EXCEPT ![n] = before, ![after] = n]
    /\ count' = [count EXCEPT ![l] = @ + 1]
    /\ UNCHANGED <<first, last>>

LinkAfter(l, p, n, x) ==
    IF p = NoNode       THEN LinkHead(l, n, x)
    ELSE IF p = last[l] THEN LinkTail(l, n, x)
    ELSE                     LinkBetween(l, n, x, p, next[p])

(* A mutant: one place too late.                                           *)
LinkBehind(l, p, n, x) == LinkAfter(l, p, n, x)

LinkBefore(l, p, n, x) ==
    IF p = NoNode        THEN LinkTail(l, n, x)
    ELSE IF p = first[l] THEN LinkHead(l, n, x)
    ELSE                      LinkBetween(l, n, x, prev[p], p)

AddTailI(l, x) ==
    copying = NotCopying /\ UNCHANGED copying
      /\ \E n \in Nodes : TakeNode(l, n) /\ LinkTail(l, n, x)
AddHeadI(l, x) ==
    copying = NotCopying /\ UNCHANGED copying
      /\ \E n \in Nodes : TakeNode(l, n) /\ LinkHead(l, n, x)
AddAfterI(l, p, x) ==
    copying = NotCopying /\ UNCHANGED copying
      /\ \E n \in Nodes : TakeNode(l, n) /\ LinkAfter(l, p, n, x)
AddBeforeI(l, p, x) ==
    copying = NotCopying /\ UNCHANGED copying
      /\ \E n \in Nodes : TakeNode(l, n) /\ LinkBefore(l, p, n, x)

---------------------------------------------------------------------------
(* Removing. *)

Wipe(f, gone) == [n \in Nodes |-> IF n \in gone THEN NoNode ELSE f[n]]

Unlink(f, at, to) == IF at = NoNode THEN f ELSE [f EXCEPT ![at] = to]

(* AddToCache: a full cache deletes the node; a cached one keeps its old    *)
(* m_pPrev and m_pObject.                                                   *)
Recycle(l, n, nextNow, prevNow) ==
    IF used[l] < CacheSize
    THEN /\ next' = [nextNow EXCEPT ![n] = cached[l]]
         /\ cached' = [cached EXCEPT ![l] = n]
         /\ used' = [used EXCEPT ![l] = @ + 1]
         /\ prev' = prevNow
         /\ UNCHANGED <<spare, data>>
    ELSE /\ spare' = spare \cup {n}
         /\ next' = Wipe(nextNow, {n}) /\ prev' = Wipe(prevNow, {n})
         /\ data' = Wipe(data, {n})
         /\ UNCHANGED <<cached, used>>

RemoveI(l, p) ==
    /\ copying = NotCopying /\ p \in InList(l)
    /\ first' = IF prev[p] = NoNode THEN [first EXCEPT ![l] = next[p]] ELSE first
    /\ last' = IF next[p] = NoNode THEN [last EXCEPT ![l] = prev[p]] ELSE last
    /\ Recycle(l, p, Unlink(next, prev[p], next[p]), Unlink(prev, next[p], prev[p]))
    /\ count' = [count EXCEPT ![l] = @ - 1]
    /\ UNCHANGED copying

(* The nodes are deleted, none goes to the cache. *)
RemoveAll(l) ==
    /\ copying = NotCopying /\ first[l] # NoNode
    /\ spare' = spare \cup InList(l)
    /\ prev' = Wipe(prev, InList(l)) /\ next' = Wipe(next, InList(l))
    /\ data' = Wipe(data, InList(l))
    /\ first' = [first EXCEPT ![l] = NoNode] /\ last' = [last EXCEPT ![l] = NoNode]
    /\ count' = [count EXCEPT ![l] = 0]
    /\ UNCHANGED <<cached, used, copying>>

CacheNodes(l) == Range(Along(next, cached[l]))

(* The list and its cache are destroyed; a new list takes its place. *)
Destroy(l) ==
    LET gone == InList(l) \cup CacheNodes(l)
    IN  /\ copying = NotCopying /\ gone # {}
        /\ spare' = spare \cup gone
        /\ prev' = Wipe(prev, gone) /\ next' = Wipe(next, gone) /\ data' = Wipe(data, gone)
        /\ first' = [first EXCEPT ![l] = NoNode] /\ last' = [last EXCEPT ![l] = NoNode]
        /\ count' = [count EXCEPT ![l] = 0]
        /\ cached' = [cached EXCEPT ![l] = NoNode] /\ used' = [used EXCEPT ![l] = 0]
        /\ UNCHANGED copying

---------------------------------------------------------------------------
(* Moving a part of a list by relinking: l keeps the rest. *)

MoveToTail(l, p, m) ==
    LET moved  == Len(Along(prev, p))
        joinN  == Unlink(next, last[m], first[l])
        joinP  == Unlink(prev, first[l], last[m])
        rest   == joinN[p]
    IN  /\ copying = NotCopying /\ l # m /\ p \in InList(l)
        /\ first' = [first EXCEPT ![m] = IF @ = NoNode THEN first[l] ELSE @, ![l] = rest]
        /\ last' = [last EXCEPT ![l] = IF rest = NoNode THEN NoNode ELSE @, ![m] = p]
        /\ prev' = Unlink(joinP, rest, NoNode)
        /\ next' = [joinN EXCEPT ![p] = NoNode]
        /\ count' = [count EXCEPT ![l] = @ - moved, ![m] = @ + moved]
        /\ UNCHANGED <<data, cacheVars, copying>>

MoveToHead(l, p, m) ==
    LET moved  == Len(Along(next, p))
        joinP  == Unlink(prev, first[m], last[l])
        joinN  == Unlink(next, last[l], first[m])
        rest   == joinP[p]
    IN  /\ copying = NotCopying /\ l # m /\ p \in InList(l)
        /\ last' = [last EXCEPT ![m] = IF @ = NoNode THEN last[l] ELSE @, ![l] = rest]
        /\ first' = [first EXCEPT ![l] = IF rest = NoNode THEN NoNode ELSE @, ![m] = p]
        /\ next' = Unlink(joinN, rest, NoNode)
        /\ prev' = [joinP EXCEPT ![p] = NoNode]
        /\ count' = [count EXCEPT ![l] = @ - moved, ![m] = @ + moved]
        /\ UNCHANGED <<data, cacheVars, copying>>

(* Each node of the chain swaps its two pointers. *)
Reverse(l) ==
    LET swap(f, g) == [n \in Nodes |-> IF n \in InList(l) THEN g[n] ELSE f[n]]
    IN  /\ copying = NotCopying /\ first[l] # NoNode
        /\ next' = swap(next, prev) /\ prev' = swap(prev, next)
        /\ first' = [first EXCEPT ![l] = last[l]] /\ last' = [last EXCEPT ![l] = first[l]]
        /\ UNCHANGED <<data, count, cacheVars, copying>>

---------------------------------------------------------------------------
(* Copying the whole of list m into list l: AddTail, AddHead, AddAfter and  *)
(* AddBefore of a list.  `at` is the entry of m to copy next, `p` follows   *)
(* the entries added, `old` and `added` record what the call has found and  *)
(* done.                                                                    *)

Contents(l) == [i \in DOMAIN Along(next, first[l]) |->
                  [pos |-> Along(next, first[l])[i], obj |-> data[Along(next, first[l])[i]]]]

Forward == {"AddTail", "AddAfter"}

CopyList(op, l, m, p) ==
    /\ copying = NotCopying /\ l # m
    /\ p \in InList(l) \cup {NoNode}
    /\ op \in {"AddTail", "AddHead"} => p = NoNode
    /\ first[m] # NoNode
    /\ copying' = [op |-> op, to |-> l, from |-> m, p |-> p,
                   at |-> IF op \in Forward THEN first[m] ELSE last[m],
                   place |-> p, old |-> Contents(l), added |-> 0]
    /\ UNCHANGED <<chainVars, cacheVars>>

LinkCopy(n) ==
    LET c == copying x == data[c.at]
    IN  CASE c.op = "AddTail"   -> LinkTail(c.to, n, x)
          [] c.op = "AddHead"   -> LinkHead(c.to, n, x)
          [] c.op = "AddAfter"  -> LinkAfter(c.to, c.p, n, x)
          [] c.op = "AddBefore" -> LinkBefore(c.to, c.p, n, x)

CopyOne ==
    /\ copying # NotCopying /\ copying.at # NoNode
    /\ \E n \in Nodes :
          /\ TakeNode(copying.to, n) /\ LinkCopy(n)
          /\ copying' = [copying EXCEPT !.p = n, !.added = @ + 1,
                            !.at = IF copying.op \in Forward THEN next[@] ELSE prev[@]]

(* TRUE at the end of the other list, FALSE when there is no memory. *)
CopyEnds ==
    /\ copying # NotCopying
    /\ copying.at = NoNode \/ NoMemory(copying.to)
    /\ copying' = NotCopying
    /\ UNCHANGED <<chainVars, cacheVars>>

Next ==
    \/ \E l \in Lists, x \in Objects :
          \/ AddTailI(l, x)
          \/ AddHeadI(l, x)
          \/ \E p \in InList(l) \cup {NoNode} : AddAfterI(l, p, x) \/ AddBeforeI(l, p, x)
    \/ \E l \in Lists, p \in Nodes : RemoveI(l, p)
    \/ \E l \in Lists : RemoveAll(l) \/ Destroy(l) \/ Reverse(l)
    \/ \E l, m \in Lists, p \in Nodes : MoveToTail(l, p, m) \/ MoveToHead(l, p, m)
    \/ \E op \in {"AddTail", "AddHead", "AddAfter", "AddBefore"}, l, m \in Lists, p \in Position :
          CopyList(op, l, m, p)
    \/ CopyOne
    \/ CopyEnds

Spec == Init /\ [][Next]_vars

---------------------------------------------------------------------------
(* Two chains in one: what can be reached backwards is what can be reached  *)
(* forwards, m_Count is its length, and every node is in exactly one place: *)
(* a list, a cache or deleted.  (The remark on the node cache at the top of *)
(* wxlist.cpp.)                                                             *)
WellLinked ==
    /\ \A l \in Lists :
         LET chain == Along(next, first[l])
         IN  /\ Along(prev, last[l]) = [i \in DOMAIN chain |-> chain[Len(chain) + 1 - i]]
             /\ count[l] = Len(chain)
             /\ used[l] = Cardinality(CacheNodes(l)) /\ used[l] <= CacheSize
    /\ \A l, m \in Lists :
         /\ InList(l) \cap CacheNodes(m) = {}
         /\ l # m => InList(l) \cap InList(m) = {} /\ CacheNodes(l) \cap CacheNodes(m) = {}
    /\ spare = Nodes \ UNION {InList(l) \cup CacheNodes(l) : l \in Lists}

Plain == INSTANCE PlainList WITH
            Positions <- Nodes, NoPosition <- NoNode, contents <- [l \in Lists |-> Contents(l)]

(* Every call does to the contents of the lists what wxlist.h promises, to  *)
(* both of them and to no other entry: relinking keeps the positions, and a *)
(* recycled node brings nothing of its former life along.                   *)
CallKeepsPromise ==
    /\ \A l \in Lists, x \in Objects :
          /\ AddTailI(l, x) => Plain!AddTail(l, x)
          /\ AddHeadI(l, x) => Plain!AddHead(l, x)
          /\ \A p \in InList(l) \cup {NoNode} :
                /\ AddAfterI(l, p, x) => Plain!AddAfter(l, p, x)
                /\ AddBeforeI(l, p, x) => Plain!AddBefore(l, p, x)
    /\ \A l \in Lists : /\ RemoveAll(l) \/ Destroy(l) => Plain!RemoveAll(l)
                        /\ Reverse(l) => Plain!Reverse(l)
    /\ \A l, m \in Lists, p \in Nodes :
          /\ RemoveI(l, p) => Plain!Remove(l, p)
          /\ MoveToTail(l, p, m) => Plain!MoveToTail(l, p, m)
          /\ MoveToHead(l, p, m) => Plain!MoveToHead(l, p, m)

Objs(s) == [i \in DOMAIN s |-> s[i].obj]

(* How many entries there were in front of the place the copies go to. *)
InFront(c) ==
    LET at == CHOOSE j \in DOMAIN c.old : c.old[j].pos = c.place
    IN  IF c.place = NoNode
        THEN IF c.op \in {"AddHead", "AddAfter"} THEN 0 ELSE Len(c.old)
        ELSE IF c.op = "AddAfter" THEN at ELSE at - 1

(* While a list is copied, and when the copying fails half-way, the entries *)
(* of the list it goes to are the old ones, in place, with the part copied  *)
(* so far of the other list, in its order, at the place asked for.          *)
CopiesInPlace ==
    copying # NotCopying =>
        LET c == copying
            now == Contents(c.to)
            src == Objs(Contents(c.from))
            part == IF c.op \in Forward THEN SubSeq(src, 1, c.added)
                    ELSE SubSeq(src, Len(src) - c.added + 1, Len(src))
            i == InFront(c)
        IN  /\ SubSeq(now, 1, i) = SubSeq(c.old, 1, i)
            /\ Objs(SubSeq(now, i + 1, i + c.added)) = part
            /\ SubSeq(now, i + c.added + 1, Len(now)) = SubSeq(c.old, i + 1, Len(c.old))

ListSafety == WellLinked /\ CopiesInPlace
=============================================================================
