---------------------------- MODULE PlainList ----------------------------
(***************************************************************************)
(* What the comments of wxlist.h promise of the operations of CBaseList:   *)
(* a list is a sequence of entries, an entry has a position that names it  *)
(* for as long as it is in some list, and the object it holds.  A call that *)
(* answers NULL for want of memory is no step.                              *)
(***************************************************************************)
EXTENDS Naturals, Sequences, FiniteSets, Functions

CONSTANTS Lists, Positions, Objects, NoPosition

VARIABLE contents

Entry == [pos : Positions, obj : Objects]

Init == contents = [l \in Lists |-> <<>>]

PositionsOf(l) == {e.pos : e \in Range(contents[l])}

InUse == UNION {PositionsOf(l) : l \in Lists}

IndexOf(l, p) == CHOOSE i \in DOMAIN contents[l] : contents[l][i].pos = p

(* A new entry for x stands between the first i entries and the others. *)
Inserts(l, i, x) ==
    \E p \in Positions \ InUse :
        contents' = [contents EXCEPT ![l] =
            SubSeq(@, 1, i) \o <<[pos |-> p, obj |-> x]>> \o SubSeq(@, i + 1, Len(@))]

AddHead(l, x) == Inserts(l, 0, x)
AddTail(l, x) == Inserts(l, Len(contents[l]), x)

(* The NULL position means one step off the end of the list on both sides. *)
AddAfter(l, p, x) ==
    IF p = NoPosition THEN AddHead(l, x) ELSE Inserts(l, IndexOf(l, p), x)
AddBefore(l, p, x) ==
    IF p = NoPosition THEN AddTail(l, x) ELSE Inserts(l, IndexOf(l, p) - 1, x)

Remove(l, p) ==
    LET i == IndexOf(l, p)
    IN  contents' = [contents EXCEPT ![l] = SubSeq(@, 1, i - 1) \o SubSeq(@, i + 1, Len(@))]

RemoveAll(l) == contents' = [contents EXCEPT ![l] = <<>>]

(* The entries up to p leave l for the end of m. *)
MoveToTail(l, p, m) ==
    LET i == IndexOf(l, p)
    IN  contents' = [contents EXCEPT ![l] = SubSeq(@, i + 1, Len(@)),
                                     ![m] = @ \o SubSeq(contents[l], 1, i)]

(* The entries from p on leave l for the front of m. *)
MoveToHead(l, p, m) ==
    LET i == IndexOf(l, p)
    IN  contents' = [contents EXCEPT ![l] = SubSeq(@, 1, i - 1),
                                     ![m] = SubSeq(contents[l], i, Len(contents[l])) \o @]

Reverse(l) ==
    contents' = [contents EXCEPT ![l] = [i \in DOMAIN @ |-> @[Len(@) + 1 - i]]]
=============================================================================
