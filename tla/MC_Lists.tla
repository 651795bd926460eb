------------------------------ MODULE MC_Lists ------------------------------
(***************************************************************************)
(* The lists of MC_Objects, with what the run asks of them: `which` is the *)
(* part of the filter graph that moves.                                    *)
(***************************************************************************)
EXTENDS Naturals, Sequences, FiniteSets

CONSTANTS Lists, Nodes, Objects, NoNode, CacheSize

(* NoNode stands for NULL; a node is the number of its address, and a      *)
(* cache has room for so many nodes.                                       *)
ASSUME ListsAssumption ==
  IsFiniteSet(Nodes) /\ Nodes \subseteq Nat /\ NoNode \notin Nodes /\ CacheSize \in Nat

VARIABLES which, prev, next, data, first, last, count, cached, used, spare, copying

listVars == <<prev, next, data, first, last, count, cached, used, spare, copying>>

L == INSTANCE BaseList

(* The lists by themselves, whatever else moves.                           *)
ListsSpec == L!Init /\ [][L!Next]_listVars

(* See BaseList: every list is one chain both ways, and every node is in   *)
(* one place.                                                              *)
ListSafety == which = "lists" => L!ListSafety

(* See BaseList: every call on a list does what wxlist.h says it does.     *)
DoesWhatItSays == [][which = "lists" => L!CallKeepsPromise]_<<which, listVars>>
=============================================================================
