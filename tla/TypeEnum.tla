---------------------------- MODULE TypeEnum ----------------------------
(***************************************************************************)
(* CEnumMediaTypes (amfilter.cpp): the types a pin offers, handed out one  *)
(* after the other.  The pin's list may change at any time; its owner then *)
(* calls IncrementTypeVersion, and an enumerator that is out of step says  *)
(* so until it is reset.  Next asks once, at its beginning.                *)
(***************************************************************************)
EXTENDS Integers, Sequences, FiniteSets

CONSTANTS Types, MaxTypeVersion, MaxTypePosition

VARIABLES
    offered, m_TypeVersion, typesChanged,   \* the pin: its types, version, a change to announce
    version, position,                      \* the enumerator: m_Version, m_Position
    typePc, left,                           \* Next under way: how many it still wants
    handed, passed,                         \* since Reset: <<position, type>>, positions skipped,
    failed                                  \* and those of which no copy could be made

typeEnumVars == <<offered, m_TypeVersion, typesChanged, version, position, typePc, left,
                  handed, passed, failed>>
pinTypeVars == <<offered, m_TypeVersion, typesChanged>>

Offers == UNION {[1 .. n -> Types] : n \in 0 .. 2}

Init ==
    /\ offered \in Offers
    /\ m_TypeVersion = 1 /\ typesChanged = FALSE
    /\ version = 1 /\ position = 0
    /\ typePc = "idle" /\ left = 0
    /\ handed = {} /\ passed = {} /\ failed = {}

ChangeTypes(now) ==
    /\ ~typesChanged /\ m_TypeVersion < MaxTypeVersion /\ now # offered
    /\ offered' = now /\ typesChanged' = TRUE
    /\ UNCHANGED <<m_TypeVersion, version, position, typePc, left, handed, passed, failed>>

IncrementTypeVersion ==
    /\ typesChanged /\ typesChanged' = FALSE /\ m_TypeVersion' = m_TypeVersion + 1
    /\ UNCHANGED <<offered, version, position, typePc, left, handed, passed, failed>>

(* GetMediaType succeeds. *)
Has(n) == n < Len(offered)

OutOfSync == version # m_TypeVersion

NextTypes(n) ==
    /\ typePc = "idle" /\ ~OutOfSync /\ position < MaxTypePosition
    /\ typePc' = "next" /\ left' = n
    /\ UNCHANGED <<pinTypeVars, version, position, handed, passed, failed>>

(* The position moves on before GetMediaType answers, and stays there when *)
(* there is no such type or no memory for its copy.                        *)
HandOut ==
    /\ typePc = "next"
    /\ position' = position + 1
    /\ \E memory \in BOOLEAN :
          LET ok == Has(position) /\ memory
          IN  /\ failed' = IF Has(position) /\ ~memory THEN failed \cup {position} ELSE failed
              /\ handed' = IF ok THEN handed \cup {<<position, offered[position + 1]>>} ELSE handed
              /\ left' = IF ok THEN left - 1 ELSE 0
    /\ typePc' = IF left' = 0 THEN "idle" ELSE "next"
    /\ UNCHANGED <<pinTypeVars, version, passed>>

(* Whether it went over the end is only asked when it has gone.            *)
SkipTypes(n) ==
    /\ typePc = "idle" /\ ~OutOfSync /\ position < MaxTypePosition
    /\ position' = position + n
    /\ passed' = passed \cup (position .. position + n - 1)
    /\ UNCHANGED <<pinTypeVars, version, typePc, left, handed, failed>>

(* A mutant: Reset only brings the version into step.                      *)
ResetVersion ==
    /\ typePc = "idle"
    /\ version' = m_TypeVersion
    /\ handed' = {} /\ passed' = {} /\ failed' = {}
    /\ UNCHANGED <<pinTypeVars, typePc, left, position>>

ResetTypes ==
    /\ typePc = "idle"
    /\ position' = 0 /\ version' = m_TypeVersion
    /\ handed' = {} /\ passed' = {} /\ failed' = {}
    /\ UNCHANGED <<pinTypeVars, typePc, left>>

TypeEnumNext ==
    \/ \E now \in Offers : ChangeTypes(now)
    \/ IncrementTypeVersion
    \/ \E n \in 1 .. 2 : NextTypes(n) \/ SkipTypes(n)
    \/ HandOut
    \/ ResetTypes

(* An enumerator that is in step has handed out types the pin still offers *)
(* in their places, and every one before its position was skipped, handed  *)
(* out, or met a lack of memory, which costs the caller this one only.     *)
TypesInStep ==
    typePc = "idle" /\ ~OutOfSync /\ ~typesChanged =>
        /\ \A h \in handed : Has(h[1]) /\ offered[h[1] + 1] = h[2]
        /\ \A n \in 0 .. position - 1 :
              Has(n) => n \in passed \cup failed \/ <<n, offered[n + 1]>> \in handed
=============================================================================
