---------------------------- MODULE PinEnum ----------------------------
(***************************************************************************)
(* CEnumPins (amfilter.cpp) over the pins of a filter that come and go.    *)
(* An enumerator takes no lock: what it knows of the filter, m_Version and *)
(* m_PinCount, is read in two steps and may be old when it is used.  The   *)
(* filter changes its list and then calls IncrementPinVersion, or does not *)
(* say that it has changed, as CSource's AddPin and RemovePin do.          *)
(***************************************************************************)
EXTENDS Integers, Sequences, FiniteSets, SequencesExt

CONSTANTS Pins, Enums, NoPin, MaxVersion

VARIABLES
    pins, m_PinVersion, unannounced,    \* the filter: list, version, a change to announce
    m_Version, m_PinCount, m_Position, m_PinCache,
    enumPc,                             \* what each enumerator is doing
    wanted, fetched,                    \* Next: how many, and those got by this call
    given, skipped,                     \* since Reset: what the caller has got, what was
    lost,                               \* skipped, and what a Next that failed had got
    unseen                              \* a change that was not announced since ReadCount

filterPinVars == <<pins, m_PinVersion, unannounced>>
callVars      == <<enumPc, wanted, fetched>>
enumVars      == <<m_Version, m_PinCount, m_Position, m_PinCache, given, skipped, lost, unseen>>
pinEnumVars   == <<pins, m_PinVersion, unannounced, m_Version, m_PinCount, m_Position,
                   m_PinCache, enumPc, wanted, fetched, given, skipped, lost, unseen>>

Pcs == {"none", "idle", "version", "count", "next", "failed"}

Init ==
    /\ pins = SetToSeq(Pins) /\ m_PinVersion = 1 /\ unannounced = FALSE
    /\ m_Version = [e \in Enums |-> 0] /\ m_PinCount = [e \in Enums |-> 0]
    /\ m_Position = [e \in Enums |-> 0] /\ m_PinCache = [e \in Enums |-> {}]
    /\ enumPc = [e \in Enums |-> "none"]
    /\ wanted = [e \in Enums |-> 0] /\ fetched = [e \in Enums |-> <<>>]
    /\ given = [e \in Enums |-> <<>>] /\ skipped = [e \in Enums |-> {}]
    /\ lost = [e \in Enums |-> {}] /\ unseen = [e \in Enums |-> FALSE]

---------------------------------------------------------------------------
(* The filter. *)

Change(now) ==
    /\ ~unannounced /\ m_PinVersion < MaxVersion
    /\ pins' = now
    /\ \/ unannounced' = TRUE /\ UNCHANGED unseen
       \/ unannounced' = FALSE /\ unseen' = [e \in Enums |-> TRUE]
    /\ UNCHANGED <<m_PinVersion, callVars, m_Version, m_PinCount, m_Position, m_PinCache,
                   given, skipped, lost>>

AddPin(p) == p \notin Range(pins) /\ Change(Append(pins, p))

RemovePin(p) == \E i \in DOMAIN pins : pins[i] = p /\ Change(RemoveAt(pins, i))

IncrementPinVersion ==
    /\ unannounced /\ unannounced' = FALSE
    /\ m_PinVersion' = m_PinVersion + 1
    /\ UNCHANGED <<pins, callVars, enumVars>>

GetPin(n) == IF n < Len(pins) THEN pins[n + 1] ELSE NoPin

---------------------------------------------------------------------------
(* The enumerator. *)

Goes(e, pc) == enumPc' = [enumPc EXCEPT ![e] = pc]

AreWeOutOfSync(e) == m_Version[e] # m_PinVersion

(* The constructor, when nothing is copied; EnumPins. *)
New(e) ==
    /\ enumPc[e] = "none" /\ Goes(e, "version")
    /\ UNCHANGED <<filterPinVars, enumVars, wanted, fetched>>

(* The constructor when e is cloned from d. *)
Clone(e, d) ==
    /\ enumPc[e] = "none" /\ enumPc[d] = "idle" /\ ~AreWeOutOfSync(d)
    /\ m_Version' = [m_Version EXCEPT ![e] = m_Version[d]]
    /\ m_PinCount' = [m_PinCount EXCEPT ![e] = m_PinCount[d]]
    /\ m_Position' = [m_Position EXCEPT ![e] = m_Position[d]]
    /\ m_PinCache' = [m_PinCache EXCEPT ![e] = m_PinCache[d]]
    /\ given' = [given EXCEPT ![e] = given[d]] /\ skipped' = [skipped EXCEPT ![e] = skipped[d]]
    /\ lost' = [lost EXCEPT ![e] = lost[d]] /\ unseen' = [unseen EXCEPT ![e] = unseen[d]]
    /\ Goes(e, "idle")
    /\ UNCHANGED <<filterPinVars, wanted, fetched>>

ReadVersion(e) ==
    /\ enumPc[e] = "version" /\ Goes(e, "count")
    /\ m_Version' = [m_Version EXCEPT ![e] = m_PinVersion]
    /\ UNCHANGED <<filterPinVars, wanted, fetched, m_PinCount, m_Position, m_PinCache, given, skipped,
                   lost, unseen>>

ReadCount(e) ==
    /\ enumPc[e] = "count" /\ Goes(e, IF wanted[e] > 0 THEN "next" ELSE "idle")
    /\ m_PinCount' = [m_PinCount EXCEPT ![e] = Len(pins)]
    /\ m_Position' = [m_Position EXCEPT ![e] = 0] /\ unseen' = [unseen EXCEPT ![e] = FALSE]
    /\ UNCHANGED <<filterPinVars, wanted, fetched, m_Version, m_PinCache, given, skipped, lost>>

(* Next asks first whether it is out of step, and refreshes itself then.  *)
StartNext(e, cPins) ==
    /\ enumPc[e] = "idle" /\ Goes(e, IF AreWeOutOfSync(e) THEN "version" ELSE "next")
    /\ wanted' = [wanted EXCEPT ![e] = cPins] /\ fetched' = [fetched EXCEPT ![e] = <<>>]
    /\ UNCHANGED <<filterPinVars, enumVars>>

MoreToFetch(e) == Len(fetched[e]) < wanted[e] /\ m_PinCount[e] > m_Position[e]

(* A mutant: no cache of the pins handed out.                              *)
KnownNever(e, p) == FALSE

Known(e, p) == p \in m_PinCache[e]

(* One round of Next's loop: a pin that has been handed out is passed over. *)
FetchPin(e) ==
    LET p == GetPin(m_Position[e])
        fresh == p # NoPin /\ ~Known(e, p)
    IN  /\ enumPc[e] = "next" /\ MoreToFetch(e)
        /\ m_Position' = [m_Position EXCEPT ![e] = @ + 1]
        /\ m_PinCache' = [m_PinCache EXCEPT ![e] = IF fresh THEN @ \cup {p} ELSE @]
        /\ fetched' = [fetched EXCEPT ![e] = IF fresh THEN Append(@, p) ELSE @]
        /\ Goes(e, IF p = NoPin THEN "failed" ELSE "next")
        /\ UNCHANGED <<filterPinVars, m_Version, m_PinCount, wanted, given, skipped, lost, unseen>>

Forget(e) == wanted' = [wanted EXCEPT ![e] = 0] /\ fetched' = [fetched EXCEPT ![e] = <<>>]

NextReturns(e) ==
    /\ enumPc[e] = "next" /\ ~MoreToFetch(e)
    /\ given' = [given EXCEPT ![e] = @ \o fetched[e]]
    /\ Goes(e, "idle") /\ Forget(e)
    /\ UNCHANGED <<filterPinVars, m_Version, m_PinCount, m_Position, m_PinCache, skipped, lost,
                   unseen>>

(* VFW_E_ENUM_OUT_OF_SYNC, and of no pin: those that were got are neither  *)
(* counted nor released, and stay in the cache.                            *)
NextFails(e) ==
    /\ enumPc[e] = "failed"
    /\ lost' = [lost EXCEPT ![e] = @ \cup Range(fetched[e])]
    /\ Goes(e, "idle") /\ Forget(e)
    /\ UNCHANGED <<filterPinVars, m_Version, m_PinCount, m_Position, m_PinCache, given, skipped,
                   unseen>>

(* More than are left: S_FALSE, and the position stays. *)
Skip(e, cPins) ==
    /\ enumPc[e] = "idle" /\ ~AreWeOutOfSync(e)
    /\ cPins <= m_PinCount[e] - m_Position[e]
    /\ m_Position' = [m_Position EXCEPT ![e] = @ + cPins]
    /\ skipped' = [skipped EXCEPT ![e] =
                     @ \cup {GetPin(n) : n \in m_Position[e] .. m_Position[e] + cPins - 1}]
    /\ UNCHANGED <<filterPinVars, callVars, m_Version, m_PinCount, m_PinCache, given, lost, unseen>>

(* Reset reads as Refresh does, and forgets the pins handed out. *)
Reset(e) ==
    /\ enumPc[e] = "idle" /\ Goes(e, "version")
    /\ m_PinCache' = [m_PinCache EXCEPT ![e] = {}]
    /\ given' = [given EXCEPT ![e] = <<>>] /\ skipped' = [skipped EXCEPT ![e] = {}]
    /\ lost' = [lost EXCEPT ![e] = {}]
    /\ UNCHANGED <<filterPinVars, wanted, fetched, m_Version, m_PinCount, m_Position, unseen>>

PinEnumNext ==
    \/ \E p \in Pins : AddPin(p) \/ RemovePin(p)
    \/ IncrementPinVersion
    \/ \E e \in Enums :
         \/ New(e) \/ ReadVersion(e) \/ ReadCount(e)
         \/ \E d \in Enums : Clone(e, d)
         \/ \E n \in 1 .. 2 : StartNext(e, n) \/ Skip(e, n)
         \/ FetchPin(e) \/ NextReturns(e) \/ NextFails(e) \/ Reset(e)

PinEnumSpec == Init /\ [][PinEnumNext]_pinEnumVars

---------------------------------------------------------------------------
(* Until it is reset the callers of an enumerator, and of a clone of it,   *)
(* get no pin twice, although every change that the filter announces sends *)
(* it back to the first.                                                   *)
NoPinTwice == \A e \in Enums : IsInjective(given[e])

(* The caller of an enumerator that has come to the end, is in step with   *)
(* its filter and has had no change kept from it has got, or skipped,      *)
(* every pin the filter has now, but those it was robbed of by a Next that *)
(* failed halfway (FailsOnlyAtFirst).                                      *)
NothingMissed ==
    \A e \in Enums :
        enumPc[e] = "idle" /\ m_Position[e] = m_PinCount[e]
          /\ ~AreWeOutOfSync(e) /\ ~unannounced /\ ~unseen[e]
        => Range(pins) \subseteq Range(given[e]) \cup skipped[e] \cup lost[e]

PinEnumSafety == NoPinTwice /\ NothingMissed

(* "If this happend, and it's not the first time through, then we've got a *)
(* problem": ASSERT( cFetched==0 ), amfilter.cpp 1126 to 1129.  It does    *)
(* happen when a pin goes while Next is under way.                         *)
FailsOnlyAtFirst == \A e \in Enums : enumPc[e] = "failed" => fetched[e] = <<>>
=============================================================================
