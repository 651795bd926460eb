--------------------------- MODULE PinConnection ---------------------------
(***************************************************************************)
(* How pins connect: CBasePin::Connect, ReceiveConnection and Disconnect   *)
(* with the base classes of output and input pins                          *)
(* (src/SDK/BaseClasses/amfilter.cpp) and the two pins of a                *)
(* CTransformFilter (transfrm.cpp), in the chain                           *)
(*                                                                         *)
(*    source out --"up"--> in transform out --"down"--> in sink            *)
(*                                                                         *)
(* with CMySourceFilter as the source and CFlipFilter or CMyFilter as the  *)
(* transform.  The filter graph is external: it calls one pin at a time.   *)
(* A media type is a model value; NoType is one whose format block could   *)
(* not be allocated.  A call that is refused at once (already connected,   *)
(* not stopped) changes nothing and is not a step.                         *)
(***************************************************************************)
EXTENDS Integers, Sequences

CONSTANTS Types,           \* media types
          SourceTypes,     \* those CheckMediaType of the source's pin accepts
          SourceOffers,    \* those its GetMediaType lists, a sequence
          TransformTypes,  \* those CheckInputType of the transform accepts
          SinkTypes,       \* those the sink accepts
          SinkOffers,      \* those the sink lists
          Faults           \* which of "memory", "hook", "size", "notify" may fail

ASSUME TypesAreKnown == /\ SourceTypes \union TransformTypes \union SinkTypes \subseteq Types
                        /\ SourceOffers \in Seq(Types) /\ SinkOffers \in Seq(Types)
ASSUME FaultsAreKnown == Faults \subseteq {"memory", "hook", "size", "notify"}

Links == {"up", "down"}
Filters == {"source", "transform", "sink"}
Sender == [up |-> "source", down |-> "transform"]
Receiver == [up |-> "transform", down |-> "sink"]

NoType == "none"
Allocators == {"input", "own"}   \* created by the input pin, by the output pin
NoAllocator == "none"

VARIABLES
  link,    \* both pins of each link, and the references held on them
  active,  \* filters that are paused or running
  call     \* the Connect in progress

vars == <<link, active, call>>

Unconnected ==
  [outConnected |-> FALSE, outType |-> NoType, inputPin |-> FALSE,
   outAllocator |-> NoAllocator,             \* the output pin
   inConnected |-> FALSE, inType |-> NoType,
   inAllocator |-> NoAllocator,              \* the input pin
   outRefs |-> 0, inRefs |-> 0,              \* references the peer holds
   allocRefs |-> [a \in Allocators |-> 0]]

Idle == [step |-> "idle"]

Init == /\ link = [l \in Links |-> Unconnected]
        /\ active = {}
        /\ call = Idle

One(b) == IF b THEN 1 ELSE 0

(***************************************************************************)
(* What the pins do to a link k                                            *)
(***************************************************************************)
AddRef(refs, a) == [x \in Allocators |-> refs[x] + One(x = a)]
Release(refs, a) == [x \in Allocators |-> refs[x] - One(x = a)]   \* nothing for a NULL pointer

\* CBaseOutputPin::BreakConnect
OutBreakConnect(k) ==
  [k EXCEPT !.outAllocator = NoAllocator, !.allocRefs = Release(@, k.outAllocator),
            !.inputPin = FALSE, !.inRefs = @ - One(k.inputPin)]

\* BreakConnect, and the reference on the connected pin is released
OutDisconnect(k) ==
  [OutBreakConnect(k) EXCEPT !.outConnected = FALSE, !.inRefs = @ - One(k.outConnected)]

\* CBaseInputPin::BreakConnect
InBreakConnect(k) ==
  [k EXCEPT !.inAllocator = NoAllocator, !.allocRefs = Release(@, k.inAllocator)]

InConnect(k, t) == [k EXCEPT !.inConnected = TRUE, !.outRefs = @ + 1, !.inType = t]

InDisconnect(k) ==
  IF k.inConnected
  THEN [InBreakConnect(k) EXCEPT !.inConnected = FALSE, !.outRefs = @ - 1]
  ELSE k

\* the input pin creates its allocator on demand and lends it
CreateAllocator(k) == [k EXCEPT !.inAllocator = "input", !.allocRefs = AddRef(@, "input")]
LendAllocator(k) ==
  [k EXCEPT !.outAllocator = k.inAllocator, !.allocRefs = AddRef(@, k.inAllocator)]
GetAllocator(k) ==
  LendAllocator(IF k.inAllocator = NoAllocator THEN CreateAllocator(k) ELSE k)

InitAllocator(k) == [k EXCEPT !.outAllocator = "own", !.allocRefs = AddRef(@, "own")]

NotifyKeepsOld(k) ==   \* mutant: the old allocator is not released
  [k EXCEPT !.inAllocator = k.outAllocator, !.allocRefs = AddRef(@, k.outAllocator)]

\* the output pin tells the input pin which allocator it will use
NotifyAllocator(k) ==
  [k EXCEPT !.inAllocator = k.outAllocator,
            !.allocRefs = Release(AddRef(@, k.outAllocator), k.inAllocator)]

ForgetAllocator(k) == [k EXCEPT !.outAllocator = NoAllocator]   \* mutant: no Release

DropAllocator(k) ==
  [k EXCEPT !.outAllocator = NoAllocator, !.allocRefs = Release(@, k.outAllocator)]

(***************************************************************************)
(* What the pins accept and offer                                          *)
(***************************************************************************)
CheckTransform(tIn, tOut) == tIn = tOut

\* a transform's output pin connects after its input pin
CheckConnect(l) == l = "down" => link["up"].inConnected

OutCheckMediaType(l, t) ==
  IF l = "up" THEN t \in SourceTypes
              ELSE link["up"].inConnected /\ CheckTransform(link["up"].inType, t)

InCheckInputOnly(l, t) ==   \* mutant: the connected output is not asked
  IF l = "up" THEN t \in TransformTypes ELSE t \in SinkTypes

InCheckMediaType(l, t) ==
  IF l = "up"
  THEN /\ t \in TransformTypes
       /\ link["down"].outConnected => CheckTransform(t, link["down"].outType)
  ELSE t \in SinkTypes

\* the types an enumerator of the pin lists; the base class lists none
OutOffers(l) ==
  IF l = "up" THEN SourceOffers
  ELSE IF link["up"].inConnected THEN <<link["up"].inType>> ELSE <<>>
InOffers(l) == IF l = "up" THEN <<>> ELSE SinkOffers

(***************************************************************************)
(* Connect: each type of the receiving pin's enumerator, then of the       *)
(* pin's own; a fully specified type is the only one tried                 *)
(***************************************************************************)
Connect(l, match, todo, round) ==
  /\ call = Idle
  /\ ~link[l].outConnected /\ Sender[l] \notin active
  /\ call' = [step |-> "next", link |-> l, match |-> match, todo |-> todo,
              round |-> round, was |-> link[l]]
  /\ UNCHANGED <<link, active>>

ConnectWithType(l, t) == Connect(l, {t}, <<t>>, 2)
ConnectMatching(l, match) == Connect(l, match, <<>>, 0)

NextEnumerator ==
  /\ call.step = "next" /\ call.todo = <<>> /\ call.round < 2
  /\ \E offers \in {IF call.round = 0 THEN InOffers(call.link) ELSE OutOffers(call.link)}
                   \union {<<>> : f \in Faults \intersect {"memory"}} :
        call' = [call EXCEPT !.todo = offers, !.round = @ + 1]
  /\ UNCHANGED <<link, active>>

SkipType ==
  /\ call.step = "next" /\ call.todo # <<>> /\ Head(call.todo) \notin call.match
  /\ call' = [call EXCEPT !.todo = Tail(@)]
  /\ UNCHANGED <<link, active>>

\* no type is left: Connect breaks the connection once more and fails
ConnectFails ==
  /\ call.step = "next" /\ call.todo = <<>> /\ call.round = 2
  /\ link' = [link EXCEPT ![call.link] = OutBreakConnect(@)]
  /\ call' = Idle
  /\ UNCHANGED active

\* AttemptConnection undoes what it did to link k; the next type is tried
AttemptFails(k) ==
  /\ link' = [link EXCEPT ![call.link] = OutDisconnect(k)]
  /\ call' = [call EXCEPT !.step = "next", !.todo = Tail(@)]
  /\ UNCHANGED active

\* the pin looks connected before ReceiveConnection is called
AttemptConnection ==
  /\ call.step = "next" /\ call.todo # <<>> /\ Head(call.todo) \in call.match
  /\ LET l == call.link
         t == Head(call.todo)
         k == link[l]
         checked == IF CheckConnect(l) THEN [k EXCEPT !.inputPin = TRUE, !.inRefs = @ + 1] ELSE k
         Set(ty) == [checked EXCEPT !.outConnected = TRUE, !.inRefs = @ + 1, !.outType = ty]
         accepted == CheckConnect(l) /\ OutCheckMediaType(l, t)
     IN \/ ~accepted /\ AttemptFails(checked)
        \/ accepted /\ "memory" \in Faults /\ AttemptFails(Set(NoType))
        \/ accepted /\ "hook" \in Faults /\ AttemptFails(Set(t))
        \/ /\ accepted
           /\ link' = [link EXCEPT ![l] = Set(t)]
           /\ call' = [call EXCEPT !.step = "receive"]
           /\ UNCHANGED active

ReceiveAnytime(l) == ~link[l].inConnected   \* mutant: the filter may be active

CanReceive(l) == ~link[l].inConnected /\ Receiver[l] \notin active

\* the reference it took on the sender is released again
ReceiveFails(k, ty) == AttemptFails(InBreakConnect(InDisconnect(InConnect(k, ty))))

ReceiveConnection ==
  /\ call.step = "receive"
  /\ LET l == call.link
         t == Head(call.todo)
         k == link[l]
         accepted == CanReceive(l) /\ InCheckMediaType(l, t)
     IN \/ ~CanReceive(l) /\ AttemptFails(k)
        \/ CanReceive(l) /\ ~InCheckMediaType(l, t) /\ AttemptFails(InBreakConnect(k))
        \/ accepted /\ "memory" \in Faults /\ ReceiveFails(k, NoType)
        \/ accepted /\ "hook" \in Faults /\ ReceiveFails(k, t)
        \/ /\ accepted
           /\ link' = [link EXCEPT ![l] = InConnect(k, t)]
           /\ call' = [call EXCEPT !.step = "input"]
           /\ UNCHANGED active

ConnectSucceeds(k) ==
  /\ link' = [link EXCEPT ![call.link] = k]
  /\ call' = Idle
  /\ UNCHANGED active

InputStaysConnected(k) == AttemptFails(k)   \* mutant: no Disconnect of the input pin

\* CompleteConnect failed: the input pin is disconnected as well
CompleteFails(k) == AttemptFails(InDisconnect(k))

\* DecideAllocator with the allocator of the input pin.  Its
\* GetAllocator, DecideBufferSize or NotifyAllocator may fail, as may the
\* derived CompleteConnect before it.
TryInputAllocator ==
  /\ call.step = "input"
  /\ LET k == link[call.link]
     IN \/ "hook" \in Faults /\ CompleteFails(k)
        \/ ConnectSucceeds(NotifyAllocator(GetAllocator(k)))
        \/ /\ \/ /\ "memory" \in Faults /\ k.inAllocator = NoAllocator
                 /\ UNCHANGED link
              \/ /\ Faults \intersect {"size", "notify"} # {}
                 /\ link' = [link EXCEPT ![call.link] = DropAllocator(GetAllocator(k))]
           /\ call' = [call EXCEPT !.step = "own"]
           /\ UNCHANGED active

\* and with one of its own
TryOwnAllocator ==
  /\ call.step = "own"
  /\ LET k == link[call.link]
     IN \/ ConnectSucceeds(NotifyAllocator(InitAllocator(k)))
        \/ "memory" \in Faults /\ CompleteFails(k)
        \/ /\ Faults \intersect {"size", "notify"} # {}
           /\ CompleteFails(DropAllocator(InitAllocator(k)))

(***************************************************************************)
(* The other calls of the graph                                            *)
(***************************************************************************)
DisconnectOut(l) ==
  /\ call = Idle
  /\ Sender[l] \notin active /\ link[l].outConnected
  /\ link' = [link EXCEPT ![l] = OutDisconnect(@)]
  /\ UNCHANGED <<active, call>>

DisconnectIn(l) ==
  /\ call = Idle
  /\ Receiver[l] \notin active /\ link[l].inConnected
  /\ link' = [link EXCEPT ![l] = InDisconnect(@)]
  /\ UNCHANGED <<active, call>>

ChangeState(f) ==
  /\ call = Idle
  /\ active' = IF f \in active THEN active \ {f} ELSE active \union {f}
  /\ UNCHANGED <<link, call>>

ConnectStep == \/ NextEnumerator \/ SkipType \/ ConnectFails \/ AttemptConnection
               \/ ReceiveConnection \/ TryInputAllocator \/ TryOwnAllocator

Next == \/ \E l \in Links : \/ \E t \in Types : ConnectWithType(l, t)
                            \/ \E match \in SUBSET Types : ConnectMatching(l, match)
                            \/ DisconnectOut(l) \/ DisconnectIn(l)
        \/ \E f \in Filters : ChangeState(f)
        \/ ConnectStep

Spec == Init /\ [][Next]_vars

(***************************************************************************)
(* Properties                                                              *)
(***************************************************************************)
TypeOK ==
  /\ link \in [Links ->
       [outConnected : BOOLEAN, outType : Types \union {NoType}, inputPin : BOOLEAN,
        outAllocator : Allocators \union {NoAllocator},
        inConnected : BOOLEAN, inType : Types \union {NoType},
        inAllocator : Allocators \union {NoAllocator},
        outRefs : 0..1, inRefs : 0..2, allocRefs : [Allocators -> 0..2]]]
  /\ active \subseteq Filters
  /\ \/ call = Idle
     \/ /\ call.step \in {"next", "receive", "input", "own"} /\ call.link \in Links
        /\ call.round \in 0..2 /\ call.match \subseteq Types

EndsCleanly ==
  call # Idle /\ call' = Idle =>
    LET k == link'[call.link]
    IN IF k.outConnected
       THEN /\ k.inputPin /\ k.inConnected
            /\ k.outType \in call.match /\ k.inType = k.outType
            /\ k.outAllocator # NoAllocator /\ k.inAllocator = k.outAllocator
       ELSE /\ k.inConnected => k.inType = call.was.inType
            /\ k = [call.was EXCEPT !.outType = k.outType, !.inType = k.inType]

\* Connect does all or nothing.  When it succeeds both pins are connected
\* with one type that matches the request and one allocator; when it fails,
\* whichever of its attempts failed and however far they got, both pins and
\* every reference are as before the call, but for the stored type of a pin
\* that is not connected (the roll-back at the end of AttemptConnection and
\* of ReceiveConnection).
AllOrNothing == [][EndsCleanly]_vars

\* Between calls the formats agree along the chain: the ends of a link that
\* are both connected have one type and one allocator, and the transform
\* connected on both sides has the same format on both, in whatever order
\* its pins were connected, disconnected and connected again
\* (CTransformInputPin::CheckMediaType asks CheckTransform for the output
\* that is still connected).
ChainAgrees ==
  call = Idle =>
    /\ \A l \in Links : link[l].outConnected /\ link[l].inConnected =>
          /\ link[l].outType = link[l].inType
          /\ link[l].outAllocator = link[l].inAllocator
    /\ link["up"].inConnected /\ link["down"].outConnected =>
          link["up"].inType = link["down"].outType

Balanced(k) ==
  /\ k.inRefs = One(k.outConnected) + One(k.inputPin)
  /\ k.outRefs = One(k.inConnected)
  /\ \A a \in Allocators : k.allocRefs[a] = One(k.outAllocator = a) + One(k.inAllocator = a)

\* Every pointer to the other pin or to an allocator holds one reference and
\* every reference has its pointer, at every step of a connection and of its
\* roll-back, so nothing is leaked and nothing released while in use.
ReferencesBalance == \A l \in Links : Balanced(link[l])

LeavesActiveFilters ==
  \A l \in Links :
    LET k == link[l]
        n == link'[l]
    IN /\ Sender[l] \in active =>
            <<n.outConnected, n.outType, n.outAllocator, n.inputPin>>
              = <<k.outConnected, k.outType, k.outAllocator, k.inputPin>>
       /\ Receiver[l] \in active =>
            <<n.inConnected, n.inType, n.inAllocator>>
              = <<k.inConnected, k.inType, k.inAllocator>>

\* The pins of a filter that is paused or running keep their connections,
\* types and allocators, whatever is tried from the other end (the tests of
\* IsStopped in Connect, ReceiveConnection and Disconnect).
ActiveFiltersKeepConnections == [][LeavesActiveFilters]_vars

\* A Connect succeeds or leaves nothing behind, and the connections of an
\* active filter stay: the two properties together.
ConnectIsAtomic == AllOrNothing /\ ActiveFiltersKeepConnections

\* The two ends of a link and the types before and behind the transform
\* agree, and every field has its type.
ConnectionsAgree == TypeOK /\ ChainAgrees
=============================================================================
