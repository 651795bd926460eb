---------------------------- MODULE TransInPlace ----------------------------
(***************************************************************************)
(* CTransInPlaceFilter and its two pins (src/SDK/BaseClasses/transip.cpp), *)
(* in the chain                                                            *)
(*                                                                         *)
(*    source out --up--> in, in-place transform, out --down--> sink        *)
(*                                                                         *)
(* Each pin passes the questions of its peer on to the other side, each    *)
(* connection may ask the filter graph to make the other one again, and    *)
(* samples are copied only when the two pins use different allocators.     *)
(* The graph, the source and the sink are external: a source and a sink    *)
(* are records that say what they accept.  The graph makes one connection  *)
(* at a time, while nothing streams.  The filter is in a graph (outside    *)
(* one CompleteConnect fails).                                             *)
(***************************************************************************)
EXTENDS Integers, FiniteSets

CONSTANTS Sources,   \* [types, alloc, need, insists, readOnly]
          Sinks,     \* [types, lends, takesAny]
          TransformTypes,   \* the types CheckInputType accepts
          Limits,    \* the largest buffer each allocator can make
          MaxGraphCalls     \* bound on the calls of the application

Allocators == DOMAIN Limits
Nothing == "nothing"   \* a NULL allocator, no type, no request
NoPeer == [types |-> {}]

VARIABLES
  m_bModifiesData,
  chain,    \* both connections: peers, types, allocators
  bytes,    \* cbBuffer of each allocator
  pending,  \* the reconnections the graph has been asked for, with their type
  streaming,
  m_bSampleSkipped,
  last,     \* the last sample: where it came from, was written and delivered
  graphCalls

tipVars == <<m_bModifiesData, chain, bytes, pending, streaming, m_bSampleSkipped, last, graphCalls>>

NoSample == [came |-> Nothing, wrote |-> Nothing, delivered |-> Nothing, asked |-> FALSE]

Init ==
  /\ m_bModifiesData \in BOOLEAN   \* a constructor argument
  /\ chain = [up |-> NoPeer, upType |-> Nothing, sourceAlloc |-> Nothing, inAlloc |-> Nothing,
              m_bReadOnly |-> FALSE,
              down |-> NoPeer, downType |-> Nothing, outAlloc |-> Nothing, sinkAlloc |-> Nothing]
  /\ bytes = [a \in Allocators |-> 0]
  /\ pending = [up |-> Nothing, down |-> Nothing]
  /\ streaming = FALSE /\ m_bSampleSkipped = FALSE
  /\ last = NoSample /\ graphCalls = 0

UpConnected(c) == c.up # NoPeer
DownConnected(c) == c.down # NoPeer
UsingDifferentAllocators == chain.inAlloc # chain.outAlloc

(***************************************************************************)
(* A call yields a set of outcomes: whether it succeeded, the chain and    *)
(* the buffer sizes it leaves, and the allocator it is about.              *)
(***************************************************************************)
Outcome(c, b) == [ok |-> TRUE, chain |-> c, bytes |-> b, alloc |-> Nothing]
Fails(r) == {[r EXCEPT !.ok = FALSE]}
AndThen(S, Op(_)) == UNION {IF r.ok THEN Op(r) ELSE {r} : r \in S}
OrElse(S, Op(_)) == UNION {IF r.ok THEN {r} ELSE Op([r EXCEPT !.ok = TRUE]) : r \in S}

SetProperties(r, a, need) ==
  IF need <= Limits[a] THEN {[r EXCEPT !.bytes[a] = need]}
                       ELSE Fails([r EXCEPT !.bytes[a] = Limits[a]])

(***************************************************************************)
(* The sink's input pin (external; "the current" is the base class)        *)
(***************************************************************************)
SinkGetAllocator(r) ==
  CASE r.chain.down.lends = "its own" -> {[r EXCEPT !.alloc = "sink"]}
    [] r.chain.down.lends = "nothing" -> Fails(r)
    [] OTHER -> LET a == IF r.chain.sinkAlloc = Nothing THEN "sink" ELSE r.chain.sinkAlloc
                IN {[r EXCEPT !.alloc = a, !.chain.sinkAlloc = a]}

SinkNotify(r, a) ==
  IF r.chain.down.takesAny \/ a = "sink" THEN {[r EXCEPT !.chain.sinkAlloc = a]} ELSE Fails(r)

(***************************************************************************)
(* The transform's input pin                                               *)
(***************************************************************************)
SetAllocator(r) == {[r EXCEPT !.chain.outAlloc = r.alloc]}

\* the downstream allocator is offered, and the output pin switched to it at
\* once; without a downstream filter a temporary one
GetAllocator(r) ==
  IF DownConnected(r.chain) THEN AndThen(SinkGetAllocator(r), SetAllocator)
  ELSE LET a == IF r.chain.inAlloc = Nothing THEN "temporary" ELSE r.chain.inAlloc
       IN {[r EXCEPT !.alloc = a, !.chain.inAlloc = a]}

NotifyOutput(r) == SinkNotify(r, r.chain.outAlloc)

\* mutant: a copying filter leaves the size of its own buffers alone
KeepOutputSize(r) == IF r.alloc = r.chain.outAlloc THEN Fails(r) ELSE NotifyOutput(r)

\* read-only buffers that are to be modified are copied, so the output keeps
\* an allocator of its own, given the size of the input's
KeepOutputAllocator(r) ==
  IF r.alloc = r.chain.outAlloc THEN Fails(r)
  ELSE AndThen(SetProperties(r, r.chain.outAlloc, r.bytes[r.alloc]), NotifyOutput)

PassAllocatorOn(r) == AndThen(SinkNotify(r, r.alloc), SetAllocator)

UseForInput(r) == {[r EXCEPT !.chain.inAlloc = r.alloc]}

NotifyIgnoringReadOnly(r, readOnly) ==   \* mutant: read-only is not looked at
  LET n == [r EXCEPT !.chain.m_bReadOnly = readOnly]
  IN AndThen(IF DownConnected(n.chain) THEN PassAllocatorOn(n) ELSE {n}, UseForInput)

NotifyAllocator(r, readOnly) ==
  LET n == [r EXCEPT !.chain.m_bReadOnly = readOnly]
  IN AndThen(CASE ~DownConnected(n.chain) -> {n}
               [] DownConnected(n.chain) /\ readOnly /\ m_bModifiesData -> KeepOutputAllocator(n)
               [] OTHER -> PassAllocatorOn(n),
             UseForInput)

InCheckMediaType(c, t) == t \in TransformTypes /\ (DownConnected(c) => t \in c.down.types)

\* CompleteConnect asks for the output again when the types differ
RequestsByInputAlways(c) ==   \* mutant: whatever its type is
  [pending EXCEPT !.down = IF DownConnected(c) THEN c.upType ELSE @]

RequestsByInput(c) ==
  [pending EXCEPT !.down = IF DownConnected(c) /\ c.upType # c.downType THEN c.upType ELSE @]

(***************************************************************************)
(* The transform's output pin                                              *)
(***************************************************************************)
OutCheckMediaType(c, t) == t \in TransformTypes /\ (UpConnected(c) => t \in c.up.types)

\* the input's size, or one byte until there is an input
DecideBufferSize(r) ==
  SetProperties(r, r.alloc, IF UpConnected(r.chain) THEN r.bytes[r.chain.inAlloc] ELSE 1)

OfferToSink(r) == AndThen(DecideBufferSize(r), PassAllocatorOn)
OfferOwn(r) == OfferToSink([r EXCEPT !.alloc = "own"])

\* CBaseOutputPin::DecideAllocator: the sink's allocator, or one of its own
DecideAllocator(r) == OrElse(AndThen(SinkGetAllocator(r), OfferToSink), OfferOwn)

RequestsByOutputNever(c) == pending   \* mutant: the input is not reconnected

\* CompleteConnect always asks for the input again, with the output's type
RequestsByOutput(c) == [pending EXCEPT !.up = IF UpConnected(c) THEN c.downType ELSE @]

(***************************************************************************)
(* The source's output pin (external): the allocator of the transform, or  *)
(* its own if it insists or the other is refused                           *)
(***************************************************************************)
SourceNotifies(r) ==
  AndThen(NotifyAllocator(r, r.alloc = r.chain.up.alloc /\ r.chain.up.readOnly),
          LAMBDA n : {[n EXCEPT !.chain.sourceAlloc = n.alloc]})
OfferToTransform(r) == AndThen(SetProperties(r, r.alloc, r.chain.up.need), SourceNotifies)

SourceDecides(r) ==
  OrElse(IF r.chain.up.insists THEN Fails(r) ELSE AndThen(GetAllocator(r), OfferToTransform),
         LAMBDA n : OfferToTransform([n EXCEPT !.alloc = n.chain.up.alloc]))

(***************************************************************************)
(* The graph connects, disconnects and reconnects                          *)
(***************************************************************************)
BreakUp(c) == [c EXCEPT !.up = NoPeer, !.upType = Nothing, !.sourceAlloc = Nothing, !.inAlloc = Nothing]
BreakDown(c) == [c EXCEPT !.down = NoPeer, !.downType = Nothing, !.sinkAlloc = Nothing, !.outAlloc = Nothing]

\* the types each pair of pins has to choose from: its own and those
\* EnumMediaTypes passes through from the far side
UpTypes(c, s) == s.types \union (IF DownConnected(c) THEN c.down.types ELSE {})
DownTypes(c, r) == r.types \union (IF UpConnected(c) THEN c.up.types ELSE {})

\* the input pin's CompleteConnect comes before the choice of an allocator
MakeUp(c, s, t, asked) ==
  IF ~(t \in s.types /\ InCheckMediaType(c, t))
  THEN chain' = c /\ pending' = asked /\ UNCHANGED bytes
  ELSE LET k == [c EXCEPT !.up = s, !.upType = t]
       IN \E r \in SourceDecides(Outcome(k, bytes)) :
            /\ chain' = IF r.ok THEN r.chain ELSE BreakUp(r.chain)
            /\ bytes' = r.bytes
            /\ pending' = [RequestsByInput(k) EXCEPT !.up = asked.up]

MakeDown(c, snk, t, asked) ==
  IF ~(t \in snk.types /\ OutCheckMediaType(c, t))
  THEN chain' = c /\ pending' = asked /\ UNCHANGED bytes
  ELSE LET k == [c EXCEPT !.down = snk, !.downType = t]
       IN \E r \in DecideAllocator(Outcome(k, bytes)) :
            /\ chain' = IF r.ok THEN r.chain ELSE BreakDown(r.chain)
            /\ bytes' = r.bytes
            /\ pending' = IF r.ok THEN [RequestsByOutput(k) EXCEPT !.down = asked.down] ELSE asked

GraphCall == /\ ~streaming /\ graphCalls < MaxGraphCalls
             /\ graphCalls' = graphCalls + 1
             /\ UNCHANGED <<m_bModifiesData, streaming, m_bSampleSkipped, last>>

ConnectUp(s, t) == /\ ~UpConnected(chain) /\ t \in UpTypes(chain, s)
                   /\ GraphCall /\ MakeUp(chain, s, t, pending)

ConnectDown(snk, t) == /\ ~DownConnected(chain) /\ t \in DownTypes(chain, snk)
                       /\ GraphCall /\ MakeDown(chain, snk, t, pending)

Disconnect == /\ GraphCall /\ UNCHANGED <<bytes, pending>>
              /\ \/ UpConnected(chain) /\ chain' = BreakUp(chain)
                 \/ DownConnected(chain) /\ chain' = BreakDown(chain)

\* what ReconnectPin asked for: break the connection and make it once more
ReconnectUp ==
  /\ ~streaming /\ pending.up # Nothing
  /\ LET asked == [pending EXCEPT !.up = Nothing]
     IN IF UpConnected(chain) THEN MakeUp(BreakUp(chain), chain.up, pending.up, asked)
                              ELSE pending' = asked /\ UNCHANGED <<chain, bytes>>
  /\ UNCHANGED <<m_bModifiesData, streaming, m_bSampleSkipped, last, graphCalls>>

ReconnectDown ==
  /\ ~streaming /\ pending.down # Nothing
  /\ LET asked == [pending EXCEPT !.down = Nothing]
     IN IF DownConnected(chain) THEN MakeDown(BreakDown(chain), chain.down, pending.down, asked)
                                ELSE pending' = asked /\ UNCHANGED <<chain, bytes>>
  /\ UNCHANGED <<m_bModifiesData, streaming, m_bSampleSkipped, last, graphCalls>>

\* Reconnections of one side that cause reconnections of the other come to
\* an end: again and again none is left (the comparison of the types in
\* CompleteConnect).
Resting == pending.up = Nothing /\ pending.down = Nothing
Complete == UpConnected(chain) /\ DownConnected(chain)

Start == /\ ~streaming /\ Resting /\ Complete /\ graphCalls < MaxGraphCalls
         /\ streaming' = TRUE /\ m_bSampleSkipped' = FALSE /\ graphCalls' = graphCalls + 1
         /\ UNCHANGED <<m_bModifiesData, chain, bytes, pending, last>>

Stop == /\ streaming /\ streaming' = FALSE /\ last' = NoSample
        /\ UNCHANGED <<m_bModifiesData, chain, bytes, pending, m_bSampleSkipped, graphCalls>>

(***************************************************************************)
(* Receive                                                                 *)
(***************************************************************************)
\* the copy does not fit into the buffer of the output: the sample is lost
CopyFails == bytes[chain.outAlloc] < chain.up.need

AnswerSkip == m_bSampleSkipped' = TRUE   \* Transform answers S_FALSE

Receive ==
  /\ streaming
  /\ LET copy == UsingDifferentAllocators
         buffer == IF copy THEN chain.outAlloc ELSE chain.sourceAlloc
         wrote == IF m_bModifiesData \/ copy THEN buffer ELSE Nothing
         Sample(delivered) == [came |-> chain.sourceAlloc, wrote |-> wrote, delivered |-> delivered,
                               asked |-> copy /\ m_bSampleSkipped]
     IN \/ /\ copy /\ CopyFails
           /\ last' = [NoSample EXCEPT !.came = chain.sourceAlloc] /\ UNCHANGED m_bSampleSkipped
        \/ /\ ~(copy /\ CopyFails)
           /\ \/ last' = Sample(buffer) /\ m_bSampleSkipped' = (m_bSampleSkipped /\ ~copy)
              \/ last' = Sample(Nothing) /\ AnswerSkip
              \/ last' = Sample(Nothing) /\ m_bSampleSkipped' = (m_bSampleSkipped /\ ~copy)
  /\ UNCHANGED <<m_bModifiesData, chain, bytes, pending, streaming, graphCalls>>

TipNext == \/ \E s \in Sources : \E t \in UpTypes(chain, s) : ConnectUp(s, t)
           \/ \E r \in Sinks : \E t \in DownTypes(chain, r) : ConnectDown(r, t)
           \/ Disconnect \/ ReconnectUp \/ ReconnectDown
           \/ Start \/ Stop \/ Receive

Spec == /\ Init /\ [][TipNext]_tipVars
        /\ WF_tipVars(ReconnectUp) /\ WF_tipVars(ReconnectDown)

(***************************************************************************)
(* Properties                                                              *)
(***************************************************************************)
\* When no reconnection is pending and both sides are connected, both have
\* one type, the ends of each connection have one allocator, and samples
\* are copied only where a filter that modifies them must not write.
ChainSettles ==
  Resting /\ Complete =>
    /\ chain.upType = chain.downType
    /\ chain.sourceAlloc = chain.inAlloc /\ chain.outAlloc = chain.sinkAlloc
    /\ chain.inAlloc # chain.outAlloc => m_bModifiesData /\ chain.m_bReadOnly

\* A buffer of an allocator that is read-only is never written, the sink
\* gets samples of the allocator it was told of, and every copy fits.
SamplesAreLegal ==
  /\ last.wrote # Nothing =>
       ~(chain.up.readOnly /\ last.wrote = chain.up.alloc)
  /\ last.delivered \in {Nothing, chain.sinkAlloc}
  /\ streaming => bytes[chain.outAlloc] >= bytes[chain.sourceAlloc]
  /\ last.came # Nothing => last.wrote # Nothing \/ ~m_bModifiesData

\* The types and allocators are settled whenever nothing is left to
\* reconnect, and samples stay legal (NotifyAllocator, CompleteConnect, Copy).
TipSafety == ChainSettles /\ SamplesAreLegal

\* The comment of transip.cpp lists the resting states: an input that uses
\* the allocator of a downstream filter that is gone is none of them.
RestingStates ==
  Resting /\ ~Complete =>
    /\ UpConnected(chain) => chain.inAlloc \in {chain.up.alloc, "temporary"}
    /\ DownConnected(chain) => chain.outAlloc \in {"own", "sink"}
=============================================================================
