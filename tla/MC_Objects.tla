----------------------------- MODULE MC_Objects -----------------------------
(***************************************************************************)
(* The objects of a filter graph, side by side: a behaviour is one of the  *)
(* pins of three filters being connected, of a decoder and a renderer that *)
(* pass frames, of two lists, of a filter's pin enumerators, of a media    *)
(* type enumerator, of a rendered input pin, of a media sample or of a     *)
(* filter's references to its clock and its graph.  Media type "a" suits   *)
(* every filter that connects, "b" the source and the transform only, "c"  *)
(* the source and the sink only.                                           *)
(***************************************************************************)
EXTENDS PinConnection, MC_Lists, FiniteSets, TLC

AllTypes == {"a", "b", "c"}
Offers == <<"b", "a">>
AOrB == {"a", "b"}
AOrC == {"a", "c"}
SinkList == <<"c", "a">>
AnyFaults == {"memory", "hook", "size", "notify"}

CONSTANTS KeyWait, Garbage, MaxFrames, Durations, DecodeTimes, DrawTimes, At,
          Pins, Enums, NoPin, MaxVersion,
          TypeList, MaxTypeVersion, MaxTypePosition,
          EndOfStreamLocks,
          Size, MediaType, NoMediaType,
          Clocks, NoClock, CallerLocks

VARIABLES
  pins, m_PinVersion, unannounced, m_Version, m_PinCount, m_Position, m_PinCache, enumPc,
  wanted, fetched, given, skipped, lost, unseen,
  offered, m_TypeVersion, typesChanged, version, position, typePc, left, handed, passed, failed,
  m_State, m_bAtEndOfStream, m_bCompleteNotified, m_bFlushingPin, runPc, eosPc, lockedBy,
  stateSeen, completes,
  props, inUse, typeBlocks,
  m_pClock, clockRefs, ours, setPc, newClock, filterLock, timePc, timeClock, m_pGraph,
  m_pSink, graphThere, streams, sendPc,
  m_itrLate, m_nKeyFramePeriod, m_nFramesSinceKeyFrame, m_bSkipping, m_itrAvgDecode,
  m_bQualityChanged, m_bSampleSkipped, m_nWaitForKey, outcome, broken, waited, orphan,
  m_trLastDraw, m_trRenderAvg, m_trRenderLast, m_trWaitAvg, m_trFrameAvg, m_trDuration,
  m_trEarliness, m_trThrottle, m_bDropped, m_trLate, m_trFrame, m_cFramesDrawn,
  m_cFramesDropped, m_iTotAcc, m_iSumSqAcc, m_iSumFrameTime, m_iSumSqFrameTime,
  decision, due, shown, pc, frame, sent, now

pinEnumVars == <<pins, m_PinVersion, unannounced, m_Version, m_PinCount, m_Position,
                 m_PinCache, enumPc, wanted, fetched, given, skipped, lost, unseen>>
typeEnumVars == <<offered, m_TypeVersion, typesChanged, version, position, typePc, left,
                  handed, passed, failed>>
pinRunVars == <<m_State, m_bAtEndOfStream, m_bCompleteNotified, m_bFlushingPin, runPc, eosPc,
                lockedBy, stateSeen, completes>>
sampleVars == <<props, inUse, typeBlocks>>
linkVars == <<m_pClock, clockRefs, ours, setPc, newClock, filterLock, timePc, timeClock,
              m_pGraph, m_pSink, graphThere, streams, sendPc>>
videoVars ==
  <<m_itrLate, m_nKeyFramePeriod, m_nFramesSinceKeyFrame, m_bSkipping, m_itrAvgDecode,
    m_bQualityChanged, m_bSampleSkipped, m_nWaitForKey, outcome, broken, waited, orphan,
    m_trLastDraw, m_trRenderAvg, m_trRenderLast, m_trWaitAvg, m_trFrameAvg, m_trDuration,
    m_trEarliness, m_trThrottle, m_bDropped, m_trLate, m_trFrame, m_cFramesDrawn,
    m_cFramesDropped, m_iTotAcc, m_iSumSqAcc, m_iSumFrameTime, m_iSumSqFrameTime,
    decision, due, shown, pc, frame, sent, now>>
allVars == <<which, vars, listVars, pinEnumVars, typeEnumVars, pinRunVars, sampleVars,
             linkVars, videoVars>>

(* The frames at which what is not usual may happen (see VideoGraph).      *)
AtSome ==
  [kind \in {"disc", "untimed", "type", "format", "refuse", "fail", "handles", "direct",
             "throttle", "flush", "restart"} |->
    CASE kind = "disc" -> {4} [] kind = "untimed" -> {5} [] kind = "type" -> {6}
      [] kind = "format" -> {3} [] kind = "refuse" -> {2} [] kind = "fail" -> {3}
      [] kind = "handles" -> {3} [] kind = "direct" -> {4} [] kind = "throttle" -> {2}
      [] kind = "flush" -> {4} [] kind = "restart" -> {2} [] OTHER -> {}]

E == INSTANCE PinEnum
T == INSTANCE TypeEnum WITH Types <- TypeList
R == INSTANCE RenderedPin
M == INSTANCE MediaSample WITH NoType <- NoMediaType
F == INSTANCE FilterLinks
V == INSTANCE VideoGraph

(* NoClock and NoPin stand for NULL; a buffer has a size.                  *)
ASSUME ObjectsAssumption ==
  NoClock \notin Clocks /\ IsFiniteSet(Pins) /\ NoPin \notin Pins /\ Size \in Nat

ASSUME VideoAssumption ==
  /\ At \in [V!Kinds -> SUBSET (0 .. MaxFrames)]
  /\ KeyWait \in Nat \ {0} /\ Garbage \subseteq Int
  /\ Durations \subseteq Nat /\ DecodeTimes \subseteq Nat /\ DrawTimes \subseteq Nat

(* The table in the comment on the throttle, and the root that the         *)
(* property page shows "to the nearest mSec for the range in question".    *)
ThrottleTable == {<<900, 3>>, <<800, 7>>, <<700, 11>>, <<600, 17>>, <<500, 25>>, <<400, 35>>,
                  <<300, 50>>, <<200, 72>>, <<125, 100>>, <<100, 112>>, <<50, 146>>, <<0, 200>>}
ASSUME ThrottleFitsTable ==
  \A row \in ThrottleTable : V!R!Throttle(row[1]) \div 10000 \in row[2] - 1 .. row[2]
ASSUME RootIsClose ==
  \A x \in 1 .. 3000 : LET s == V!R!isqrt(x) IN (s - 1) * (s - 1) < x /\ x < (s + 1) * (s + 1)

(* What a component may begin with is fixed for the others.                *)
ObjectsInit ==
  /\ which \in {"connection", "video", "lists", "pins", "types", "rendered", "sample", "links"}
  /\ Init /\ L!Init /\ E!Init /\ T!Init /\ R!Init /\ M!Init /\ F!Init /\ V!Init
  /\ which # "types" => offered = <<>>
  /\ which # "video" => m_nWaitForKey = CHOOSE g \in Garbage : TRUE

ObjectsNext ==
  \/ /\ which = "connection" /\ Next
     /\ UNCHANGED <<which, videoVars, listVars, pinEnumVars, typeEnumVars,
                    pinRunVars, sampleVars, linkVars>>
  \/ /\ which = "video" /\ V!Next
     /\ UNCHANGED <<which, vars, listVars, pinEnumVars, typeEnumVars,
                    pinRunVars, sampleVars, linkVars>>
  \/ /\ which = "lists" /\ L!Next
     /\ UNCHANGED <<which, vars, videoVars, pinEnumVars, typeEnumVars,
                    pinRunVars, sampleVars, linkVars>>
  \/ /\ which = "pins" /\ E!PinEnumNext
     /\ UNCHANGED <<which, vars, videoVars, listVars, typeEnumVars,
                    pinRunVars, sampleVars, linkVars>>
  \/ /\ which = "types" /\ T!TypeEnumNext
     /\ UNCHANGED <<which, vars, videoVars, listVars, pinEnumVars,
                    pinRunVars, sampleVars, linkVars>>
  \/ /\ which = "rendered" /\ R!RenderedNext
     /\ UNCHANGED <<which, vars, videoVars, listVars, pinEnumVars,
                    typeEnumVars, sampleVars, linkVars>>
  \/ /\ which = "sample" /\ M!SampleNext
     /\ UNCHANGED <<which, vars, videoVars, listVars, pinEnumVars,
                    typeEnumVars, pinRunVars, linkVars>>
  \/ /\ which = "links" /\ F!LinksNext
     /\ UNCHANGED <<which, vars, videoVars, listVars, pinEnumVars,
                    typeEnumVars, pinRunVars, sampleVars>>

ObjectsSpec == ObjectsInit /\ [][ObjectsNext]_allVars

(* No enumerator of pins differs from another.                             *)
EnumSymmetry == Permutations(Enums)

(* See VideoGraph: a frame with times that is not skipped finds those it   *)
(* builds on, what the decoder makes of frames before a key frame is not   *)
(* shown, the picture does not hang, and the statistics show no jitter     *)
(* that was not there.                                                     *)
VideoSafety ==
  which = "video" =>
    /\ V!TypeOK /\ V!NothingDecodedInPieces /\ V!KeyIsAwaited
    /\ V!NothingHangs /\ V!NoImaginaryJitter

(* See PinEnum, TypeEnum and MediaSample: an enumerator that is in step    *)
(* with the filter or the pin gives out everything once, but what a call   *)
(* that fails takes with it; a returned sample has neither flags nor type, *)
(* and its properties can be read and written back.                        *)
NothingLostOrLeft ==
  /\ which = "pins" => E!PinEnumSafety
  /\ which = "types" => T!TypesInStep
  /\ which = "sample" => M!SampleSafety

(* See RenderedPin and FilterLinks: EC_COMPLETE is sent once and is not    *)
(* forgotten, also by a filter whose references come and go; what a filter *)
(* refers to is there.                                                     *)
CompletesAndLinks ==
  /\ which = "rendered" => R!CompletesOnce
  /\ which = "links" => F!LinksLive
=============================================================================
