----------------------------- MODULE VideoGraph -----------------------------
(***************************************************************************)
(* A decoder (VideoTransform) before a video renderer (VideoRenderer): one *)
(* streaming thread takes each frame through both, and the renderer's      *)
(* quality message back before it decides on the frame.  The source and    *)
(* the time that decoding and drawing take are external.                   *)
(***************************************************************************)
EXTENDS Integers

CONSTANTS KeyWait, Garbage,
          MaxFrames,        \* frames in all
          Durations,        \* of a frame
          DecodeTimes, DrawTimes,
          At                \* the frames at which what is not usual may happen

(* "disc": a discontinuity, "untimed": a frame without times, "type": one  *)
(* with another input type, "format": the renderer asks for another output *)
(* format, "refuse": Transform answers S_FALSE, "fail": Receive fails,     *)
(* "handles": another sink takes the messages, "direct": the supplier has  *)
(* drawn the frame, "throttle", "flush", "restart".                        *)
Kinds == {"disc", "untimed", "type", "format", "refuse", "fail", "handles", "direct",
          "throttle", "flush", "restart"}

VARIABLES
  m_itrLate, m_nKeyFramePeriod, m_nFramesSinceKeyFrame, m_bSkipping, m_itrAvgDecode,
  m_bQualityChanged, m_bSampleSkipped, m_nWaitForKey, outcome, broken, waited, orphan,
  m_trLastDraw, m_trRenderAvg, m_trRenderLast, m_trWaitAvg, m_trFrameAvg, m_trDuration,
  m_trEarliness, m_trThrottle, m_bDropped, m_trLate, m_trFrame, m_cFramesDrawn,
  m_cFramesDropped, m_iTotAcc, m_iSumSqAcc, m_iSumFrameTime, m_iSumSqFrameTime,
  decision, due, shown,
  pc,               \* "source", "receive", "renderer", "draw"; "halted": see Receive
  frame,            \* the one on its way
  sent,             \* frames so far
  now               \* stream time

T == INSTANCE VideoTransform
R == INSTANCE VideoRenderer

decoder == <<m_itrLate, m_nKeyFramePeriod, m_nFramesSinceKeyFrame, m_bSkipping,
             m_itrAvgDecode, m_bQualityChanged, m_bSampleSkipped, m_nWaitForKey, outcome,
             broken, waited, orphan>>
averages == <<m_trLastDraw, m_trRenderAvg, m_trRenderLast, m_trWaitAvg, m_trFrameAvg,
              m_trDuration, m_trEarliness, m_trThrottle, m_bDropped, m_trLate, m_trFrame,
              m_cFramesDropped>>
shows == <<m_cFramesDrawn, m_iTotAcc, m_iSumSqAcc, m_iSumFrameTime, m_iSumSqFrameTime, shown>>
renderer == <<averages, shows, decision, due>>
vars == <<decoder, renderer, pc, frame, sent, now>>

Frame(start, dur, key, disc, stamped, type) ==
  [start |-> start, stop |-> start + dur, key |-> key, disc |-> disc, stamped |-> stamped,
   type |-> type]

First == Frame(0, 0, TRUE, FALSE, TRUE, FALSE)

Init ==
  /\ T!Init /\ R!Init
  /\ pc = "source" /\ frame = First /\ sent = 0 /\ now = 0

May(kind) == sent \in At[kind]

(* The next frame follows the last one.  The stream begins with a key frame. *)
Send ==
  /\ pc = "source" /\ sent < MaxFrames
  /\ pc' = "receive" /\ sent' = sent + 1
  /\ \E dur \in Durations, key, disc, stamped, type \in BOOLEAN :
       /\ frame' = Frame(frame.stop, dur, key, disc, stamped, type)
       /\ sent = 0 => key
       /\ disc => May("disc")
       /\ ~stamped => May("untimed")
       /\ type => May("type")
  /\ UNCHANGED <<decoder, renderer, now>>

Answers == {"delivered"} \cup (IF May("refuse") THEN {"withheld"} ELSE {})
                         \cup (IF May("fail") THEN {"failed"} ELSE {})

(* A source that is told of a failure sends nothing more until it is       *)
(* flushed or started again (CSourceStream and CPullPin end their loops).  *)
Receive ==
  /\ pc = "receive"
  /\ \/ T!SkipFrame(frame) /\ UNCHANGED now
     \/ \E newFormat \in BOOLEAN :
          /\ newFormat => May("format")
          /\ \/ May("fail") /\ T!Fail(frame, newFormat) /\ UNCHANGED now
             \/ \E took \in DecodeTimes, answer \in Answers :
                  T!Decode(frame, took, newFormat, answer) /\ now' = now + took
  /\ pc' = (CASE outcome' = "delivered" -> "renderer" [] outcome' = "failed" -> "halted"
             [] OTHER -> "source")
  /\ UNCHANGED <<renderer, frame, sent>>

(* The sink of the quality messages is this decoder, which answers with a  *)
(* failure, or another (SetSink), which may say that it handles them.  A   *)
(* frame without times is drawn at once.                                   *)
Schedule ==
  /\ pc = "renderer"
  /\ \E handling \in BOOLEAN :
       /\ handling => May("handles")
       /\ IF frame.stamped THEN R!ScheduleSample(frame, now, handling)
          ELSE /\ decision' = "now" /\ due' = now
               /\ UNCHANGED <<averages, shows>>
       /\ IF handling \/ ~frame.stamped THEN UNCHANGED decoder
          ELSE T!AlterQuality(R!QualityLate(now - R!Biased(frame)))
  /\ pc' = "draw" /\ UNCHANGED <<frame, sent, now>>

Draw ==
  /\ pc = "draw" /\ decision # "drop" /\ pc' = "source"
  /\ \E took \in DrawTimes :
       LET at == R!Greater(now, due) IN
       /\ R!Draw(at, took) /\ now' = at + took + m_trThrottle
  /\ UNCHANGED <<decoder, frame, sent>>

DirectRender ==
  /\ pc = "draw" /\ decision # "drop" /\ May("direct") /\ pc' = "source"
  /\ LET at == R!Greater(now, due) IN R!DirectRender(at) /\ now' = at + m_trThrottle
  /\ UNCHANGED <<decoder, frame, sent>>

Forget ==
  /\ pc = "draw" /\ decision = "drop" /\ pc' = "source"
  /\ UNCHANGED <<decoder, renderer, frame, sent, now>>

(* An audio renderer asks for time.                                        *)
Throttle ==
  /\ pc = "source" /\ May("throttle") /\ R!Notify(500)
  /\ UNCHANGED <<decoder, pc, frame, sent, now>>

Flush ==
  /\ pc \in {"source", "halted"} /\ May("flush") /\ pc' = "source" /\ T!StartStreaming
  /\ UNCHANGED <<renderer, frame, sent, now>>

Restart ==
  /\ pc \in {"source", "halted"} /\ May("restart") /\ pc' = "source"
  /\ R!ResetStreamingTimes /\ T!StartStreaming
  /\ now' = 0 /\ frame' = First
  /\ UNCHANGED sent

Next ==
  Send \/ Receive \/ Schedule \/ Draw \/ DirectRender \/ Forget \/ Throttle \/ Flush \/ Restart

Spec == Init /\ [][Next]_vars

(***************************************************************************)
(* Correctness                                                             *)
(***************************************************************************)
TypeOK == T!TypeOK /\ R!TypeOK /\ pc \in {"source", "receive", "renderer", "draw", "halted"}

NothingDecodedInPieces == T!NothingDecodedInPieces
KeyIsAwaited == T!KeyIsAwaited
NoImaginaryJitter == R!NoImaginaryJitter

(* The picture does not hang: the first frame that lasts is drawn, and a   *)
(* frame is dropped only within a second of another that was shown, or of  *)
(* the start, whatever the averages have come to ("which stops the video   *)
(* looking hung").                                                         *)
NothingHangs ==
  pc = "draw" /\ decision = "drop" =>
    /\ now - shown <= R!Second
    /\ shown = -1 => frame.stop = frame.start
=============================================================================
