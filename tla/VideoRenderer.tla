--------------------------- MODULE VideoRenderer ---------------------------
(***************************************************************************)
(* CBaseVideoRenderer's scheduling (renbase.cpp): whether a frame is drawn *)
(* at once, when it is due, or not at all, with the averages it is decided *)
(* from, the quality message to the supplier and the statistics of the     *)
(* property page.  Called with both locks of Renderer held.  Times are in  *)
(* milliseconds of stream time (the code's 10000 units).                   *)
(***************************************************************************)
EXTENDS Integers

VARIABLES
  m_trLastDraw, m_trRenderAvg, m_trRenderLast, m_trWaitAvg, m_trFrameAvg, m_trDuration,
  m_trEarliness, m_trThrottle,
  m_bDropped,           \* m_nNormal is -1: the last frame was dropped
  m_trLate, m_trFrame,  \* of the frame to draw
  m_cFramesDrawn, m_cFramesDropped,
  m_iTotAcc, m_iSumSqAcc, m_iSumFrameTime, m_iSumSqFrameTime,
  decision,             \* on the last frame: "none", "now", "wait", "drop"
  due,                  \* when the frame is to be drawn
  shown                 \* observer: when the last frame was drawn, -1: none yet

averages == <<m_trRenderAvg, m_trRenderLast, m_trWaitAvg, m_trFrameAvg, m_trDuration,
              m_trEarliness>>
statistics == <<m_iTotAcc, m_iSumSqAcc, m_iSumFrameTime, m_iSumSqFrameTime>>
rvars == <<averages, statistics, m_trLastDraw, m_trThrottle, m_bDropped, m_trLate, m_trFrame,
           m_cFramesDrawn, m_cFramesDropped, decision, due, shown>>

Second == 1000

(* Integer division of C.                                                  *)
Quot(a, b) == IF a >= 0 THEN a \div b ELSE -((-a) \div b)
Greater(a, b) == IF a > b THEN a ELSE b
Lesser(a, b) == IF a < b THEN a ELSE b

(* The rolling average over AVGPERIOD.                                     *)
MovingAvg(avg, new) == Quot(new + 3 * avg, 4)

Init ==
  /\ m_trLastDraw = -1 /\ m_trRenderAvg = 0 /\ m_trRenderLast = 0 /\ m_trWaitAvg = 0
  /\ m_trFrameAvg = -1 /\ m_trDuration = 0 /\ m_trEarliness = 0 /\ m_trThrottle = 0
  /\ m_bDropped = FALSE /\ m_trLate = 0 /\ m_trFrame = 0
  /\ m_cFramesDrawn = 0 /\ m_cFramesDropped = 0
  /\ m_iTotAcc = 0 /\ m_iSumSqAcc = 0 /\ m_iSumFrameTime = 0 /\ m_iSumSqFrameTime = 0
  /\ decision = "none" /\ due = 0 /\ shown = -1

ResetStreamingTimes ==
  /\ m_trLastDraw' = -1 /\ m_trRenderAvg' = 0 /\ m_trRenderLast' = 0 /\ m_trWaitAvg' = 0
  /\ m_trFrameAvg' = -1 /\ m_trDuration' = 0 /\ m_trEarliness' = 0 /\ m_trThrottle' = 0
  /\ m_bDropped' = FALSE /\ m_trLate' = 0 /\ m_trFrame' = 0
  /\ m_cFramesDrawn' = 0 /\ m_cFramesDropped' = 0
  /\ m_iTotAcc' = 0 /\ m_iSumSqAcc' = 0 /\ m_iSumFrameTime' = 0 /\ m_iSumSqFrameTime' = 0
  /\ decision' = "none" /\ due' = 0 /\ shown' = -1

(***************************************************************************)
(* Quality messages                                                        *)
(***************************************************************************)

(* The rate asked of the supplier, in thousandths.                         *)
Proportion(late) ==
  IF m_trFrameAvg < 0 THEN 1000
  ELSE IF late > 0 THEN Greater(500, 1000 - late)
  ELSE IF m_trWaitAvg > 2 /\ late < -2
  THEN IF m_trWaitAvg >= m_trFrameAvg THEN 2000
       ELSE Lesser(2000, 1000 * (m_trFrameAvg \div (m_trFrameAvg + 2 - m_trWaitAvg)))
  ELSE 1000

(* Late in the message adds half of what the drawing takes.                *)
QualityLate(late) == late + m_trRenderAvg \div 2

(* The pause after a frame, in units, that an audio renderer asks for.     *)
Throttle(proportion) ==
  IF proportion >= 1000 THEN 0 ELSE 388880000 \div (proportion + 167) - 330000

Notify(proportion) ==
  /\ m_trThrottle' = Throttle(proportion) \div 10000
  /\ UNCHANGED <<averages, statistics, m_trLastDraw, m_bDropped, m_trLate, m_trFrame,
                 m_cFramesDrawn, m_cFramesDropped, decision, due, shown>>

(***************************************************************************)
(* ShouldDrawSampleNow                                                     *)
(***************************************************************************)

(* A frame's start, eight milliseconds early for the monitor.              *)
Biased(f) == IF f.start >= 8 THEN f.start - 8 ELSE f.start

(* The rate of the stream has changed.                                     *)
NewRate(dur) == dur > m_trDuration + m_trDuration \div 32 \/ dur < m_trDuration - m_trDuration \div 32

FrameAvg(dur) == IF NewRate(dur) THEN dur ELSE m_trFrameAvg

Earliness(late, justDropped) ==
  IF late > 0 THEN 0
  ELSE IF late >= m_trEarliness \/ justDropped THEN late
  ELSE m_trEarliness - Quot(m_trEarliness, 8)

(* Mutant: a screen that has not changed for long does not count.          *)
WorthDrawingOnTime(late, dur, now, handling) ==
  \/ 3 * m_trRenderAvg <= FrameAvg(dur)
  \/ IF handling THEN late <= 4 * dur ELSE 2 * late < dur

WorthDrawing(late, dur, now, handling) ==
  \/ 3 * m_trRenderAvg <= FrameAvg(dur)
  \/ IF handling THEN late <= 4 * dur ELSE 2 * late < dur
  \/ m_trWaitAvg > 8
  \/ now - m_trLastDraw > Second

(* In slow machine mode, unless the frame is grossly early.                *)
PlayAtOnce(late, dur, justDropped) ==
  /\ justDropped \/ (FrameAvg(dur) > dur + dur \div 16 /\ late > -10 * dur)
  /\ late >= -900

Prepare(late, frame) == m_trLate' = late /\ m_trFrame' = frame

DrawAtOnce(late, dur, now, justDropped) ==
  LET frame == Lesser(now - m_trLastDraw, Second) IN
  /\ PlayAtOnce(late, dur, justDropped)
  /\ decision' = "now" /\ due' = now /\ m_bDropped' = FALSE
  /\ m_trWaitAvg' = MovingAvg(m_trWaitAvg, 0)
  /\ m_trFrameAvg' = MovingAvg(FrameAvg(dur), frame)
  /\ m_trEarliness' = Lesser(Earliness(late, justDropped), late)
  /\ m_trLastDraw' = now /\ Prepare(late, frame)

PredictedDraw(start, trE) == start + trE

DrawWhenDue(start, late, dur, now, justDropped) ==
  LET trE == Greater(Earliness(late, justDropped), -dur) IN
  /\ ~PlayAtOnce(late, dur, justDropped)
  /\ m_bDropped' = FALSE
  /\ m_trFrameAvg' = dur /\ m_trEarliness' = Earliness(late, justDropped)
  /\ m_trWaitAvg' = MovingAvg(m_trWaitAvg, Greater(-late, 0))
  /\ IF late >= 0
     THEN /\ decision' = "now" /\ due' = now /\ m_trLastDraw' = now
          /\ Prepare(late, Lesser(now - m_trLastDraw, Second))
     ELSE /\ decision' = "wait" /\ due' = start + trE
          /\ m_trLastDraw' = PredictedDraw(start, trE)
          /\ Prepare(trE, start + trE - m_trLastDraw)

Drop(late, dur, justDropped) ==
  /\ decision' = "drop" /\ m_bDropped' = TRUE
  /\ m_trWaitAvg' = MovingAvg(m_trWaitAvg, Greater(-late, 0))
  /\ m_trFrameAvg' = FrameAvg(dur) /\ m_trEarliness' = Earliness(late, justDropped)
  /\ UNCHANGED <<m_trLastDraw, m_trLate, m_trFrame, due>>

(* handling is the supplier's answer to the quality message.               *)
ShouldDrawSampleNow(f, now, handling) ==
  LET start == Biased(f)
      late == now - start
      dur == f.stop - f.start
      justDropped == (handling /\ f.disc) \/ m_bDropped
  IN
  /\ m_trDuration' = (IF NewRate(dur) THEN dur ELSE m_trDuration)
  /\ IF WorthDrawing(late, dur, now, handling)
     THEN \/ DrawAtOnce(late, dur, now, justDropped)
          \/ DrawWhenDue(start, late, dur, now, justDropped)
     ELSE Drop(late, dur, justDropped)

ScheduleSample(f, now, handling) ==
  /\ ShouldDrawSampleNow(f, now, handling)
  /\ m_cFramesDropped' = m_cFramesDropped + (IF decision' = "drop" THEN 1 ELSE 0)
  /\ UNCHANGED <<m_trRenderAvg, m_trRenderLast, m_trThrottle, statistics, m_cFramesDrawn, shown>>

(***************************************************************************)
(* Drawing and its statistics                                              *)
(***************************************************************************)

(* More than a second off spoils the statistics.                           *)
Clip(late) ==
  IF late \in -1000 .. 1000 THEN late
  ELSE IF m_cFramesDrawn <= 1 THEN 0 ELSE IF late > 0 THEN 1000 ELSE -1000

RecordFrameLateness ==
  LET late == Clip(m_trLate)
      frame == IF m_trFrame \in 0 .. 1000 THEN m_trFrame ELSE 1000
  IN
  /\ m_iTotAcc' = m_iTotAcc + (IF m_cFramesDrawn > 1 THEN late ELSE 0)
  /\ m_iSumSqAcc' = m_iSumSqAcc + (IF m_cFramesDrawn > 1 THEN late * late ELSE 0)
  /\ m_iSumFrameTime' = m_iSumFrameTime + (IF m_cFramesDrawn > 2 THEN frame ELSE 0)
  /\ m_iSumSqFrameTime' = m_iSumSqFrameTime + (IF m_cFramesDrawn > 2 THEN frame * frame ELSE 0)
  /\ m_cFramesDrawn' = m_cFramesDrawn + 1

(* OnRenderStart and OnRenderEnd around a drawing that takes took; spikes  *)
(* do not enter the average.                                               *)
Draw(now, took) ==
  /\ RecordFrameLateness
  /\ m_trRenderAvg' = (IF took < 2 * m_trRenderAvg \/ took < 2 * m_trRenderLast
                       THEN MovingAvg(m_trRenderAvg, took) ELSE m_trRenderAvg)
  /\ m_trRenderLast' = took
  /\ shown' = now /\ decision' = "none"
  /\ UNCHANGED <<m_trWaitAvg, m_trFrameAvg, m_trDuration, m_trEarliness, m_trLastDraw,
                 m_trThrottle, m_bDropped, m_trLate, m_trFrame, m_cFramesDropped, due>>

(* OnDirectRender: the supplier has drawn it.                              *)
DirectRender(now) ==
  /\ RecordFrameLateness /\ m_trRenderAvg' = 0 /\ m_trRenderLast' = Second \div 2
  /\ shown' = now /\ decision' = "none"
  /\ UNCHANGED <<m_trWaitAvg, m_trFrameAvg, m_trDuration, m_trEarliness, m_trLastDraw,
                 m_trThrottle, m_bDropped, m_trLate, m_trFrame, m_cFramesDropped, due>>

(* The variance of which the property page shows the root.                 *)
Variance(n, sumSq, total) ==
  IF n <= 1 THEN 0 ELSE Quot(sumSq - (total * total) \div n, n - 1)

(* Mutant: one less.                                                       *)
DevOfFewer == Variance(m_cFramesDrawn - 3, m_iSumSqAcc, m_iTotAcc)
DevSyncOffset == Variance(m_cFramesDrawn - 1, m_iSumSqAcc, m_iTotAcc)
Jitter == Variance(m_cFramesDrawn - 2, m_iSumSqFrameTime, m_iSumFrameTime)
AvgSyncOffset == IF m_cFramesDrawn <= 1 THEN 0 ELSE Quot(m_iTotAcc, m_cFramesDrawn - 1)
AvgFrameRate(elapsed) == IF elapsed <= 0 THEN 0 ELSE (100000 * m_cFramesDrawn) \div elapsed

(* The root by three steps of Newton and Raphson from the power of two     *)
(* above it (for x up to 10^6, where the code's loop stops by 2^10).       *)
Guess(x) == CHOOSE s \in {2 ^ k : k \in 0 .. 10} : s * s >= x /\ (s = 1 \/ (s \div 2) * (s \div 2) < x)
isqrt(x) ==
  LET step(s) == (s * s + x) \div (2 * s) IN
  IF x = 0 THEN 0 ELSE step(step(step(Guess(x))))

(***************************************************************************)
(* Correctness                                                             *)
(***************************************************************************)
TypeOK ==
  /\ {m_trLastDraw, m_trRenderAvg, m_trRenderLast, m_trWaitAvg, m_trFrameAvg, m_trDuration,
      m_trEarliness, m_trLate, m_trFrame, m_iTotAcc, due} \subseteq Int
  /\ {m_trThrottle, m_cFramesDrawn, m_cFramesDropped, m_iSumSqAcc, m_iSumFrameTime,
      m_iSumSqFrameTime} \subseteq Nat
  /\ m_bDropped \in BOOLEAN /\ decision \in {"none", "now", "wait", "drop"}

(* The sums and the count that they are divided by go together ("the       *)
(* property page ... square roots of negative numbers").                   *)
NoImaginaryJitter == DevSyncOffset >= 0 /\ Jitter >= 0
=============================================================================
