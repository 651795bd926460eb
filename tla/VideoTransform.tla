--------------------------- MODULE VideoTransform ---------------------------
(***************************************************************************)
(* CVideoTransformFilter (vtrans.cpp): a decoder that skips frames up to   *)
(* the next key frame when the renderer says that they come late.  All of  *)
(* it happens on the streaming thread, under m_csReceive.  Times are in    *)
(* milliseconds.  A frame is [key, start, stop, disc, stamped, type]; with *)
(* `type` it carries another input type.                                   *)
(***************************************************************************)
EXTENDS Integers

CONSTANTS
  KeyWait,      \* frames to wait for a key frame, 30 in the code
  Garbage       \* what m_nWaitForKey may hold before its first assignment

VARIABLES
  m_itrLate, m_nKeyFramePeriod, m_nFramesSinceKeyFrame, m_bSkipping, m_itrAvgDecode,
  m_bQualityChanged, m_bSampleSkipped,
  m_nWaitForKey,
  outcome,          \* of the last Receive: "skipped", "withheld", "delivered", "failed"
  broken,           \* observer: the decoder lacks a frame that the next needs
  waited,           \* observer: frames decoded in wait of a key frame, up to KeyWait
  orphan            \* observer: the last frame decoded lacked one it needs: "none" or its kind

tvars == <<m_itrLate, m_nKeyFramePeriod, m_nFramesSinceKeyFrame, m_bSkipping, m_itrAvgDecode,
           m_bQualityChanged, m_bSampleSkipped, m_nWaitForKey, outcome, broken, waited, orphan>>

Higher(a, b) == IF a > b THEN a ELSE b

(* The constructor; it leaves m_nWaitForKey alone.                         *)
Init ==
  /\ m_itrLate = 0 /\ m_nKeyFramePeriod = 0 /\ m_nFramesSinceKeyFrame = 0
  /\ m_bSkipping = FALSE /\ m_itrAvgDecode = 30
  /\ m_bQualityChanged = FALSE /\ m_bSampleSkipped = FALSE
  /\ m_nWaitForKey \in Garbage
  /\ outcome = "none" /\ broken = FALSE /\ waited = 0 /\ orphan = "none"

(* What a start, a flush or another output format make of the variables    *)
(* that ShouldSkipFrame has set to q.                                      *)
Fresh(q) == [q EXCEPT !.late = 0, !.period = 0, !.since = 0, !.skipping = FALSE,
                      !.decode = 30, !.changed = FALSE]

Held ==
  [late |-> m_itrLate, period |-> m_nKeyFramePeriod, since |-> m_nFramesSinceKeyFrame,
   skipping |-> m_bSkipping, decode |-> m_itrAvgDecode, changed |-> m_bQualityChanged]

Becomes(q) ==
  /\ m_itrLate' = q.late /\ m_nKeyFramePeriod' = q.period /\ m_nFramesSinceKeyFrame' = q.since
  /\ m_bSkipping' = q.skipping /\ m_itrAvgDecode' = q.decode /\ m_bQualityChanged' = q.changed

(* (After a flush the source goes on with a key frame or a discontinuity.) *)
StartStreaming ==
  /\ Becomes(Fresh(Held)) /\ m_bSampleSkipped' = FALSE
  /\ broken' = FALSE
  /\ UNCHANGED <<m_nWaitForKey, outcome, waited, orphan>>

(***************************************************************************)
(* ShouldSkipFrame                                                         *)
(***************************************************************************)

(* The greatest distance of key frames seen.                               *)
KeyFramePeriod(q, f) ==
  IF f.key \/ (q.since > q.period /\ q.period > 0) THEN Higher(q.period, q.since) ELSE q.period

(* The time to the next key frame, if it comes when it is expected.        *)
TimeTillKey(period, since, dur) == dur * (period - since - 1)

(* Mutant: at each frame it is decided anew whether to skip.               *)
ReassessSkip(q, f) ==
  [q EXCEPT !.period = KeyFramePeriod(q, f), !.since = IF f.key THEN 0 ELSE @, !.skipping = FALSE]

CountFrames(q, f) ==
  [q EXCEPT !.period = KeyFramePeriod(q, f), !.since = IF f.key THEN 0 ELSE @,
            !.skipping = @ /\ ~f.key]

WorthSkipping(q, dur) ==
  /\ q.decode * 4 > dur /\ q.late > dur
  /\ q.period > 0 /\ q.late > TimeTillKey(q.period, q.since, dur)

ShouldSkipFrame(q, f) ==
  IF ~f.stamped THEN q
  ELSE LET dur == f.stop - f.start
           c == CountFrames(q, f)
           skip == c.skipping \/ WorthSkipping(c, dur)
       IN  [c EXCEPT !.since = @ + 1, !.skipping = skip, !.changed = @ \/ skip,
                     !.late = IF skip THEN @ - dur ELSE @]

(***************************************************************************)
(* Receive                                                                 *)
(***************************************************************************)

(* What ShouldSkipFrame finds: with another input type the streaming has   *)
(* been started again.                                                     *)
Found(f) == IF f.type THEN Fresh(Held) ELSE Held

Skips(f) == f.stamped /\ ShouldSkipFrame(Found(f), f).skipping

SkipFrame(f) ==
  /\ Skips(f) /\ Becomes(ShouldSkipFrame(Found(f), f))
  /\ m_bSampleSkipped' = TRUE /\ outcome' = "skipped"
  /\ broken' = TRUE /\ UNCHANGED <<m_nWaitForKey, waited, orphan>>

(* The caller is told of a failure, and the decoder never gets the frame.  *)
LoseFrame ==
  /\ outcome' = "failed" /\ broken' = TRUE
  /\ UNCHANGED <<m_nWaitForKey, waited, orphan>>

(* The StartStreaming of a derived class fails for another type, before or *)
(* after it has called that of this class: AbortPlayback.                  *)
AbortPlayback(q, skipped) ==
  /\ \/ Becomes(q) /\ m_bSampleSkipped' = skipped
     \/ Becomes(Fresh(q)) /\ m_bSampleSkipped' = FALSE
  /\ LoseFrame

NoOutputSample(f) ==
  /\ ~Skips(f) /\ Becomes(ShouldSkipFrame(Found(f), f))
  /\ m_bSampleSkipped' = (m_bSampleSkipped /\ ~f.type)
  /\ LoseFrame

Fail(f, newFormat) ==
  \/ f.type /\ AbortPlayback(Held, m_bSampleSkipped)
  \/ NoOutputSample(f)
  \/ ~Skips(f) /\ newFormat /\ AbortPlayback(ShouldSkipFrame(Found(f), f), FALSE)

(* Mutant: the last frame but one of the wait is shown.                    *)
WaitLess(wait, f) == IF f.key \/ wait <= 2 THEN 0 ELSE wait - 1

(* After a discontinuity or a new format.                                  *)
WaitForKey(wait, f) ==
  LET left == IF wait # 0 THEN wait - 1 ELSE 0 IN IF f.key THEN 0 ELSE left

(* The frame is decoded, which takes took.  Transform's answer says what   *)
(* is to become of it: S_OK, S_FALSE or a failure.  While a key frame is   *)
(* to come S_OK is made S_FALSE.                                           *)
Decode(f, took, newFormat, answer) ==
  LET q0 == ShouldSkipFrame(Found(f), f)
      q == IF newFormat THEN Fresh(q0) ELSE q0
      begins == newFormat \/ f.disc
      wait == WaitForKey(IF begins THEN KeyWait ELSE m_nWaitForKey, f)
      result == IF answer = "delivered" /\ wait # 0 THEN "withheld" ELSE answer
      lacks == broken /\ ~f.key /\ ~f.disc /\ ~f.type
  IN
  /\ ~Skips(f)
  /\ Becomes([q EXCEPT !.decode = (took + 15 * @) \div 16,
                       !.changed = @ \/ result = "withheld"])
  /\ m_nWaitForKey' = wait /\ m_bSampleSkipped' = (result = "withheld")
  /\ outcome' = result
  /\ orphan' = (IF ~lacks THEN "none" ELSE IF f.stamped THEN "timed" ELSE "untimed")
  /\ broken' = (result = "failed" \/ (lacks /\ ~newFormat))
  /\ waited' = (IF f.key THEN 0 ELSE IF begins THEN 1
                ELSE IF waited \in 1 .. KeyWait - 1 THEN waited + 1 ELSE waited)

(* The message of the renderer.                                            *)
Silly == 30000

AlterQuality(late) ==
  /\ m_itrLate' = (IF m_itrLate > Silly THEN Silly ELSE late)
  /\ UNCHANGED <<m_nKeyFramePeriod, m_nFramesSinceKeyFrame, m_bSkipping, m_itrAvgDecode,
                 m_bQualityChanged, m_bSampleSkipped, m_nWaitForKey, outcome, broken,
                 waited, orphan>>

(***************************************************************************)
(* Correctness                                                             *)
(***************************************************************************)
TypeOK ==
  /\ {m_bSkipping, m_bQualityChanged, m_bSampleSkipped, broken} \subseteq BOOLEAN
  /\ m_itrLate \in Int /\ m_nWaitForKey \in Int
  /\ {m_nKeyFramePeriod, m_nFramesSinceKeyFrame, m_itrAvgDecode, waited} \subseteq Nat
  /\ outcome \in {"none", "skipped", "withheld", "delivered", "failed"}
  /\ orphan \in {"none", "timed", "untimed"}

(* Once frames are skipped none that has times is decoded until a key      *)
(* frame comes, however the lateness and the expected distance of key      *)
(* frames change meanwhile, and whatever frames without times do between.  *)
NothingDecodedInPieces == orphan # "timed"

(* "Now we are committed.  Once we start skipping, we cannot stop until we *)
(* hit a key frame" (vtrans.cpp 390 to 391), of every frame.  One that has *)
(* no times is decoded at once ("Don't skip frames with no timestamps").   *)
CommittedToKeyFrame == orphan = "none"

(* After a discontinuity or a new output format nothing is delivered       *)
(* before a key frame, or KeyWait frames ("a keyframe may never come, so   *)
(* give up after 30 frames"), whatever is skipped, refused, lost or        *)
(* flushed meanwhile and whatever m_nWaitForKey was.                       *)
KeyIsAwaited == outcome = "delivered" => waited \in {0, KeyWait}

(* "Avoid overflow and silliness - more than 30 secs late is already silly" *)
(* (vtrans.cpp 446): it is the lateness before that is tested.             *)
LatenessIsSane == m_itrLate <= Silly
=============================================================================
