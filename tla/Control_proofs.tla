--------------------------- MODULE Control_proofs ---------------------------
(***************************************************************************)
(* Proofs about four components an application steers a graph with, and    *)
(* about the clock that tells them when.                                   *)
(* Seeking, for any threads, positions and rates: however seeks are mixed, *)
(* what is stored is in effect once nobody has anything to tell any more,  *)
(* and no position of before a reset is answered.                          *)
(* DynamicPin, for any applications and media types and any number of      *)
(* calls: AssertValid holds at every step, a pin that is blocked is not in *)
(* use, and a change of type that succeeded is one of both pins.           *)
(* CmdQueue, for any commands, times and number of calls: the queue is in  *)
(* order, asks the clock for the earliest, and executes nothing twice.     *)
(* TransInPlace, with the sources and sinks of MC_Control and any number   *)
(* of calls: a chain that has nothing to reconnect is settled, and samples *)
(* are legal.                                                              *)
(* RefClock, for any clients, times, periods and corrections: the thread   *)
(* never sleeps past an advise, the list of packets is that of the         *)
(* clients, and the clock implements AlarmService.                         *)
(***************************************************************************)
EXTENDS MC_Control, RefClock, FiniteSetTheorems, SequenceTheorems, WellFoundedInduction, TLAPS

(***************************************************************************)
(* Seeking                                                                 *)
(***************************************************************************)

Parts == {"start", "stop", "rate"}
Results == {"S_OK", "E_NOTIMPL", "E_INVALIDARG", "E_FAIL"}
SeekCalls == [todo : Seq(Parts), hr : Results]

(* A part is still to be told by a thread.                                 *)
TellsOf(t, part) == \E i \in DOMAIN seek[t].todo : seek[t].todo[i] = part

(* What the threads have left to tell, and what the source was told.       *)
ToldInv ==
  /\ seek \in [Threads -> SeekCalls]
  /\ DOMAIN inEffect = Parts
  /\ \A part \in Parts :
       \/ inEffect[part] = Stored[part] \/ part \in failed
       \/ \E t \in Threads : TellsOf(t, part)

(* A renderer that has a time has one of after the last reset.             *)
TimeInv == (m_bReset \/ fresh) /\ ~answered

SeekIInv == ToldInv /\ m_dRateSeeking # 0 /\ TimeInv

-----------------------------------------------------------------------------
LEMMA SeekInvImpliesSafety == SeekIInv => SeekSafety
<1> SUFFICES ASSUME SeekIInv PROVE SeekSafety
    OBVIOUS
<1>1. ASSUME NEW part \in {"start", "stop", "rate"} \ (Changing \cup failed)
      PROVE  inEffect[part] = Stored[part]
  <2>1. \A t \in Threads : ~TellsOf(t, part)
      BY <1>1 DEF Changing, TellsOf
  <2> QED
      BY <1>1, <2>1 DEF SeekIInv, ToldInv, Parts
<1> QED
    BY <1>1 DEF SeekIInv, TimeInv, SeekSafety

LEMMA SeekInitEstablishesInv == SeekInit => SeekIInv
<1> SUFFICES ASSUME SeekInit PROVE SeekIInv
    OBVIOUS
<1>1. seek \in [Threads -> SeekCalls]
  <2>1. <<>> \in Seq(Parts)
      OBVIOUS
  <2>2. Idle \in SeekCalls
      BY <2>1 DEF Idle, SeekCalls, Results
  <2> QED
      BY <2>2 DEF SeekInit
<1>2. DOMAIN inEffect = Parts /\ \A part \in Parts : inEffect[part] = Stored[part]
    BY DEF SeekInit, Stored, Parts
<1> QED
    BY <1>1, <1>2 DEF SeekInit, SeekIInv, ToldInv, TimeInv

-----------------------------------------------------------------------------
(* A thread that had nothing to tell takes up a list of parts: these may   *)
(* change, the others stay as they are.                                    *)
LEMMA TakesUp ==
  ASSUME SeekIInv, NEW t \in Threads, seek[t].todo = <<>>,
         NEW todo \in Seq(Parts), NEW hr \in Results,
         seek' = [seek EXCEPT ![t] = [todo |-> todo, hr |-> hr]],
         inEffect' = inEffect, failed' = failed,
         \A part \in Parts : Stored[part]' = Stored[part] \/ \E i \in DOMAIN todo : todo[i] = part
  PROVE  ToldInv'
<1>1. seek' \in [Threads -> SeekCalls]
    BY DEF SeekIInv, ToldInv, SeekCalls
<1>2. seek'[t].todo = todo /\ \A u \in Threads \ {t} : seek'[u] = seek[u]
    BY DEF SeekIInv, ToldInv
<1>3. ASSUME NEW part \in Parts
      PROVE  \/ inEffect'[part] = Stored'[part] \/ part \in failed'
             \/ \E u \in Threads : TellsOf(u, part)'
  <2>1. CASE \E i \in DOMAIN todo : todo[i] = part
      BY <1>2, <2>1 DEF TellsOf
  <2>2. CASE Stored[part]' = Stored[part] /\ \E u \in Threads : TellsOf(u, part)
    <3>1. PICK u \in Threads : TellsOf(u, part)
        BY <2>2
    <3>2. u # t
        BY <3>1 DEF TellsOf
    <3> QED
        BY <1>2, <3>1, <3>2 DEF TellsOf
  <2>3. CASE Stored[part]' = Stored[part] /\ ~\E u \in Threads : TellsOf(u, part)
      BY <2>3 DEF SeekIInv, ToldInv
  <2> QED
      BY <2>1, <2>2, <2>3
<1> QED
    BY <1>1, <1>3 DEF SeekIInv, ToldInv

LEMMA TellsKeepsInv ==
  ASSUME SeekIInv, NEW t \in Threads, seek[t].todo = <<>>,
         NEW todo \in Seq(Parts), Tells(t, todo), inEffect' = inEffect, failed' = failed,
         \A part \in Parts : Stored[part]' = Stored[part] \/ \E i \in DOMAIN todo : todo[i] = part
  PROVE  ToldInv'
<1>1. "S_OK" \in Results /\ seek' = [seek EXCEPT ![t] = [todo |-> todo, hr |-> "S_OK"]]
    BY DEF Tells, Results
<1> QED
    BY <1>1, TakesUp

LEMMA OnePart ==
  ASSUME NEW part \in Parts
  PROVE  <<part>> \in Seq(Parts) /\ DOMAIN <<part>> = {1} /\ <<part>>[1] = part
OBVIOUS

(* A call that is refused has nothing to tell and has changed nothing.     *)
LEMMA RefusalKeepsInv ==
  ASSUME SeekIInv, NEW t \in Threads, Idling(t), NEW hr \in Results, Returns(t, hr),
         UNCHANGED sourceVars, UNCHANGED mediaVars
  PROVE  SeekIInv'
<1>1. \A part \in Parts : Stored[part]' = Stored[part]
    BY DEF Stored, sourceVars
<1>2. <<>> \in Seq(Parts)
    OBVIOUS
<1>3. ToldInv'
    BY <1>1, <1>2, TakesUp DEF Idling, Returns, sourceVars
<1> QED
    BY <1>3 DEF SeekIInv, TimeInv, mediaVars, sourceVars

LEMMA ToldParts ==
  ASSUME NEW current, NEW stop
  PROVE  LET todo == TellStopAndStart(current, stop) IN
         /\ todo \in Seq(Parts)
         /\ stop # NoFlags => \E i \in DOMAIN todo : todo[i] = "stop"
         /\ current # NoFlags => \E i \in DOMAIN todo : todo[i] = "start"
<1> DEFINE todo == TellStopAndStart(current, stop)
<1>1. CASE stop # NoFlags /\ current # NoFlags
  <2>1. todo = <<"stop">> \o <<"start">>
      BY <1>1 DEF TellStopAndStart
  <2>2. /\ todo \in Seq(Parts) /\ Len(todo) = 2
        /\ todo[1] = "stop" /\ todo[2] = "start"
      BY <2>1 DEF Parts
  <2>3. 1 \in DOMAIN todo /\ 2 \in DOMAIN todo
      BY <2>2
  <2> QED
      BY <2>2, <2>3
<1>2. CASE stop # NoFlags /\ current = NoFlags
  <2>1. todo = <<"stop">>
      BY <1>2 DEF TellStopAndStart
  <2> QED
      BY <1>2, <2>1, OnePart DEF Parts
<1>3. CASE stop = NoFlags /\ current # NoFlags
  <2>1. todo = <<"start">>
      BY <1>3 DEF TellStopAndStart
  <2> QED
      BY <1>3, <2>1, OnePart DEF Parts
<1>4. CASE stop = NoFlags /\ current = NoFlags
  <2>1. todo = <<>>
      BY <1>4 DEF TellStopAndStart
  <2> QED
      BY <1>4, <2>1
<1> QED
    BY <1>1, <1>2, <1>3, <1>4

LEMMA SetPositionsKeepsInv ==
  ASSUME SeekIInv, NEW t \in Threads, NEW current \in Positionings, NEW stop \in Positionings,
         NEW x, NEW y, SetPositions(t, current, x, stop, y)
  PROVE  SeekIInv'
<1>1. CASE ~PeerSeeking \/ ~FlagsAreValid(current, stop)
  <2>1. PICK hr \in Results : Returns(t, hr)
      BY <1>1 DEF SetPositions, Results
  <2> QED
      BY <1>1, <2>1, RefusalKeepsInv DEF SetPositions
<1>2. CASE PeerSeeking /\ FlagsAreValid(current, stop)
  <2> DEFINE todo == TellStopAndStart(current, stop)
  <2>1. /\ m_rtStart' = NewStart(current, x)
        /\ m_rtStop' = NewStop(stop, NewStart(current, x), y)
        /\ Tells(t, todo) /\ UNCHANGED <<m_dRateSeeking, inEffect, failed, mediaVars>>
      BY <1>2 DEF SetPositions
  <2>2. /\ todo \in Seq(Parts)
        /\ stop # NoFlags => \E i \in DOMAIN todo : todo[i] = "stop"
        /\ current # NoFlags => \E i \in DOMAIN todo : todo[i] = "start"
      BY ToldParts
  <2>5. current = NoFlags => m_rtStart' = m_rtStart
      BY <2>1 DEF NewStart, NoFlags, Absolute, Relative
  <2>6. stop = NoFlags => m_rtStop' = m_rtStop
      BY <2>1 DEF NewStop, NoFlags, Absolute, Relative, Incremental
  <2>7. \A part \in Parts :
          Stored[part]' = Stored[part] \/ \E i \in DOMAIN todo : todo[i] = part
      BY <2>1, <2>2, <2>5, <2>6 DEF Stored, Parts
  <2>8. ToldInv'
      BY <1>2, <2>1, <2>2, <2>7, TellsKeepsInv DEF SetPositions, Idling
  <2> QED
      BY <2>1, <2>8 DEF SeekIInv, TimeInv, mediaVars
<1> QED
    BY <1>1, <1>2

LEMMA RateKeepsInv ==
  ASSUME SeekIInv, NEW t \in Threads, NEW rate, SetRate(t, rate) \/ PutRate(t, rate)
  PROVE  SeekIInv'
<1>1. CASE UNCHANGED sourceVars /\ \E hr \in {"E_INVALIDARG", "E_NOTIMPL"} : Returns(t, hr)
  <2>1. PICK hr \in Results : Returns(t, hr)
      BY <1>1 DEF Results
  <2> QED
      BY <1>1, <2>1, RefusalKeepsInv DEF SetRate, PutRate
<1>2. CASE /\ rate # 0 /\ m_dRateSeeking' = rate /\ Tells(t, <<"rate">>)
           /\ UNCHANGED <<m_rtStart, m_rtStop, inEffect, failed>>
  <2>1. \A part \in Parts :
          Stored[part]' = Stored[part] \/ \E i \in DOMAIN <<"rate">> : <<"rate">>[i] = part
      BY <1>2 DEF Stored, Parts
  <2>3. <<"rate">> \in Seq(Parts)
      BY DEF Parts
  <2>2. ToldInv'
      BY <1>2, <2>1, <2>3, TellsKeepsInv DEF SetRate, PutRate, Idling
  <2> QED
      BY <1>2, <2>2 DEF SetRate, PutRate, SeekIInv, TimeInv, mediaVars
<1> QED
    BY <1>1, <1>2 DEF SetRate, PutRate

LEMMA PutPositionKeepsInv ==
  ASSUME SeekIInv, NEW t \in Threads, NEW part \in {"start", "stop"}, NEW x, PutPosition(t, part, x)
  PROVE  SeekIInv'
<1>1. CASE ~Peer
  <2>1. Returns(t, "E_NOTIMPL") /\ "E_NOTIMPL" \in Results
      BY <1>1 DEF PutPosition, Results
  <2> QED
      BY <1>1, <2>1, RefusalKeepsInv DEF PutPosition, Idling
<1>2. CASE Peer
  <2>1. \A p \in Parts :
          Stored[p]' = Stored[p] \/ \E i \in DOMAIN <<part>> : <<part>>[i] = p
      BY <1>2 DEF Stored, Parts, PutPosition
  <2>3. <<part>> \in Seq(Parts)
      BY DEF Parts
  <2>2. ToldInv'
      BY <1>2, <2>1, <2>3, TellsKeepsInv DEF PutPosition, Idling
  <2> QED
      BY <1>2, <2>2 DEF PutPosition, SeekIInv, TimeInv, mediaVars
<1> QED
    BY <1>1, <1>2

(* The derived class is told of one part: it is in effect, or has failed,  *)
(* and the others are still told by whoever had to tell them.              *)
LEMMA SeekChangeKeepsInv ==
  ASSUME SeekIInv, NEW t \in Threads, Change(t)
  PROVE  SeekIInv'
<1> DEFINE todo == seek[t].todo
           part == Head(todo)
<1>1. todo \in Seq(Parts) /\ todo # <<>>
    BY DEF SeekIInv, ToldInv, Change, SeekCalls
<1>2. part \in Parts /\ Tail(todo) \in Seq(Parts)
    BY <1>1
<1>3. \A i \in DOMAIN todo : todo[i] = part \/ (i - 1 \in DOMAIN Tail(todo) /\ Tail(todo)[i - 1] = todo[i])
    BY <1>1
<1>4. UNCHANGED <<m_rtStart, m_rtStop, m_dRateSeeking, mediaVars>>
    BY DEF Change
<1>5. Stored' = Stored
    BY <1>4 DEF Stored
<1>6. PICK ok \in BOOLEAN :
        /\ inEffect' = (IF ok THEN [inEffect EXCEPT ![part] = Stored[part]] ELSE inEffect)
        /\ failed' = (IF ok THEN failed \ {part} ELSE failed \cup {part})
        /\ seek' = [seek EXCEPT ![t] = [todo |-> Tail(@.todo),
                                        hr |-> IF ok THEN "S_OK" ELSE "E_FAIL"]]
    BY DEF Change
<1>7. /\ seek' \in [Threads -> SeekCalls]
      /\ seek'[t].todo = Tail(todo) /\ \A u \in Threads \ {t} : seek'[u] = seek[u]
  <2>1. seek \in [Threads -> SeekCalls]
      BY DEF SeekIInv, ToldInv
  <2>2. PICK hr \in Results :
          seek' = [seek EXCEPT ![t] = [todo |-> Tail(@.todo), hr |-> hr]]
      BY <1>6 DEF Results
  <2>3. Tail(seek[t].todo) \in Seq(Parts)
      BY <1>2
  <2>4. [todo |-> Tail(seek[t].todo), hr |-> hr] \in SeekCalls
      BY <2>3 DEF SeekCalls
  <2> QED
      BY <2>1, <2>2, <2>4
<1>8. DOMAIN inEffect' = Parts
    BY <1>6 DEF SeekIInv, ToldInv
<1>9. ASSUME NEW p \in Parts
      PROVE  \/ inEffect'[p] = Stored'[p] \/ p \in failed'
             \/ \E u \in Threads : TellsOf(u, p)'
  <2>1. CASE p = part
      BY <1>2, <1>5, <1>6, <2>1 DEF SeekIInv, ToldInv
  <2>2. CASE p # part /\ \E u \in Threads : TellsOf(u, p)
    <3>1. PICK u \in Threads : TellsOf(u, p)
        BY <2>2
    <3>2. TellsOf(u, p)'
      <4>1. PICK i \in DOMAIN seek[u].todo : seek[u].todo[i] = p
          BY <3>1 DEF TellsOf
      <4>2. CASE u = t
        <5>1. i - 1 \in DOMAIN Tail(todo) /\ Tail(todo)[i - 1] = p
            BY <1>3, <2>2, <4>1, <4>2
        <5> QED
            BY <1>7, <4>2, <5>1 DEF TellsOf
      <4>3. CASE u # t
          BY <1>7, <4>1, <4>3 DEF TellsOf
      <4> QED
          BY <4>2, <4>3
    <3> QED
        BY <3>2
  <2>3. CASE p # part /\ ~\E u \in Threads : TellsOf(u, p)
      BY <1>5, <1>6, <2>3 DEF SeekIInv, ToldInv
  <2> QED
      BY <2>1, <2>2, <2>3
<1> QED
    BY <1>4, <1>7, <1>8, <1>9 DEF SeekIInv, ToldInv, TimeInv, mediaVars

-----------------------------------------------------------------------------
(* The renderer's times: those who read m_bReset outside the lock never    *)
(* clear it, so a time found there was registered since the reset.         *)
LEMMA MediaKeepsInv ==
  ASSUME SeekIInv, Streams \/ ResetMediaTime \/ GetCurrentPosition
  PROVE  SeekIInv'
<1>1. MediaOnly
    BY DEF Streams, RegisterMediaTime, EndOfStream, StopPosition, AtEnd, ResetMediaTime,
           GetCurrentPosition
<1>2. ToldInv' /\ m_dRateSeeking' # 0
    BY <1>1 DEF MediaOnly, sourceVars, SeekIInv, ToldInv, Stored, TellsOf
<1>3. TimeInv'
  <2>1. CASE Streams
      BY <2>1 DEF SeekIInv, TimeInv, Streams, RegisterMediaTime, EndOfStream, StopPosition, AtEnd
  <2>2. CASE ResetMediaTime
      BY <2>2 DEF SeekIInv, TimeInv, ResetMediaTime
  <2>3. CASE GetCurrentPosition
    <3>1. fresh /\ UNCHANGED <<m_bReset, fresh>> /\ answered' = (answered \/ ~fresh)
        BY <2>3 DEF SeekIInv, TimeInv, GetCurrentPosition
    <3>2. ~answered /\ (m_bReset \/ fresh)
        BY DEF SeekIInv, TimeInv
    <3>3. ~answered'
        BY <3>1, <3>2, Zenon
    <3> QED
        BY <3>1, <3>3 DEF TimeInv
  <2> QED
      BY <2>1, <2>2, <2>3
<1> QED
    BY <1>2, <1>3 DEF SeekIInv

LEMMA StutterKeepsInv ==
  ASSUME SeekIInv, UNCHANGED <<sourceVars, seek, mediaVars>>
  PROVE  SeekIInv'
BY DEF sourceVars, mediaVars, SeekIInv, ToldInv, TimeInv, Stored, TellsOf

LEMMA SeekNextKeepsInv ==
  ASSUME SeekIInv, [SeekNext]_seekVars
  PROVE  SeekIInv'
<1>1. ASSUME NEW t \in Threads, SeekCall(t) PROVE SeekIInv'
  <2>1. ASSUME NEW current \in Positionings, NEW stop \in Positionings, NEW x, NEW y,
               SetPositions(t, current, x, stop, y)
        PROVE  SeekIInv'
      BY <2>1, SetPositionsKeepsInv
  <2>2. CASE AskSeeking(t) \/ AskPosition(t)
    <3>1. PICK hr \in Results : Returns(t, hr)
        BY <2>2 DEF AskSeeking, AskPosition, Asks, SeekingAnswers, PositionAnswers, Results
    <3> QED
        BY <2>2, <3>1, RefusalKeepsInv DEF AskSeeking, AskPosition, Asks
  <2> QED
      BY <1>1, <2>1, <2>2, RateKeepsInv, PutPositionKeepsInv, SeekChangeKeepsInv DEF SeekCall
<1>2. CASE Streams \/ ResetMediaTime \/ GetCurrentPosition
    BY <1>2, MediaKeepsInv
<1>3. CASE (\E connected \in BOOLEAN : Link(connected)) \/ UNCHANGED seekVars
    BY <1>3, StutterKeepsInv DEF Link, seekVars
<1> QED
    BY <1>1, <1>2, <1>3 DEF SeekNext

(* What was stored last is in effect, or its change failed, once no call   *)
(* still has to tell of it, in whatever order SetPositions, put_Rate and   *)
(* the others of several threads reach the derived class; and a position   *)
(* of before ResetMediaTime is never answered.                             *)
THEOREM SeekIsSafe == SeekInit /\ [][SeekNext]_seekVars => []SeekSafety
BY SeekInitEstablishesInv, SeekNextKeepsInv, SeekInvImpliesSafety, PTL

(***************************************************************************)
(* DynamicPin                                                              *)
(***************************************************************************)

States == {NOT_BLOCKED, PENDING, BLOCKED}
Stages == {"receive", "set", "decommit", "decide", "commit"}
Using == {"using", "notify"} \cup Stages

(* The block: its state, who asked for it, who is still to be told, and    *)
(* the two events.                                                         *)
BlockInv ==
  /\ m_BlockState \in States /\ m_hUnblockOutputPinEvent \in BOOLEAN
  /\ m_BlockState = PENDING <=> m_hNotifyCallerPinBlockedEvent # 0
  /\ m_dwBlockCallerThreadID # 0 <=> m_BlockState # NOT_BLOCKED
  /\ m_BlockState = BLOCKED <=> ~m_hUnblockOutputPinEvent

(* The one streaming thread is counted while it uses the pin; a block      *)
(* waits for it and keeps it out afterwards.                               *)
UseInv ==
  /\ m_dwNumOutstandingOutputPinUsers = IF streamPc \in Using THEN 1 ELSE 0
  /\ streamPc \in Using => m_BlockState # BLOCKED
  /\ m_BlockState = PENDING => streamPc \in Using

(* How far a change of type has come: the pin downstream first, then this. *)
TypesInv ==
  /\ agreed => pinType = newType /\ peerType = newType
  /\ streamPc \in {"set", "decommit", "decide", "commit", "notify"} => peerType = newType
  /\ streamPc \in {"decommit", "decide", "commit", "notify"} => pinType = newType

PinIInv == BlockInv /\ UseInv /\ TypesInv

-----------------------------------------------------------------------------
LEMMA StagesAreFive == DOMAIN NextStage = Stages
BY DEF NextStage, Stages

(* A thread comes from "using" and its stages and goes back there.         *)
LEMMA StageStaysInUse ==
  ASSUME NEW s \in Stages
  PROVE  /\ NextStage[s] \in Using
         /\ NextStage[s] \in {"decommit", "decide", "commit", "notify"}
              => s \in {"set", "decommit", "decide", "commit"}
         /\ NextStage[s] # "receive" /\ s # "notify" /\ s \in Using
         /\ NextStage[s] = "set" => s = "receive"
         /\ NextStage[s] = "decommit" => s = "set"
BY DEF NextStage, Stages, Using

(* The invariant says what AssertValid asserts, and more.                  *)
LEMMA PinInvImpliesSafety == PinIInv => PinSafety
<1> SUFFICES ASSUME PinIInv PROVE PinSafety
    OBVIOUS
<1>1. StreamingThreadUsingOutputPin <=> streamPc \in Using
    BY DEF PinIInv, UseInv, StreamingThreadUsingOutputPin
<1>2. {"using", "notify"} \cup DOMAIN NextStage = Using
    BY StagesAreFive DEF Using
<1> QED
    BY <1>1, <1>2 DEF PinIInv, BlockInv, UseInv, TypesInv, PinSafety

LEMMA PinInitEstablishesInv == PinInit => PinIInv
BY DEF PinInit, PinIInv, BlockInv, UseInv, TypesInv, States, Using, Stages, NOT_BLOCKED, PENDING,
       BLOCKED

-----------------------------------------------------------------------------
(* The applications leave the streaming thread and the types alone.        *)
LEMMA BlockKeepsInv ==
  ASSUME PinIInv, NEW t \in Apps, t # 0, Block(t)
  PROVE  PinIInv'
<1> USE DEF NOT_BLOCKED, PENDING, BLOCKED
<1>1. TypesInv'
    BY DEF PinIInv, TypesInv, Block, typeVars
<1>2. CASE streamPc \in Using
  <2>1. StreamingThreadUsingOutputPin
      BY <1>2 DEF PinIInv, UseInv, StreamingThreadUsingOutputPin
  <2> QED
      BY <1>1, <1>2, <2>1 DEF PinIInv, BlockInv, UseInv, States, Block, AsynchronousBlockOutputPin
<1>3. CASE streamPc \notin Using
  <2>1. ~StreamingThreadUsingOutputPin
      BY <1>3 DEF PinIInv, UseInv, StreamingThreadUsingOutputPin
  <2> QED
      BY <1>1, <1>3, <2>1
      DEF PinIInv, BlockInv, UseInv, States, Block, AsynchronousBlockOutputPin, BlockOutputPin
<1> QED
    BY <1>2, <1>3

LEMMA BlockedKeepsInv ==
  ASSUME PinIInv, NEW t \in Apps, Blocked(t)
  PROVE  PinIInv'
BY DEF PinIInv, BlockInv, UseInv, TypesInv, Blocked, typeVars

LEMMA UnblockKeepsInv ==
  ASSUME PinIInv, NEW t \in Apps, Unblock(t)
  PROVE  PinIInv'
BY DEF PinIInv, BlockInv, UseInv, TypesInv, Unblock, UnblockOutputPin, typeVars, States,
       NOT_BLOCKED, PENDING, BLOCKED

(* The thread is let in only if the pin is not blocked, and counted.       *)
LEMMA EnterKeepsInv ==
  ASSUME PinIInv, streamPc \in {"idle", "unblocked"}, EnterPin, UNCHANGED <<blockVars, typeVars>>
  PROVE  PinIInv'
<1> USE DEF NOT_BLOCKED, PENDING, BLOCKED
<1>1. BlockInv'
    BY DEF PinIInv, BlockInv, blockVars
<1>2. streamPc \notin Using /\ "wait" \notin Using /\ "using" \in Using
    BY DEF Using, Stages
<1>3. UseInv'
    BY <1>2 DEF PinIInv, UseInv, EnterPin, blockVars
<1>4. TypesInv'
    BY DEF PinIInv, TypesInv, EnterPin, typeVars
<1> QED
    BY <1>1, <1>3, <1>4 DEF PinIInv

(* Waiting, giving up and ending change neither the block nor the types.   *)
LEMMA OutsideKeepsInv ==
  ASSUME PinIInv, WaitInPin \/ GiveUpPin \/ ThreadEndsPin
  PROVE  PinIInv'
<1>1. streamPc \notin Using /\ streamPc' \notin Using
    BY DEF WaitInPin, GiveUpPin, ThreadEndsPin, Using, Stages
<1>2. streamPc' \in {"unblocked", "stop", "idle", "over"}
    BY DEF WaitInPin, GiveUpPin, ThreadEndsPin
<1>3. UNCHANGED <<m_dwNumOutstandingOutputPinUsers, blockVars, typeVars>>
    BY DEF WaitInPin, GiveUpPin, ThreadEndsPin
<1> QED
    BY <1>1, <1>2, <1>3 DEF PinIInv, BlockInv, UseInv, TypesInv, blockVars, typeVars

(* The last use makes a pending block effective.                           *)
LEMMA LeaveKeepsInv ==
  ASSUME PinIInv, StopUsingOutputPin
  PROVE  PinIInv'
<1> USE DEF NOT_BLOCKED, PENDING, BLOCKED
<1>1. streamPc \in Using /\ streamPc' \notin Using
    BY DEF StopUsingOutputPin, Using, Stages
<1>2. m_dwNumOutstandingOutputPinUsers' = 0
    BY <1>1 DEF PinIInv, UseInv, StopUsingOutputPin
<1>3. TypesInv'
    BY DEF PinIInv, TypesInv, StopUsingOutputPin, typeVars
<1>4. CASE m_BlockState = NOT_BLOCKED
    BY <1>1, <1>2, <1>3, <1>4 DEF PinIInv, BlockInv, UseInv, StopUsingOutputPin, blockVars
<1>5. CASE m_BlockState # NOT_BLOCKED
    BY <1>1, <1>2, <1>3, <1>5
    DEF PinIInv, BlockInv, UseInv, States, StopUsingOutputPin, BlockOutputPin
<1> QED
    BY <1>4, <1>5

-----------------------------------------------------------------------------
(* A change of type keeps the pin in use and the block as it is.           *)
LEMMA InUseKeepsBlock ==
  ASSUME PinIInv, streamPc \in Using, streamPc' \in Using,
         UNCHANGED <<m_dwNumOutstandingOutputPinUsers, blockVars>>
  PROVE  BlockInv' /\ UseInv'
BY DEF PinIInv, BlockInv, UseInv, blockVars

LEMMA PinChangeKeepsInv ==
  ASSUME PinIInv, NEW mt \in MediaTypes, ChangeMediaType(mt)
  PROVE  PinIInv'
<1>1. streamPc \in Using /\ streamPc' \in Using
    BY DEF ChangeMediaType, Using, Stages
<1>2. BlockInv' /\ UseInv'
    BY <1>1, InUseKeepsBlock DEF ChangeMediaType
<1>3. TypesInv'
    BY DEF ChangeMediaType, TypesInv
<1> QED
    BY <1>2, <1>3 DEF PinIInv

(* A stage makes one step of the change: after "receive" the pin           *)
(* downstream has the type, after "set" this one too.                      *)
LEMMA StageKeepsInv ==
  ASSUME PinIInv, NEW s \in Stages, Stage(s)
  PROVE  PinIInv'
<1>1. streamPc = s /\ streamPc' = NextStage[s] /\ newType' = newType /\ agreed' = agreed
    BY DEF Stage
<1>2. BlockInv' /\ UseInv'
    BY <1>1, StageStaysInUse, InUseKeepsBlock DEF Stage
<1>3. /\ peerType' = IF s = "receive" THEN newType ELSE peerType
      /\ pinType' = IF s = "set" THEN newType ELSE pinType
    BY DEF Stage
<1>4. TypesInv'
    BY <1>1, <1>3, StageStaysInUse DEF PinIInv, TypesInv, Stages
<1> QED
    BY <1>2, <1>4 DEF PinIInv

LEMMA EndOfChangeKeepsInv ==
  ASSUME PinIInv, Changed \/ ChangeFails
  PROVE  PinIInv'
<1>1. streamPc \in Using /\ streamPc' = "using"
    BY StagesAreFive DEF Changed, ChangeFails, Using
<1>2. BlockInv' /\ UseInv'
    BY <1>1, InUseKeepsBlock DEF Changed, ChangeFails, Using
<1>3. TypesInv'
    BY <1>1 DEF PinIInv, TypesInv, Changed, ChangeFails, typeVars
<1> QED
    BY <1>2, <1>3 DEF PinIInv

(* The filter moves the stop event and may let the thread begin anew.      *)
LEMMA FilterKeepsInv ==
  ASSUME PinIInv, Active \/ Inactive \/ DeliverBeginFlush \/ DeliverEndFlush
  PROVE  PinIInv'
<1>1. UNCHANGED <<blockVars, m_dwNumOutstandingOutputPinUsers, pinType, peerType, newType, agreed>>
    BY DEF Active, Inactive, DeliverBeginFlush, DeliverEndFlush, FilterOnly, typeVars
<1>2. streamPc' = streamPc \/ (streamPc = "over" /\ streamPc' = "idle")
    BY DEF Active, Inactive, DeliverBeginFlush, DeliverEndFlush
<1>3. "over" \notin Using /\ "idle" \notin Using
    BY DEF Using, Stages
<1> QED
    BY <1>1, <1>2, <1>3 DEF PinIInv, BlockInv, UseInv, TypesInv, blockVars

-----------------------------------------------------------------------------
LEMMA PinNextKeepsInv ==
  ASSUME PinIInv, [PinNext]_pinVars
  PROVE  PinIInv'
<1>1. ASSUME NEW t \in Apps, Block(t) \/ Blocked(t) \/ Unblock(t) PROVE PinIInv'
  <2>1. t # 0
      BY NobodyIsZero DEF NobodyIsZero
  <2> QED
      BY <1>1, <2>1, BlockKeepsInv, BlockedKeepsInv, UnblockKeepsInv
<1>2. CASE Enters
    BY <1>2, EnterKeepsInv, OutsideKeepsInv DEF Enters, StartUsingOutputPin, EnterAgain
<1>3. CASE Leaves
    BY <1>3, LeaveKeepsInv DEF Leaves
<1>4. CASE Changes \/ ChangeFails
    BY <1>4, StagesAreFive, StageKeepsInv, EndOfChangeKeepsInv DEF Changes
<1>5. ASSUME NEW mt \in MediaTypes, ChangeMediaType(mt) PROVE PinIInv'
    BY <1>5, PinChangeKeepsInv
<1>6. CASE Active \/ Inactive \/ DeliverBeginFlush \/ DeliverEndFlush
    BY <1>6, FilterKeepsInv
<1>7. CASE UNCHANGED pinVars
    BY <1>7 DEF pinVars, blockVars, typeVars, PinIInv, BlockInv, UseInv, TypesInv
<1> QED
    BY <1>1, <1>2, <1>3, <1>4, <1>5, <1>6, <1>7 DEF PinNext, StreamingThread

(* Whatever applications block and unblock and whatever the streaming      *)
(* thread and the filter do meanwhile, AssertValid holds: a pin that is    *)
(* blocked is not in use until it is unblocked.                            *)
THEOREM PinIsSafe == PinInit /\ [][PinNext]_pinVars => []PinSafety
BY PinInitEstablishesInv, PinNextKeepsInv, PinInvImpliesSafety, PTL

(***************************************************************************)
(* CmdQueue                                                                *)
(***************************************************************************)

(* Of lists of commands, whose times are given.                            *)
Ordered(queue, time) == \A i, j \in DOMAIN queue : i < j => time[queue[i]] <= time[queue[j]]
Distinct(queue) == \A i, j \in DOMAIN queue : queue[i] = queue[j] => i = j
In(c, queue) == \E i \in DOMAIN queue : queue[i] = c

(* One of the queue's two lists.                                           *)
ListOf(queue, time, stream, isStream) ==
  /\ queue \in Seq(Commands) /\ Ordered(queue, time) /\ Distinct(queue)
  /\ \A i \in DOMAIN queue : stream[queue[i]] = isStream /\ time[queue[i]] > 0

(* What the clock is to be asked for, 0 when there is nothing.             *)
Current(presentation, stream, time, running, offset) ==
  LET first == C!Earliest(presentation, stream, running, time, offset)
  IN  IF first = 0 THEN 0
      ELSE time[first] + (IF first = C!FirstOf(presentation, 0) THEN 0 ELSE offset)

(* An advise is for the presentation time of the earliest command.         *)
Advised(presentation, stream, time, isStream, running, offset, advise) ==
  LET first == C!Earliest(presentation, stream, running, time, offset)
  IN  first # 0 => advise = time[first] + (IF isStream[first] THEN offset ELSE 0)

CmdTypes ==
  /\ m_time \in [Commands -> Nat] /\ m_bStream \in [Commands -> BOOLEAN]
  /\ m_pQueue \in [Commands -> BOOLEAN] /\ ran \in [Commands -> Nat]
  /\ m_StreamTimeOffset \in Nat
  /\ workerPc \in {"idle", "wait", "got", "invoked", "release"}
  /\ workerPc \in {"got", "invoked", "release"} => held \in Commands

(* Each list is in order and has commands of its isStream that have a time.    *)
ListInv == /\ ListOf(m_listPresentation, m_time, m_bStream, FALSE)
           /\ ListOf(m_listStream, m_time, m_bStream, TRUE)

(* A command that is being postponed is in neither.                        *)
PostponeInv ==
  \A c \in Commands : ownerPc = <<"postpone", c>> =>
    ~In(c, m_listPresentation) /\ ~In(c, m_listStream) /\ newTime \in Times

(* A command that has run has no queue to be fetched from again, or is     *)
(* about to lose it.                                                       *)
RanInv ==
  \A c \in Commands :
    \/ ran[c] = 0
    \/ ran[c] = 1 /\ (~m_pQueue[c] \/ (workerPc = "invoked" /\ held = c))

AdviseInv ==
  m_pClock => Advised(m_listPresentation, m_listStream, m_time, m_bStream, m_bRunning,
                      m_StreamTimeOffset, m_tCurrentAdvise)

CmdInv == CmdTypes /\ ListInv /\ PostponeInv /\ RanInv /\ AdviseInv

-----------------------------------------------------------------------------
LEMMA LeastNumber ==
  ASSUME NEW W, W \subseteq Nat, W # {}
  PROVE  \E x \in W : \A y \in W : x <= y
<1>1. PICK x \in W : \A y \in W : ~(<<y, x>> \in OpToRel(<, Nat))
    BY NatLessThanWellFounded, WFMin
<1>2. \A y \in W : ~(y < x)
    BY <1>1 DEF OpToRel
<1> QED
    BY <1>2

(* The first of a list that is later than a command.                       *)
LEMMA FirstLater ==
  ASSUME NEW l \in Seq(Commands), NEW time \in [Commands -> Nat], NEW c \in Commands
  PROVE  LET Later(i) == i > Len(l) \/ time[l[i]] > time[c]
             n == CHOOSE i \in 1 .. Len(l) + 1 : Later(i) /\ \A j \in 1 .. i - 1 : ~Later(j)
         IN  /\ n \in 1 .. Len(l) + 1 /\ (n <= Len(l) => time[l[n]] > time[c])
             /\ \A j \in 1 .. n - 1 : time[l[j]] <= time[c]
<1> DEFINE Later(i) == i > Len(l) \/ time[l[i]] > time[c]
           W == {i \in 1 .. Len(l) + 1 : Later(i)}
           n == CHOOSE i \in 1 .. Len(l) + 1 : Later(i) /\ \A j \in 1 .. i - 1 : ~Later(j)
<1>1. /\ Len(l) \in Nat /\ time[c] \in Nat /\ \A i \in 1 .. Len(l) : time[l[i]] \in Nat
    OBVIOUS
<1>2. W \subseteq Nat /\ W # {}
  <2>1. Len(l) + 1 \in W
      BY <1>1
  <2> QED
      BY <1>1, <2>1
<1>3. PICK x \in W : \A y \in W : x <= y
    BY <1>2, LeastNumber
<1>4. x \in 1 .. Len(l) + 1 /\ Later(x) /\ \A j \in 1 .. x - 1 : ~Later(j)
  <2>1. \A j \in 1 .. x - 1 : j \in 1 .. Len(l) + 1 /\ ~(x <= j)
      BY <1>1, <1>3
  <2> QED
      BY <1>3, <2>1
<1>5. n \in 1 .. Len(l) + 1 /\ Later(n) /\ \A j \in 1 .. n - 1 : ~Later(j)
  <2> HIDE DEF Later, W
  <2> QED
      BY <1>4
<1> HIDE DEF n
<1>6. n <= Len(l) => time[l[n]] > time[c]
    BY <1>1, <1>5
<1>7. ASSUME NEW j \in 1 .. n - 1 PROVE time[l[j]] <= time[c]
  <2>1. j \in 1 .. Len(l) /\ ~(time[l[j]] > time[c])
      BY <1>1, <1>5
  <2> QED
      BY <1>1, <2>1
<1> QED
    BY <1>5, <1>6, <1>7 DEF n

(* A command put in front of the k-th of a list.                           *)
Put(l, k, c) == (SubSeq(l, 1, k - 1) \o <<c>>) \o SubSeq(l, k, Len(l))

LEMMA PutBefore ==
  ASSUME NEW l \in Seq(Commands), NEW k \in 1 .. Len(l) + 1, NEW c \in Commands
  PROVE  /\ Put(l, k, c) \in Seq(Commands) /\ Len(Put(l, k, c)) = Len(l) + 1
         /\ \A i \in 1 .. Len(l) + 1 :
              /\ i < k => Put(l, k, c)[i] = l[i]
              /\ i = k => Put(l, k, c)[i] = c
              /\ i > k => Put(l, k, c)[i] = l[i - 1]
<1> DEFINE a == SubSeq(l, 1, k - 1)
           b == SubSeq(l, k, Len(l))
<1>1. a \in Seq(Commands) /\ Len(a) = k - 1 /\ \A i \in 1 .. k - 1 : a[i] = l[i]
    BY SubSeqProperties
<1>2. /\ b \in Seq(Commands) /\ Len(b) = Len(l) - (k - 1)
      /\ \A i \in 1 .. Len(l) - (k - 1) : b[i] = l[(k - 1) + i]
    BY SubSeqProperties
<1> HIDE DEF a, b
<1> DEFINE d == a \o <<c>>
<1>3. d \in Seq(Commands) /\ Len(d) = k /\ d[k] = c /\ \A i \in 1 .. k - 1 : d[i] = l[i]
    BY <1>1
<1> HIDE DEF d
<1>4. /\ d \o b \in Seq(Commands) /\ Len(d \o b) = Len(d) + Len(b)
      /\ \A i \in 1 .. Len(d) + Len(b) : (d \o b)[i] = IF i <= Len(d) THEN d[i] ELSE b[i - Len(d)]
    BY <1>2, <1>3, ConcatProperties
<1>5. Len(d) + Len(b) = Len(l) + 1
    BY <1>2, <1>3
<1>6. ASSUME NEW i \in 1 .. Len(l) + 1
      PROVE  /\ i < k => (d \o b)[i] = l[i]
             /\ i = k => (d \o b)[i] = c
             /\ i > k => (d \o b)[i] = l[i - 1]
  <2>1. i <= k => (d \o b)[i] = d[i]
      BY <1>3, <1>4, <1>5
  <2>2. CASE i > k
    <3>1. (d \o b)[i] = b[i - k] /\ i - k \in 1 .. Len(l) - (k - 1)
        BY <1>3, <1>4, <1>5, <2>2
    <3>2. PICK j \in 1 .. Len(l) - (k - 1) : j = i - k
        BY <3>1
    <3>3. b[j] = l[(k - 1) + j] /\ (k - 1) + j = i - 1
        BY <1>2, <2>2, <3>2
    <3> QED
        BY <2>2, <3>1, <3>2, <3>3
  <2>3. i < k => i \in 1 .. k - 1
      OBVIOUS
  <2>4. i < k => (d \o b)[i] = l[i]
      BY <1>3, <2>1, <2>3
  <2>5. i = k => (d \o b)[i] = c
      BY <1>3, <2>1
  <2> QED
      BY <2>2, <2>4, <2>5
<1>7. Put(l, k, c) = d \o b
    BY DEF a, b, d, Put
<1> QED
    BY <1>4, <1>5, <1>6, <1>7

(* A list without its k-th.                                                *)
LEMMA TakeOut ==
  ASSUME NEW l \in Seq(Commands), NEW k \in 1 .. Len(l)
  PROVE  LET r == SubSeq(l, 1, k - 1) \o SubSeq(l, k + 1, Len(l))
         IN  /\ r \in Seq(Commands) /\ Len(r) = Len(l) - 1
             /\ \A i \in 1 .. Len(l) - 1 : r[i] = IF i < k THEN l[i] ELSE l[i + 1]
<1> DEFINE a == SubSeq(l, 1, k - 1)
           b == SubSeq(l, k + 1, Len(l))
<1>1. a \in Seq(Commands) /\ Len(a) = k - 1 /\ \A i \in 1 .. k - 1 : a[i] = l[i]
    BY SubSeqProperties
<1>2. /\ b \in Seq(Commands) /\ Len(b) = Len(l) - k
      /\ \A i \in 1 .. Len(l) - k : b[i] = l[k + i]
    BY SubSeqProperties
<1> HIDE DEF a, b
<1>3. /\ a \o b \in Seq(Commands) /\ Len(a \o b) = Len(a) + Len(b)
      /\ \A i \in 1 .. Len(a) + Len(b) : (a \o b)[i] = IF i <= Len(a) THEN a[i] ELSE b[i - Len(a)]
    BY <1>1, <1>2, ConcatProperties
<1>4. Len(a) + Len(b) = Len(l) - 1
    BY <1>1, <1>2
<1>5. ASSUME NEW i \in 1 .. Len(l) - 1
      PROVE  (a \o b)[i] = IF i < k THEN l[i] ELSE l[i + 1]
  <2>1. CASE i < k
      BY <1>1, <1>3, <1>4, <2>1
  <2>2. CASE i >= k
    <3>1. (a \o b)[i] = b[i - (k - 1)] /\ i - (k - 1) \in 1 .. Len(l) - k
        BY <1>1, <1>3, <1>4, <2>2
    <3>2. PICK j \in 1 .. Len(l) - k : j = i - (k - 1)
        BY <3>1
    <3>3. b[j] = l[k + j] /\ k + j = i + 1
        BY <1>2, <2>2, <3>2
    <3> QED
        BY <2>2, <3>1, <3>2, <3>3
  <2>3. i < k \/ i >= k
      OBVIOUS
  <2> QED
      BY <2>1, <2>2, <2>3
<1> QED
    BY <1>3, <1>4, <1>5 DEF a, b

(* A command put into its place.                                           *)
LEMMA SortedIsList ==
  ASSUME NEW l, NEW time \in [Commands -> Nat], NEW stream, NEW isStream,
         ListOf(l, time, stream, isStream),
         NEW c \in Commands, ~In(c, l), stream[c] = isStream, time[c] > 0
  PROVE  ListOf(C!Sorted(l, c, time), time, stream, isStream)
<1> DEFINE Later(i) == i > Len(l) \/ time[l[i]] > time[c]
           n == CHOOSE i \in 1 .. Len(l) + 1 : Later(i) /\ \A j \in 1 .. i - 1 : ~Later(j)
           r == Put(l, n, c)
<1>1. l \in Seq(Commands) /\ Ordered(l, time) /\ Distinct(l)
    BY DEF ListOf
<1>2. /\ Len(l) \in Nat /\ DOMAIN l = 1 .. Len(l)
      /\ \A i \in 1 .. Len(l) :
           /\ l[i] \in Commands /\ time[l[i]] \in Nat /\ l[i] # c
           /\ stream[l[i]] = isStream /\ time[l[i]] > 0
    BY <1>1 DEF ListOf, In
<1>3. /\ n \in 1 .. Len(l) + 1 /\ (n <= Len(l) => time[l[n]] > time[c])
      /\ \A j \in 1 .. n - 1 : time[l[j]] <= time[c]
    BY <1>1, FirstLater
<1>4. C!Sorted(l, c, time) = r
    BY DEF C!Sorted, Put
<1> HIDE DEF n, Later
<1>5. /\ r \in Seq(Commands) /\ Len(r) = Len(l) + 1
      /\ \A i \in 1 .. Len(l) + 1 :
           (i < n => r[i] = l[i]) /\ (i = n => r[i] = c) /\ (i > n => r[i] = l[i - 1])
  <2>1. l \in Seq(Commands) /\ n \in 1 .. Len(l) + 1
      BY <1>1, <1>3
  <2> QED
      BY <2>1, PutBefore
<1> HIDE DEF r
<1>6. DOMAIN r = 1 .. Len(l) + 1 /\ n \in Nat /\ time[c] \in Nat
    BY <1>2, <1>3, <1>5
<1>7. \A i \in 1 .. Len(l) + 1 :
        \/ i < n /\ i \in 1 .. Len(l) /\ r[i] = l[i]
        \/ i = n /\ r[i] = c
        \/ i > n /\ i - 1 \in 1 .. Len(l) /\ r[i] = l[i - 1]
  <2> SUFFICES ASSUME NEW i \in 1 .. Len(l) + 1
               PROVE  \/ i < n /\ i \in 1 .. Len(l) /\ r[i] = l[i]
                      \/ i = n /\ r[i] = c
                      \/ i > n /\ i - 1 \in 1 .. Len(l) /\ r[i] = l[i - 1]
      OBVIOUS
  <2>1. CASE i < n
      BY <1>2, <1>3, <1>5, <2>1
  <2>2. CASE i = n
      BY <1>2, <1>3, <1>5, <2>2
  <2>3. CASE i > n
      BY <1>2, <1>3, <1>5, <2>3
  <2> QED
      BY <1>6, <2>1, <2>2, <2>3
<1>8. Ordered(r, time)
  <2> SUFFICES ASSUME NEW i \in 1 .. Len(l) + 1, NEW j \in 1 .. Len(l) + 1, i < j
               PROVE  time[r[i]] <= time[r[j]]
      BY <1>6 DEF Ordered
  <2>1. \A a, b \in 1 .. Len(l) : a < b => time[l[a]] <= time[l[b]]
      BY <1>1, <1>2 DEF Ordered
  <2>2. \A a \in 1 .. Len(l) :
          /\ a < n => time[l[a]] <= time[c]
          /\ a >= n => time[c] <= time[l[a]]
    <3> SUFFICES ASSUME NEW a \in 1 .. Len(l)
                 PROVE  (a < n => time[l[a]] <= time[c]) /\ (a >= n => time[c] <= time[l[a]])
        OBVIOUS
    <3>1. CASE a < n
        BY <1>2, <1>3, <1>6, <3>1
    <3>2. CASE a = n
        BY <1>2, <1>3, <1>6, <3>2
    <3>3. CASE a > n
      <4>1. n \in 1 .. Len(l) /\ time[l[n]] > time[c] /\ time[l[n]] <= time[l[a]]
          BY <1>2, <1>3, <1>6, <2>1, <3>3
      <4> QED
          BY <1>2, <1>6, <3>3, <4>1
    <3> QED
        BY <1>2, <1>6, <3>1, <3>2, <3>3
  <2>3. /\ time[r[i]] \in Nat /\ time[r[j]] \in Nat
      BY <1>2, <1>6, <1>7
  <2>4. CASE i < n /\ r[i] = l[i]
      BY <1>2, <1>6, <1>7, <2>1, <2>2, <2>3, <2>4
  <2>5. CASE i = n /\ r[i] = c
      BY <1>2, <1>6, <1>7, <2>1, <2>2, <2>5
  <2>6. CASE i > n /\ r[i] = l[i - 1] /\ i - 1 \in 1 .. Len(l)
    <3>1. j > n /\ r[j] = l[j - 1] /\ j - 1 \in 1 .. Len(l)
        BY <1>6, <1>7, <2>6
    <3> QED
        BY <2>1, <2>6, <3>1
  <2> QED
      BY <1>7, <2>4, <2>5, <2>6
<1>9. Distinct(r)
  <2> SUFFICES ASSUME NEW i \in 1 .. Len(l) + 1, NEW j \in 1 .. Len(l) + 1, r[i] = r[j]
               PROVE  i = j
      BY <1>6 DEF Distinct
  <2>1. \A a, b \in 1 .. Len(l) : l[a] = l[b] => a = b
      BY <1>1, <1>2 DEF Distinct
  <2>2. \A a \in 1 .. Len(l) : l[a] # c
      BY <1>2
  <2>3. CASE i < n
    <3>1. i \in 1 .. Len(l) /\ r[i] = l[i]
        BY <1>6, <1>7, <2>3
    <3>2. CASE j < n
      <4>1. j \in 1 .. Len(l) /\ r[j] = l[j]
          BY <1>6, <1>7, <3>2
      <4> QED
          BY <2>1, <3>1, <4>1
    <3>3. CASE j > n
      <4>1. j - 1 \in 1 .. Len(l) /\ r[j] = l[j - 1]
          BY <1>6, <1>7, <3>3
      <4>2. i = j - 1
          BY <2>1, <3>1, <4>1
      <4> QED
          BY <1>6, <2>3, <3>3, <4>2
    <3>4. CASE j = n
      <4>1. r[j] = c
          BY <1>6, <1>7, <3>4
      <4> QED
          BY <2>2, <3>1, <4>1
    <3> QED
        BY <1>6, <3>2, <3>3, <3>4
  <2>4. CASE i = n
      BY <1>6, <1>7, <2>1, <2>2, <2>4
  <2>5. CASE i > n
    <3>1. i - 1 \in 1 .. Len(l) /\ r[i] = l[i - 1]
        BY <1>6, <1>7, <2>5
    <3>2. CASE j < n
      <4>1. j \in 1 .. Len(l) /\ r[j] = l[j]
          BY <1>6, <1>7, <3>2
      <4>2. j = i - 1
          BY <2>1, <3>1, <4>1
      <4> QED
          BY <1>6, <2>5, <3>2, <4>2
    <3>3. CASE j > n
      <4>1. j - 1 \in 1 .. Len(l) /\ r[j] = l[j - 1]
          BY <1>6, <1>7, <3>3
      <4>2. i - 1 = j - 1
          BY <2>1, <3>1, <4>1
      <4> QED
          BY <4>2
    <3>4. CASE j = n
      <4>1. r[j] = c
          BY <1>6, <1>7, <3>4
      <4> QED
          BY <2>2, <3>1, <4>1
    <3> QED
        BY <1>6, <3>2, <3>3, <3>4
  <2> QED
      BY <1>6, <2>3, <2>4, <2>5
<1>10. \A i \in 1 .. Len(l) + 1 : stream[r[i]] = isStream /\ time[r[i]] > 0
    BY <1>2, <1>7
<1> QED
    BY <1>4, <1>5, <1>6, <1>8, <1>9, <1>10 DEF ListOf

(* A command taken out, if it is there.                                    *)
LEMMA WithoutIsList ==
  ASSUME NEW l, NEW time \in [Commands -> Nat], NEW stream, NEW isStream,
         ListOf(l, time, stream, isStream), NEW c \in Commands
  PROVE  /\ ListOf(C!Without(l, c), time, stream, isStream)
         /\ ~In(c, C!Without(l, c)) /\ \A d : In(d, C!Without(l, c)) => In(d, l)
         /\ ~In(c, l) => C!Without(l, c) = l
<1>1. l \in Seq(Commands) /\ Ordered(l, time) /\ Distinct(l)
    BY DEF ListOf
<1>2. /\ Len(l) \in Nat /\ DOMAIN l = 1 .. Len(l)
      /\ \A i \in 1 .. Len(l) :
           l[i] \in Commands /\ time[l[i]] \in Nat /\ stream[l[i]] = isStream /\ time[l[i]] > 0
    BY <1>1 DEF ListOf
<1>3. In(c, l) <=> c \in C!Range(l)
    BY DEF In, C!Range
<1>4. CASE ~In(c, l)
  <2>1. C!Without(l, c) = l
      BY <1>3, <1>4 DEF C!Without
  <2> QED
      BY <1>4, <2>1
<1>5. CASE In(c, l)
  <2> DEFINE k == CHOOSE i \in DOMAIN l : l[i] = c
             r == SubSeq(l, 1, k - 1) \o SubSeq(l, k + 1, Len(l))
  <2>1. k \in 1 .. Len(l) /\ l[k] = c
      BY <1>2, <1>5 DEF In
  <2>2. C!Without(l, c) = r
      BY <1>3, <1>5 DEF C!Without
  <2> HIDE DEF k
  <2>3. /\ r \in Seq(Commands) /\ Len(r) = Len(l) - 1
        /\ \A i \in 1 .. Len(l) - 1 : r[i] = IF i < k THEN l[i] ELSE l[i + 1]
      BY <1>1, <2>1, TakeOut
  <2> HIDE DEF r
  <2>4. DOMAIN r = 1 .. Len(l) - 1
      BY <1>2, <2>1, <2>3
  <2>5. \A i \in 1 .. Len(l) - 1 :
          \/ i < k /\ i \in 1 .. Len(l) /\ r[i] = l[i]
          \/ i >= k /\ i + 1 \in 1 .. Len(l) /\ r[i] = l[i + 1]
      BY <1>2, <2>1, <2>3
  <2>6. Ordered(r, time)
    <3> SUFFICES ASSUME NEW i \in 1 .. Len(l) - 1, NEW j \in 1 .. Len(l) - 1, i < j
                 PROVE  time[r[i]] <= time[r[j]]
        BY <2>4 DEF Ordered
    <3>1. \A a, b \in 1 .. Len(l) : a < b => time[l[a]] <= time[l[b]]
        BY <1>1, <1>2 DEF Ordered
    <3> QED
        BY <1>2, <2>1, <2>5, <3>1
  <2>7. Distinct(r)
    <3> SUFFICES ASSUME NEW i \in 1 .. Len(l) - 1, NEW j \in 1 .. Len(l) - 1, r[i] = r[j]
                 PROVE  i = j
        BY <2>4 DEF Distinct
    <3>1. \A a, b \in 1 .. Len(l) : l[a] = l[b] => a = b
        BY <1>1, <1>2 DEF Distinct
    <3> QED
        BY <1>2, <2>1, <2>5, <3>1
  <2>8. ~In(c, r)
    <3> SUFFICES ASSUME NEW i \in 1 .. Len(l) - 1, r[i] = c PROVE FALSE
        BY <2>4 DEF In
    <3>1. \A a, b \in 1 .. Len(l) : l[a] = l[b] => a = b
        BY <1>1, <1>2 DEF Distinct
    <3> QED
        BY <1>2, <2>1, <2>5, <3>1
  <2>9. ASSUME NEW d, In(d, r) PROVE In(d, l)
    <3>1. PICK i \in 1 .. Len(l) - 1 : r[i] = d
        BY <2>4, <2>9 DEF In
    <3> QED
        BY <1>2, <2>5, <3>1 DEF In
  <2>10. \A i \in 1 .. Len(l) - 1 : stream[r[i]] = isStream /\ time[r[i]] > 0
      BY <1>2, <2>5
  <2> QED
      BY <1>5, <2>2, <2>3, <2>4, <2>6, <2>7, <2>8, <2>9, <2>10 DEF ListOf
<1> QED
    BY <1>4, <1>5

(* A list does not see what becomes of a command that is not on it.        *)
LEMMA ListElsewhere ==
  ASSUME NEW l, NEW time, NEW stream, NEW time2, NEW stream2, NEW isStream, NEW c,
         ListOf(l, time, stream, isStream), ~In(c, l),
         \A d \in Commands \ {c} : time2[d] = time[d] /\ stream2[d] = stream[d]
  PROVE  ListOf(l, time2, stream2, isStream)
<1>1. l \in Seq(Commands) /\ \A i \in DOMAIN l : l[i] \in Commands \ {c}
    BY DEF ListOf, In
<1>2. \A i \in DOMAIN l : time2[l[i]] = time[l[i]] /\ stream2[l[i]] = stream[l[i]]
    BY <1>1
<1>3. Ordered(l, time2)
    BY <1>2 DEF ListOf, Ordered
<1> QED
    BY <1>2, <1>3 DEF ListOf

(* The earliest is the first of one of the lists.                          *)
LEMMA EarliestIsFirst ==
  ASSUME NEW p, NEW s, NEW time, NEW stream, NEW running, NEW offset,
         ListOf(p, time, stream, FALSE), ListOf(s, time, stream, TRUE)
  PROVE  LET first == C!Earliest(p, s, running, time, offset)
         IN  \/ first = 0
             \/ /\ first \in Commands /\ first = C!FirstOf(p, 0) /\ In(first, p)
                /\ stream[first] = FALSE /\ time[first] > 0
             \/ /\ first \in Commands /\ first # C!FirstOf(p, 0) /\ In(first, s)
                /\ stream[first] = TRUE /\ time[first] > 0
<1>1. 0 \notin Commands
    BY ControlAssumption DEF ControlAssumption
<1>2. \/ p = <<>> /\ C!FirstOf(p, 0) = 0
      \/ /\ p # <<>> /\ C!FirstOf(p, 0) \in Commands /\ In(C!FirstOf(p, 0), p)
         /\ stream[C!FirstOf(p, 0)] = FALSE /\ time[C!FirstOf(p, 0)] > 0
  <2>1. CASE p = <<>>
      BY <2>1 DEF C!FirstOf
  <2>2. CASE p # <<>>
    <3>1. p \in Seq(Commands) /\ 1 \in DOMAIN p /\ Head(p) = p[1] /\ C!FirstOf(p, 0) = p[1]
        BY <2>2 DEF ListOf, C!FirstOf
    <3> QED
        BY <2>2, <3>1 DEF ListOf, In
  <2> QED
      BY <2>1, <2>2
<1>3. \/ s = <<>> /\ C!FirstOf(s, 0) = 0
      \/ /\ s # <<>> /\ C!FirstOf(s, 0) \in Commands /\ In(C!FirstOf(s, 0), s)
         /\ stream[C!FirstOf(s, 0)] = TRUE /\ time[C!FirstOf(s, 0)] > 0
  <2>1. CASE s = <<>>
      BY <2>1 DEF C!FirstOf
  <2>2. CASE s # <<>>
    <3>1. s \in Seq(Commands) /\ 1 \in DOMAIN s /\ Head(s) = s[1] /\ C!FirstOf(s, 0) = s[1]
        BY <2>2 DEF ListOf, C!FirstOf
    <3> QED
        BY <2>2, <3>1 DEF ListOf, In
  <2> QED
      BY <2>1, <2>2
<1>4. \/ C!Earliest(p, s, running, time, offset) = C!FirstOf(p, 0)
      \/ /\ C!Earliest(p, s, running, time, offset) = C!FirstOf(s, 0)
         /\ C!FirstOf(s, 0) # 0
    BY DEF C!Earliest, C!none
<1> QED
    BY <1>1, <1>2, <1>3, <1>4

(* Whatever was asked for before, what SetTimeAdvise remembers is right.   *)
LEMMA AdviseIsRight ==
  ASSUME NEW p, NEW s, NEW time \in [Commands -> Nat], NEW stream, NEW running,
         NEW offset \in Nat, NEW old,
         ListOf(p, time, stream, FALSE), ListOf(s, time, stream, TRUE)
  PROVE  LET current == Current(p, s, time, running, offset)
         IN  Advised(p, s, time, stream, running, offset,
                     IF current > 0 /\ current # old THEN current ELSE old)
<1> DEFINE first == C!Earliest(p, s, running, time, offset)
           current == Current(p, s, time, running, offset)
<1>1. \/ first = 0
      \/ /\ first \in Commands /\ first = C!FirstOf(p, 0) /\ stream[first] = FALSE
         /\ time[first] > 0
      \/ /\ first \in Commands /\ first # C!FirstOf(p, 0) /\ stream[first] = TRUE
         /\ time[first] > 0
    BY EarliestIsFirst
<1>2. current = IF first = 0 THEN 0
                ELSE time[first] + (IF first = C!FirstOf(p, 0) THEN 0 ELSE offset)
    BY DEF Current
<1>3. Advised(p, s, time, stream, running, offset,
              IF current > 0 /\ current # old THEN current ELSE old)
        <=> (first # 0 => (IF current > 0 /\ current # old THEN current ELSE old)
                            = time[first] + (IF stream[first] THEN offset ELSE 0))
    BY DEF Advised
<1> HIDE DEF first, current
<1>4. CASE first = 0
    BY <1>3, <1>4 DEF current
<1>5. CASE first # 0
  <2>1. /\ current = time[first] + (IF stream[first] THEN offset ELSE 0)
        /\ current > 0
      BY <1>1, <1>2, <1>5
  <2> QED
      BY <1>3, <2>1 DEF current
<1> QED
    BY <1>4, <1>5 DEF current

(* An advise does not depend on a command that is not queued.              *)
LEMMA AdviseElsewhere ==
  ASSUME NEW p, NEW s, NEW time, NEW stream, NEW time2, NEW stream2, NEW running,
         NEW offset, NEW advise, NEW c,
         ListOf(p, time, stream, FALSE), ListOf(s, time, stream, TRUE),
         ~In(c, p), ~In(c, s),
         \A d \in Commands \ {c} : time2[d] = time[d] /\ stream2[d] = stream[d],
         Advised(p, s, time, stream, running, offset, advise)
  PROVE  Advised(p, s, time2, stream2, running, offset, advise)
<1>1. \A l : l \in {p, s} /\ l # <<>> => Head(l) \in Commands \ {c}
  <2> SUFFICES ASSUME NEW l \in {p, s}, l # <<>> PROVE Head(l) \in Commands \ {c}
      OBVIOUS
  <2>1. l \in Seq(Commands) /\ ~In(c, l)
      BY DEF ListOf
  <2>2. 1 \in DOMAIN l /\ Head(l) = l[1] /\ l[1] \in Commands
      BY <2>1
  <2> QED
      BY <2>1, <2>2 DEF In
<1>2. p # <<>> => time2[Head(p)] = time[Head(p)] /\ stream2[Head(p)] = stream[Head(p)]
    BY <1>1
<1>3. s # <<>> => time2[Head(s)] = time[Head(s)] /\ stream2[Head(s)] = stream[Head(s)]
    BY <1>1
<1>4. C!Earliest(p, s, running, time2, offset) = C!Earliest(p, s, running, time, offset)
    BY <1>2, <1>3 DEF C!Earliest, C!FirstOf, C!none
<1>5. LET first == C!Earliest(p, s, running, time, offset)
      IN  first # 0 => \/ p # <<>> /\ first = Head(p)
                       \/ s # <<>> /\ first = Head(s)
    BY DEF C!Earliest, C!FirstOf, C!none
<1> QED
    BY <1>2, <1>3, <1>4, <1>5 DEF Advised

-----------------------------------------------------------------------------
CmdState ==
  <<m_listPresentation, m_listStream, m_time, m_bStream, m_pClock, m_bRunning,
    m_StreamTimeOffset, m_tCurrentAdvise>>

LEMMA CmdInitially == C!Init => CmdInv
<1> SUFFICES ASSUME C!Init PROVE CmdInv
    OBVIOUS
<1>1. CmdTypes
    BY DEF C!Init, CmdTypes
<1>2. \A time, stream, isStream : ListOf(<<>>, time, stream, isStream)
    BY DEF ListOf, Ordered, Distinct
<1>3. ListInv
    BY <1>2 DEF C!Init, ListInv
<1>4. PostponeInv
    BY DEF C!Init, C!Idle, PostponeInv
<1>5. RanInv
    BY DEF C!Init, RanInv
<1>6. AdviseInv
    BY DEF C!Init, AdviseInv
<1> QED
    BY <1>1, <1>3, <1>4, <1>5, <1>6 DEF CmdInv

LEMMA QueuedIsIn ==
  \A c : C!Queued(c) <=> In(c, m_listPresentation) \/ In(c, m_listStream)
BY DEF C!Queued, C!Range, In

(* What a step that leaves the queue alone keeps.                          *)
LEMMA QueueUnchanged ==
  ASSUME ListInv, AdviseInv, UNCHANGED CmdState
  PROVE  ListInv' /\ AdviseInv'
<1>1. /\ m_listPresentation' = m_listPresentation /\ m_listStream' = m_listStream
      /\ m_time' = m_time /\ m_bStream' = m_bStream /\ m_pClock' = m_pClock
      /\ m_bRunning' = m_bRunning /\ m_StreamTimeOffset' = m_StreamTimeOffset
      /\ m_tCurrentAdvise' = m_tCurrentAdvise
    BY DEF CmdState
<1> QED
    BY <1>1 DEF ListInv, AdviseInv

LEMMA RemoveKeeps ==
  ASSUME CmdTypes, ListInv, AdviseInv, NEW c \in Commands, C!Remove(c),
         m_time' = m_time, m_bStream' = m_bStream
  PROVE  /\ ListInv' /\ AdviseInv' /\ m_StreamTimeOffset' = m_StreamTimeOffset
         /\ ~In(c, m_listPresentation)' /\ ~In(c, m_listStream)'
         /\ \A d : In(d, m_listPresentation)' => In(d, m_listPresentation)
         /\ \A d : In(d, m_listStream)' => In(d, m_listStream)
<1>1. /\ m_listPresentation' = C!Without(m_listPresentation, c)
      /\ m_listStream' = C!Without(m_listStream, c)
      /\ m_pClock' = m_pClock /\ m_bRunning' = m_bRunning
      /\ m_StreamTimeOffset' = m_StreamTimeOffset
    BY DEF C!Remove, C!modeVars
<1>2. PICK p : p = m_listPresentation'
    OBVIOUS
<1>3. PICK s : s = m_listStream'
    OBVIOUS
<1>4. m_time \in [Commands -> Nat] /\ m_StreamTimeOffset \in Nat
    BY DEF CmdTypes
<1>5. /\ ListOf(p, m_time, m_bStream, FALSE) /\ ~In(c, p)
      /\ \A d : In(d, p) => In(d, m_listPresentation)
      /\ ~In(c, m_listPresentation) => p = m_listPresentation
    BY <1>1, <1>2, <1>4, WithoutIsList DEF ListInv
<1>6. /\ ListOf(s, m_time, m_bStream, TRUE) /\ ~In(c, s)
      /\ \A d : In(d, s) => In(d, m_listStream)
      /\ ~In(c, m_listStream) => s = m_listStream
    BY <1>1, <1>3, <1>4, WithoutIsList DEF ListInv
<1>7. ListInv'
    BY <1>2, <1>3, <1>5, <1>6 DEF ListInv
<1>8. m_pClock => Advised(p, s, m_time, m_bStream, m_bRunning, m_StreamTimeOffset,
                          m_tCurrentAdvise')
  <2>1. CASE C!Queued(c)
    <3> DEFINE current == Current(p, s, m_time, m_bRunning, m_StreamTimeOffset)
    <3>1. m_pClock => m_tCurrentAdvise' = IF current > 0 /\ current # m_tCurrentAdvise
                                          THEN current ELSE m_tCurrentAdvise
        BY <1>2, <1>3, <2>1 DEF C!Remove, C!Advises, C!SetTimeAdvise, C!none, Current
    <3>2. Advised(p, s, m_time, m_bStream, m_bRunning, m_StreamTimeOffset,
                  IF current > 0 /\ current # m_tCurrentAdvise THEN current ELSE m_tCurrentAdvise)
        BY <1>4, <1>5, <1>6, AdviseIsRight
    <3> QED
        BY <3>1, <3>2
  <2>2. CASE ~C!Queued(c)
    <3>1. p = m_listPresentation /\ s = m_listStream
        BY <1>5, <1>6, <2>2, QueuedIsIn
    <3>2. m_tCurrentAdvise' = m_tCurrentAdvise
        BY <2>2 DEF C!Remove, C!adviseVars
    <3> QED
        BY <3>1, <3>2 DEF AdviseInv
  <2> QED
      BY <2>1, <2>2
<1>9. AdviseInv'
    BY <1>1, <1>2, <1>3, <1>8 DEF AdviseInv
<1> QED
    BY <1>1, <1>2, <1>3, <1>5, <1>6, <1>7, <1>9

(* A command that is not queued gets its time, and its place in line.      *)
LEMMA InsertKeeps ==
  ASSUME CmdTypes, ListInv, NEW c \in Commands, NEW t \in Times, NEW isStream \in BOOLEAN,
         ~In(c, m_listPresentation), ~In(c, m_listStream),
         m_time' = [m_time EXCEPT ![c] = t], m_bStream' = [m_bStream EXCEPT ![c] = isStream],
         C!Insert(c, m_time', isStream)
  PROVE  ListInv' /\ AdviseInv' /\ m_StreamTimeOffset' = m_StreamTimeOffset
<1>1. PICK time : time = m_time'
    OBVIOUS
<1>2. PICK stream : stream = m_bStream'
    OBVIOUS
<1>3. PICK p : p = m_listPresentation'
    OBVIOUS
<1>4. PICK s : s = m_listStream'
    OBVIOUS
<1>5. t > 0 /\ t \in Nat
  <2>1. t \in Nat \ {0}
      BY ControlAssumption DEF ControlAssumption
  <2> QED
      BY <2>1
<1>6. /\ time \in [Commands -> Nat] /\ time[c] > 0 /\ stream[c] = isStream
      /\ \A d \in Commands \ {c} : time[d] = m_time[d] /\ stream[d] = m_bStream[d]
  <2>1. m_time \in [Commands -> Nat] /\ m_bStream \in [Commands -> BOOLEAN]
      BY DEF CmdTypes
  <2>2. time \in [Commands -> Nat] /\ time[c] = t /\ \A d \in Commands \ {c} : time[d] = m_time[d]
      BY <1>1, <1>5, <2>1
  <2>3. stream[c] = isStream /\ \A d \in Commands \ {c} : stream[d] = m_bStream[d]
      BY <1>2, <2>1
  <2> QED
      BY <1>5, <2>2, <2>3
<1>7. /\ s = (IF isStream THEN C!Sorted(m_listStream, c, time) ELSE m_listStream)
      /\ p = (IF isStream THEN m_listPresentation ELSE C!Sorted(m_listPresentation, c, time))
      /\ m_pClock' = m_pClock /\ m_bRunning' = m_bRunning
      /\ m_StreamTimeOffset' = m_StreamTimeOffset
    BY <1>1, <1>3, <1>4 DEF C!Insert, C!modeVars
<1>8. /\ ListOf(m_listPresentation, time, stream, FALSE)
      /\ ListOf(m_listStream, time, stream, TRUE)
  <2>1. ListOf(m_listPresentation, m_time, m_bStream, FALSE)
      BY DEF ListInv
  <2>2. ListOf(m_listStream, m_time, m_bStream, TRUE)
      BY DEF ListInv
  <2> QED
      BY <1>6, <2>1, <2>2, ListElsewhere
<1>9. ListOf(p, time, stream, FALSE) /\ ListOf(s, time, stream, TRUE)
  <2>1. CASE isStream
    <3>1. ListOf(C!Sorted(m_listStream, c, time), time, stream, TRUE)
        BY <1>6, <1>8, <2>1, SortedIsList
    <3> QED
        BY <1>7, <1>8, <2>1, <3>1
  <2>2. CASE ~isStream
    <3>1. ListOf(C!Sorted(m_listPresentation, c, time), time, stream, FALSE)
      <4>1. stream[c] = FALSE
          BY <1>6, <2>2
      <4> QED
          BY <1>6, <1>8, <4>1, SortedIsList
    <3> QED
        BY <1>7, <1>8, <2>2, <3>1
  <2> QED
      BY <2>1, <2>2
<1>10. ListInv'
    BY <1>1, <1>2, <1>3, <1>4, <1>9 DEF ListInv
<1>11. m_pClock => Advised(p, s, time, stream, m_bRunning, m_StreamTimeOffset, m_tCurrentAdvise')
  <2> DEFINE current == Current(p, s, time, m_bRunning, m_StreamTimeOffset)
  <2>1. m_pClock => m_tCurrentAdvise' = IF current > 0 /\ current # m_tCurrentAdvise
                                        THEN current ELSE m_tCurrentAdvise
      BY <1>1, <1>3, <1>4 DEF C!Insert, C!Advises, C!SetTimeAdvise, C!none, Current
  <2>2. Advised(p, s, time, stream, m_bRunning, m_StreamTimeOffset,
                IF current > 0 /\ current # m_tCurrentAdvise THEN current ELSE m_tCurrentAdvise)
    <3>1. m_StreamTimeOffset \in Nat
        BY DEF CmdTypes
    <3> QED
        BY <1>6, <1>9, <3>1, AdviseIsRight
  <2> QED
      BY <2>1, <2>2
<1>12. AdviseInv'
    BY <1>1, <1>2, <1>3, <1>4, <1>7, <1>11 DEF AdviseInv
<1> QED
    BY <1>7, <1>10, <1>12

(* A change of clock or of the filter's state.                             *)
LEMMA AdviseKeeps ==
  ASSUME CmdTypes, ListInv, NEW clock, NEW advise, NEW running, NEW offset \in Nat,
         UNCHANGED <<m_listPresentation, m_listStream, m_time, m_bStream>>,
         m_pClock' = clock, m_bRunning' = running, m_StreamTimeOffset' = offset,
         C!SetTimeAdvise(m_listPresentation, m_listStream, m_time, clock, advise, running, offset)
  PROVE  ListInv' /\ AdviseInv'
<1>1. /\ m_listPresentation' = m_listPresentation /\ m_listStream' = m_listStream
      /\ m_time' = m_time /\ m_bStream' = m_bStream
    OBVIOUS
<1>2. ListInv'
    BY <1>1 DEF ListInv
<1> DEFINE current == Current(m_listPresentation, m_listStream, m_time, running, offset)
<1>3. clock => m_tCurrentAdvise' = IF current > 0 /\ current # m_tCurrentAdvise
                                   THEN current ELSE m_tCurrentAdvise
    BY DEF C!SetTimeAdvise, C!none, Current
<1>4. Advised(m_listPresentation, m_listStream, m_time, m_bStream, running, offset,
              IF current > 0 /\ current # m_tCurrentAdvise THEN current ELSE m_tCurrentAdvise)
  <2>1. /\ ListOf(m_listPresentation, m_time, m_bStream, FALSE)
        /\ ListOf(m_listStream, m_time, m_bStream, TRUE)
        /\ m_time \in [Commands -> Nat]
      BY DEF ListInv, CmdTypes
  <2> QED
      BY <2>1, AdviseIsRight
<1> HIDE DEF current
<1>5. AdviseInv'
  <2>1. clock => Advised(m_listPresentation, m_listStream, m_time, m_bStream, running, offset,
                         m_tCurrentAdvise')
      BY <1>3, <1>4
  <2> QED
      BY <1>1, <2>1 DEF AdviseInv
<1> QED
    BY <1>2, <1>5

LEMMA FirstIsCommand ==
  ASSUME ListInv
  PROVE  /\ C!First = 0 \/ C!First \in Commands
         /\ \A l \in {m_listPresentation, m_listStream} :
              C!FirstOf(l, 0) = 0 \/ C!FirstOf(l, 0) \in Commands
<1>1. /\ ListOf(m_listPresentation, m_time, m_bStream, FALSE)
      /\ ListOf(m_listStream, m_time, m_bStream, TRUE)
    BY DEF ListInv
<1>2. C!First = 0 \/ C!First \in Commands
    BY <1>1, EarliestIsFirst DEF C!First
<1>3. ASSUME NEW l \in {m_listPresentation, m_listStream}
      PROVE  C!FirstOf(l, 0) = 0 \/ C!FirstOf(l, 0) \in Commands
  <2>1. l \in Seq(Commands)
      BY <1>1 DEF ListOf
  <2>2. l # <<>> => Head(l) \in Commands
      BY <2>1
  <2> QED
      BY <2>2 DEF C!FirstOf
<1> QED
    BY <1>2, <1>3

(* As long as nothing is put on a list.                                    *)
LEMMA PostponeKept ==
  ASSUME PostponeInv, ownerPc' = ownerPc, newTime' = newTime,
         \A d : In(d, m_listPresentation)' => In(d, m_listPresentation),
         \A d : In(d, m_listStream)' => In(d, m_listStream)
  PROVE  PostponeInv'
BY DEF PostponeInv

LEMMA PostponeSame ==
  ASSUME PostponeInv, ownerPc' = ownerPc, newTime' = newTime, UNCHANGED CmdState
  PROVE  PostponeInv'
BY DEF PostponeInv, CmdState

-----------------------------------------------------------------------------
LEMMA NewKeepsInv ==
  ASSUME CmdInv, NEW c \in Commands, C!New(c)
  PROVE  CmdInv'
<1>1. CmdTypes /\ ListInv /\ RanInv
    BY DEF CmdInv
<1>2. PICK t \in Times, isStream \in BOOLEAN :
        /\ m_time' = [m_time EXCEPT ![c] = t] /\ m_bStream' = [m_bStream EXCEPT ![c] = isStream]
        /\ C!Insert(c, m_time', isStream)
    BY DEF C!New, C!Construct
<1>3. /\ ran[c] = 0 /\ m_time[c] = 0 /\ ownerPc = C!Idle
      /\ m_pQueue' = [m_pQueue EXCEPT ![c] = TRUE]
      /\ ran' = ran /\ workerPc' = workerPc /\ held' = held /\ ownerPc' = ownerPc
    BY DEF C!New, C!Construct
<1>4. ~In(c, m_listPresentation) /\ ~In(c, m_listStream)
    BY <1>1, <1>3 DEF ListInv, ListOf, In
<1>5. ListInv' /\ AdviseInv' /\ m_StreamTimeOffset' = m_StreamTimeOffset
    BY <1>1, <1>2, <1>4, InsertKeeps
<1>6. CmdTypes'
  <2>1. m_time' \in [Commands -> Nat]
    <3>1. t \in Nat
        BY ControlAssumption DEF ControlAssumption
    <3> QED
        BY <1>1, <1>2, <3>1 DEF CmdTypes
  <2>2. m_bStream' \in [Commands -> BOOLEAN]
      BY <1>1, <1>2 DEF CmdTypes
  <2>3. m_pQueue' \in [Commands -> BOOLEAN]
      BY <1>1, <1>3 DEF CmdTypes
  <2> QED
      BY <1>1, <1>3, <1>5, <2>1, <2>2, <2>3 DEF CmdTypes
<1>7. PostponeInv'
    BY <1>3 DEF PostponeInv, C!Idle
<1>8. RanInv'
  <2> SUFFICES ASSUME NEW d \in Commands
               PROVE  \/ ran'[d] = 0
                      \/ ran'[d] = 1 /\ (~m_pQueue'[d] \/ (workerPc' = "invoked" /\ held' = d))
      BY DEF RanInv
  <2>1. CASE d = c
      BY <1>3, <2>1
  <2>2. CASE d # c
    <3>1. m_pQueue'[d] = m_pQueue[d]
        BY <1>1, <1>3, <2>2 DEF CmdTypes
    <3> QED
        BY <1>1, <1>3, <3>1 DEF RanInv
  <2> QED
      BY <2>1, <2>2
<1> QED
    BY <1>5, <1>6, <1>7, <1>8 DEF CmdInv

LEMMA CancelKeepsInv ==
  ASSUME CmdInv, NEW c \in Commands, C!Cancel(c)
  PROVE  CmdInv'
<1>1. CmdTypes /\ ListInv /\ AdviseInv /\ RanInv
    BY DEF CmdInv
<1>2. /\ C!Remove(c) /\ ownerPc' = <<"cancel", c>>
      /\ m_time' = m_time /\ m_bStream' = m_bStream /\ m_pQueue' = m_pQueue
      /\ ran' = ran /\ workerPc' = workerPc /\ held' = held
    BY DEF C!Cancel
<1>3. ListInv' /\ AdviseInv' /\ m_StreamTimeOffset' = m_StreamTimeOffset
    BY <1>1, <1>2, RemoveKeeps
<1>4. CmdTypes' /\ RanInv'
    BY <1>1, <1>2, <1>3 DEF CmdTypes, RanInv
<1>5. PostponeInv'
    BY <1>2 DEF PostponeInv
<1> QED
    BY <1>3, <1>4, <1>5 DEF CmdInv

LEMMA CancelledKeepsInv ==
  ASSUME CmdInv, NEW c \in Commands, C!Cancelled(c)
  PROVE  CmdInv'
<1>1. CmdTypes /\ ListInv /\ AdviseInv /\ RanInv
    BY DEF CmdInv
<1>2. /\ m_pQueue' = [m_pQueue EXCEPT ![c] = FALSE] /\ ownerPc' = C!Idle
      /\ UNCHANGED CmdState /\ m_time' = m_time /\ m_bStream' = m_bStream
      /\ m_StreamTimeOffset' = m_StreamTimeOffset
      /\ ran' = ran /\ workerPc' = workerPc /\ held' = held
    BY DEF C!Cancelled, C!queueVars, C!adviseVars, C!modeVars, CmdState
<1>3. ListInv' /\ AdviseInv'
    BY <1>1, <1>2, QueueUnchanged
<1>4. m_pQueue' \in [Commands -> BOOLEAN]
    BY <1>1, <1>2 DEF CmdTypes
<1>5. CmdTypes'
    BY <1>1, <1>2, <1>4 DEF CmdTypes
<1>6. RanInv'
  <2>1. \A d \in Commands : ~m_pQueue[d] => ~m_pQueue'[d]
      BY <1>1, <1>2 DEF CmdTypes
  <2> QED
      BY <1>1, <1>2, <2>1 DEF RanInv
<1>7. PostponeInv'
    BY <1>2 DEF PostponeInv, C!Idle
<1> QED
    BY <1>3, <1>5, <1>6, <1>7 DEF CmdInv

LEMMA PostponeKeepsInv ==
  ASSUME CmdInv, NEW c \in Commands, C!Postpone(c)
  PROVE  CmdInv'
<1>1. CmdTypes /\ ListInv /\ AdviseInv /\ RanInv /\ PostponeInv
    BY DEF CmdInv
<1>2. /\ m_time' = m_time /\ m_bStream' = m_bStream /\ m_pQueue' = m_pQueue
      /\ ran' = ran /\ workerPc' = workerPc /\ held' = held
    BY DEF C!Postpone
<1>3. CASE \E t \in Times : C!Remove(c) /\ ownerPc' = <<"postpone", c>> /\ newTime' = t
  <2>1. /\ ListInv' /\ AdviseInv' /\ m_StreamTimeOffset' = m_StreamTimeOffset
        /\ ~In(c, m_listPresentation)' /\ ~In(c, m_listStream)'
      BY <1>1, <1>2, <1>3, RemoveKeeps
  <2>2. CmdTypes' /\ RanInv'
      BY <1>1, <1>2, <2>1 DEF CmdTypes, RanInv
  <2>3. PostponeInv'
    <3> SUFFICES ASSUME NEW d \in Commands, ownerPc' = <<"postpone", d>>
                 PROVE  ~In(d, m_listPresentation)' /\ ~In(d, m_listStream)' /\ newTime' \in Times
        BY DEF PostponeInv
    <3>1. d = c
        BY <1>3
    <3> QED
        BY <1>3, <2>1, <3>1
  <2> QED
      BY <2>1, <2>2, <2>3 DEF CmdInv
<1>4. CASE UNCHANGED <<C!queueVars, m_cRef, ownerPc, newTime>>
  <2>1. UNCHANGED CmdState /\ m_StreamTimeOffset' = m_StreamTimeOffset
        /\ ownerPc' = ownerPc /\ newTime' = newTime
      BY <1>2, <1>4 DEF C!queueVars, C!adviseVars, C!modeVars, CmdState
  <2>2. ListInv' /\ AdviseInv'
      BY <1>1, <2>1, QueueUnchanged
  <2>3. CmdTypes' /\ RanInv'
      BY <1>1, <1>2, <2>1 DEF CmdTypes, RanInv
  <2>4. PostponeInv'
      BY <1>1, <2>1, PostponeSame
  <2> QED
      BY <2>2, <2>3, <2>4 DEF CmdInv
<1> QED
    BY <1>3, <1>4 DEF C!Postpone

LEMMA PostponedKeepsInv ==
  ASSUME CmdInv, NEW c \in Commands, C!Postponed(c)
  PROVE  CmdInv'
<1>1. CmdTypes /\ ListInv /\ AdviseInv /\ RanInv /\ PostponeInv
    BY DEF CmdInv
<1>2. /\ ownerPc = <<"postpone", c>> /\ ownerPc' = C!Idle
      /\ m_time' = [m_time EXCEPT ![c] = newTime]
      /\ m_bStream' = m_bStream /\ m_pQueue' = m_pQueue
      /\ ran' = ran /\ workerPc' = workerPc /\ held' = held
    BY DEF C!Postponed
<1>3. ~In(c, m_listPresentation) /\ ~In(c, m_listStream) /\ newTime \in Times
    BY <1>1, <1>2 DEF PostponeInv
<1>4. newTime \in Nat
    BY <1>3, ControlAssumption DEF ControlAssumption
<1>5. ListInv' /\ AdviseInv' /\ m_StreamTimeOffset' = m_StreamTimeOffset
  <2>1. CASE m_pQueue[c]
    <3>1. PICK t \in Times : t = newTime
        BY <1>3
    <3>2. PICK isStream \in BOOLEAN : isStream = m_bStream[c]
        BY <1>1 DEF CmdTypes
    <3>3. m_time' = [m_time EXCEPT ![c] = t] /\ m_bStream' = [m_bStream EXCEPT ![c] = isStream]
        BY <1>1, <1>2, <3>1, <3>2 DEF CmdTypes
    <3>4. C!Insert(c, m_time', isStream)
        BY <2>1, <3>2 DEF C!Postponed
    <3> QED
        BY <1>1, <1>3, <3>3, <3>4, InsertKeeps
  <2>2. CASE ~m_pQueue[c]
    <3>1. /\ m_listPresentation' = m_listPresentation /\ m_listStream' = m_listStream
          /\ m_pClock' = m_pClock /\ m_bRunning' = m_bRunning
          /\ m_StreamTimeOffset' = m_StreamTimeOffset /\ m_tCurrentAdvise' = m_tCurrentAdvise
        BY <2>2 DEF C!Postponed, C!queueVars, C!adviseVars, C!modeVars
    <3>2. \A d \in Commands \ {c} : m_time'[d] = m_time[d] /\ m_bStream'[d] = m_bStream[d]
        BY <1>1, <1>2 DEF CmdTypes
    <3>3. PICK time : time = m_time'
        OBVIOUS
    <3>4. /\ ListOf(m_listPresentation, m_time, m_bStream, FALSE)
          /\ ListOf(m_listStream, m_time, m_bStream, TRUE)
        BY <1>1 DEF ListInv
    <3>5. \A d \in Commands \ {c} : time[d] = m_time[d]
        BY <3>2, <3>3
    <3>6. /\ ListOf(m_listPresentation, time, m_bStream, FALSE)
          /\ ListOf(m_listStream, time, m_bStream, TRUE)
        BY <1>3, <3>4, <3>5, ListElsewhere
    <3>7. ListInv'
        BY <1>2, <3>1, <3>3, <3>6 DEF ListInv
    <3>8. m_pClock => Advised(m_listPresentation, m_listStream, time, m_bStream, m_bRunning,
                              m_StreamTimeOffset, m_tCurrentAdvise)
        BY <1>1, <1>3, <3>4, <3>5, AdviseElsewhere DEF AdviseInv
    <3>9. AdviseInv'
        BY <1>2, <3>1, <3>3, <3>8 DEF AdviseInv
    <3> QED
        BY <3>1, <3>7, <3>9
  <2> QED
      BY <2>1, <2>2
<1>6. m_time' \in [Commands -> Nat]
    BY <1>1, <1>2, <1>4 DEF CmdTypes
<1>7. CmdTypes' /\ RanInv'
    BY <1>1, <1>2, <1>5, <1>6 DEF CmdTypes, RanInv
<1>8. PostponeInv'
    BY <1>2 DEF PostponeInv, C!Idle
<1> QED
    BY <1>5, <1>7, <1>8 DEF CmdInv

(* The owner's last look, and the clock's steps.                           *)
LEMMA QuietStepKeepsInv ==
  ASSUME CmdInv, UNCHANGED CmdState,
         m_pQueue' = m_pQueue, ran' = ran, workerPc' = workerPc, held' = held,
         ownerPc' = ownerPc, newTime' = newTime
  PROVE  CmdInv'
<1>1. ListInv' /\ AdviseInv'
    BY QueueUnchanged DEF CmdInv
<1>2. m_time' = m_time /\ m_bStream' = m_bStream /\ m_StreamTimeOffset' = m_StreamTimeOffset
    BY DEF CmdState
<1>3. CmdTypes' /\ RanInv'
    BY <1>2 DEF CmdInv, CmdTypes, RanInv
<1>4. PostponeInv'
    BY PostponeSame DEF CmdInv
<1> QED
    BY <1>1, <1>3, <1>4 DEF CmdInv

(* The worker's steps between two commands.                                *)
LEMMA FetchKeepsInv ==
  ASSUME CmdInv, UNCHANGED CmdState,
         m_pQueue' = m_pQueue, ran' = ran, workerPc # "invoked",
         workerPc' \in {"idle", "wait"} \/ (workerPc' = "got" /\ held' \in Commands),
         ownerPc' = ownerPc, newTime' = newTime
  PROVE  CmdInv'
<1>1. ListInv' /\ AdviseInv'
    BY QueueUnchanged DEF CmdInv
<1>2. m_time' = m_time /\ m_bStream' = m_bStream /\ m_StreamTimeOffset' = m_StreamTimeOffset
    BY DEF CmdState
<1>3. CmdTypes'
    BY <1>2 DEF CmdInv, CmdTypes
<1>4. RanInv'
    BY DEF CmdInv, RanInv
<1>5. PostponeInv'
    BY PostponeSame DEF CmdInv
<1> QED
    BY <1>1, <1>3, <1>4, <1>5 DEF CmdInv

LEMMA FetchesKeepInv ==
  ASSUME CmdInv, \/ C!GetDueCommand \/ C!Woken \/ C!TimedOut
                 \/ \E t \in Times : C!GetCommandDueFor(t)
  PROVE  CmdInv'
<1>1. /\ C!First = 0 \/ C!First \in Commands
      /\ C!FirstOf(m_listPresentation, 0) = 0 \/ C!FirstOf(m_listPresentation, 0) \in Commands
      /\ C!FirstOf(m_listStream, 0) = 0 \/ C!FirstOf(m_listStream, 0) \in Commands
    BY FirstIsCommand DEF CmdInv
<1>2. CASE C!GetDueCommand
  <2>1. UNCHANGED CmdState /\ m_pQueue' = m_pQueue /\ ran' = ran /\ workerPc = "idle"
        /\ ownerPc' = ownerPc /\ newTime' = newTime
      BY <1>2 DEF C!GetDueCommand, C!queueVars, C!adviseVars, C!modeVars, CmdState
  <2>2. workerPc' \in {"idle", "wait"} \/ (workerPc' = "got" /\ held' \in Commands)
      BY <1>1, <1>2 DEF C!GetDueCommand, C!Got, C!DueCommand, C!none
  <2> QED
      BY <2>1, <2>2, FetchKeepsInv
<1>3. CASE C!Woken \/ C!TimedOut
  <2>1. UNCHANGED CmdState /\ m_pQueue' = m_pQueue /\ ran' = ran /\ workerPc = "wait"
        /\ workerPc' = "idle" /\ ownerPc' = ownerPc /\ newTime' = newTime
      BY <1>3 DEF C!Woken, C!TimedOut, C!WaitEnds, C!commandVars, C!queueVars, C!adviseVars,
                  C!modeVars, CmdState
  <2> QED
      BY <2>1, FetchKeepsInv
<1>4. CASE \E t \in Times : C!GetCommandDueFor(t)
  <2>1. PICK t \in Times : C!GetCommandDueFor(t)
      BY <1>4
  <2>2. UNCHANGED CmdState /\ m_pQueue' = m_pQueue /\ ran' = ran /\ workerPc = "idle"
        /\ ownerPc' = ownerPc /\ newTime' = newTime
      BY <2>1 DEF C!GetCommandDueFor, C!queueVars, C!adviseVars, C!modeVars, CmdState
  <2>3. workerPc' = "got" /\ held' \in Commands
      BY <1>1, <2>1 DEF C!GetCommandDueFor, C!Got, C!none
  <2> QED
      BY <2>2, <2>3, FetchKeepsInv
<1> QED
    BY <1>2, <1>3, <1>4

LEMMA InvokeKeepsInv ==
  ASSUME CmdInv, C!Invoke
  PROVE  CmdInv'
<1>1. CmdTypes /\ ListInv /\ AdviseInv /\ RanInv /\ PostponeInv
    BY DEF CmdInv
<1>2. /\ UNCHANGED CmdState /\ m_time' = m_time /\ m_bStream' = m_bStream
      /\ m_StreamTimeOffset' = m_StreamTimeOffset /\ m_pQueue' = m_pQueue
      /\ workerPc = "got" /\ held' = held /\ ownerPc' = ownerPc /\ newTime' = newTime
      /\ workerPc' = (IF m_pQueue[held] THEN "invoked" ELSE "release")
      /\ ran' = [ran EXCEPT ![held] = @ + (IF m_pQueue[held] THEN 1 ELSE 0)]
    BY DEF C!Invoke, C!queueVars, C!adviseVars, C!modeVars, CmdState
<1>3. ListInv' /\ AdviseInv' /\ PostponeInv'
    BY <1>1, <1>2, QueueUnchanged, PostponeSame
<1>4. held \in Commands /\ ran \in [Commands -> Nat]
    BY <1>1, <1>2 DEF CmdTypes
<1>5. ran' \in [Commands -> Nat]
  <2>1. (IF m_pQueue[held] THEN 1 ELSE 0) \in Nat
      OBVIOUS
  <2>2. ran[held] + (IF m_pQueue[held] THEN 1 ELSE 0) \in Nat
      BY <1>4, <2>1
  <2> QED
      BY <1>2, <1>4, <2>2
<1>6. CmdTypes'
    BY <1>1, <1>2, <1>4, <1>5 DEF CmdTypes
<1>7. RanInv'
  <2> SUFFICES ASSUME NEW d \in Commands
               PROVE  \/ ran'[d] = 0
                      \/ ran'[d] = 1 /\ (~m_pQueue'[d] \/ (workerPc' = "invoked" /\ held' = d))
      BY DEF RanInv
  <2>1. ran[d] = 0 \/ (ran[d] = 1 /\ ~m_pQueue[d])
      BY <1>1, <1>2 DEF RanInv
  <2>2. CASE d # held
    <3>1. ran'[d] = ran[d]
        BY <1>2, <1>4, <2>2
    <3> QED
        BY <1>2, <2>1, <3>1
  <2>3. CASE d = held /\ m_pQueue[held]
    <3>1. ran[d] = 0 /\ ran'[d] = ran[d] + 1
        BY <1>2, <1>4, <2>1, <2>3
    <3> QED
        BY <1>2, <2>3, <3>1
  <2>4. CASE d = held /\ ~m_pQueue[held]
    <3>1. ran'[d] = ran[d]
        BY <1>2, <1>4, <2>4
    <3> QED
        BY <1>2, <2>1, <3>1
  <2> QED
      BY <2>2, <2>3, <2>4
<1> QED
    BY <1>3, <1>6, <1>7 DEF CmdInv

LEMMA InvokedKeepsInv ==
  ASSUME CmdInv, C!Invoked
  PROVE  CmdInv'
<1>1. CmdTypes /\ ListInv /\ AdviseInv /\ RanInv /\ PostponeInv
    BY DEF CmdInv
<1>2. /\ m_time' = m_time /\ m_bStream' = m_bStream /\ ran' = ran
      /\ workerPc = "invoked" /\ workerPc' = "release"
      /\ held' = held /\ ownerPc' = ownerPc /\ newTime' = newTime
    BY DEF C!Invoked
<1>3. PICK c \in Commands : c = held
    BY <1>1, <1>2 DEF CmdTypes
<1>4. CASE m_pQueue[c]
  <2>1. C!Remove(c) /\ m_pQueue' = [m_pQueue EXCEPT ![c] = FALSE]
      BY <1>3, <1>4 DEF C!Invoked
  <2>2. /\ ListInv' /\ AdviseInv' /\ m_StreamTimeOffset' = m_StreamTimeOffset
        /\ \A d : In(d, m_listPresentation)' => In(d, m_listPresentation)
        /\ \A d : In(d, m_listStream)' => In(d, m_listStream)
      BY <1>1, <1>2, <2>1, RemoveKeeps
  <2>3. m_pQueue' \in [Commands -> BOOLEAN] /\ \A d \in Commands :
          (~m_pQueue[d] \/ d = c) => ~m_pQueue'[d]
      BY <1>1, <2>1 DEF CmdTypes
  <2>4. CmdTypes'
      BY <1>1, <1>2, <2>2, <2>3 DEF CmdTypes
  <2>5. RanInv'
      BY <1>1, <1>2, <1>3, <2>3 DEF RanInv
  <2>6. PostponeInv'
      BY <1>1, <1>2, <2>2, PostponeKept
  <2> QED
      BY <2>2, <2>4, <2>5, <2>6 DEF CmdInv
<1>5. CASE ~m_pQueue[c]
  <2>1. UNCHANGED CmdState /\ m_StreamTimeOffset' = m_StreamTimeOffset /\ m_pQueue' = m_pQueue
      BY <1>2, <1>3, <1>5 DEF C!Invoked, C!queueVars, C!adviseVars, C!modeVars, CmdState
  <2>2. ListInv' /\ AdviseInv' /\ PostponeInv'
      BY <1>1, <1>2, <2>1, QueueUnchanged, PostponeSame
  <2>3. CmdTypes'
      BY <1>1, <1>2, <2>1 DEF CmdTypes
  <2>4. RanInv'
      BY <1>1, <1>2, <1>3, <1>5, <2>1 DEF RanInv
  <2> QED
      BY <2>2, <2>3, <2>4 DEF CmdInv
<1> QED
    BY <1>4, <1>5

LEMMA FilterCallKeepsInv ==
  ASSUME CmdInv, C!Filter
  PROVE  CmdInv'
<1>1. CmdTypes /\ ListInv /\ AdviseInv /\ RanInv /\ PostponeInv
    BY DEF CmdInv
<1>2. /\ m_listPresentation' = m_listPresentation /\ m_listStream' = m_listStream
      /\ m_time' = m_time /\ m_bStream' = m_bStream /\ m_pQueue' = m_pQueue /\ ran' = ran
      /\ workerPc' = workerPc /\ held' = held /\ ownerPc' = ownerPc /\ newTime' = newTime
    BY DEF C!Filter, C!SetSyncSource, C!Run, C!EndRun, C!Lists, C!commandVars, C!threadVars
<1>3. ListInv' /\ AdviseInv' /\ m_StreamTimeOffset' \in Nat
  <2>1. m_StreamTimeOffset \in Nat
      BY <1>1 DEF CmdTypes
  <2>2. ASSUME NEW clock \in BOOLEAN, C!SetSyncSource(clock)
        PROVE  ListInv' /\ AdviseInv' /\ m_StreamTimeOffset' \in Nat
    <3> DEFINE advise == IF m_pClock THEN 0 ELSE m_dwAdvise
    <3>1. /\ m_pClock' = clock /\ m_bRunning' = m_bRunning
          /\ m_StreamTimeOffset' = m_StreamTimeOffset
          /\ C!SetTimeAdvise(m_listPresentation, m_listStream, m_time, clock, advise,
                             m_bRunning, m_StreamTimeOffset)
        BY <2>2 DEF C!SetSyncSource
    <3> HIDE DEF advise
    <3> QED
        BY <1>1, <1>2, <2>1, <3>1, AdviseKeeps
  <2>3. ASSUME NEW offset \in Offsets, C!Run(offset)
        PROVE  ListInv' /\ AdviseInv' /\ m_StreamTimeOffset' \in Nat
    <3>1. offset \in Nat
        BY ControlAssumption DEF ControlAssumption
    <3>2. /\ m_pClock' = m_pClock /\ m_bRunning' = TRUE /\ m_StreamTimeOffset' = offset
          /\ C!SetTimeAdvise(m_listPresentation, m_listStream, m_time, m_pClock, m_dwAdvise,
                             TRUE, offset)
        BY <2>3 DEF C!Run
    <3> QED
        BY <1>1, <1>2, <3>1, <3>2, AdviseKeeps
  <2>4. ASSUME C!EndRun
        PROVE  ListInv' /\ AdviseInv' /\ m_StreamTimeOffset' \in Nat
    <3>1. /\ m_pClock' = m_pClock /\ m_bRunning' = FALSE
          /\ m_StreamTimeOffset' = m_StreamTimeOffset
          /\ C!SetTimeAdvise(m_listPresentation, m_listStream, m_time, m_pClock, m_dwAdvise,
                             FALSE, m_StreamTimeOffset)
        BY <2>4 DEF C!EndRun
    <3> QED
        BY <1>1, <1>2, <2>1, <3>1, AdviseKeeps
  <2> QED
      BY <2>2, <2>3, <2>4 DEF C!Filter
<1>4. CmdTypes' /\ RanInv'
    BY <1>1, <1>2, <1>3 DEF CmdTypes, RanInv
<1>5. PostponeInv'
    BY <1>1, <1>2 DEF PostponeInv
<1> QED
    BY <1>3, <1>4, <1>5 DEF CmdInv

LEMMA CmdStepKeepsInv == CmdInv /\ [C!CmdNext]_cmdVars => CmdInv'
<1> SUFFICES ASSUME CmdInv, [C!CmdNext]_cmdVars PROVE CmdInv'
    OBVIOUS
<1>1. ASSUME NEW c \in Commands, C!Release(c) PROVE CmdInv'
  <2>1. UNCHANGED CmdState /\ m_pQueue' = m_pQueue /\ ran' = ran /\ workerPc' = workerPc
        /\ held' = held /\ ownerPc' = ownerPc /\ newTime' = newTime
      BY <1>1 DEF C!Release, C!queueVars, C!adviseVars, C!modeVars, CmdState
  <2> QED
      BY <2>1, QuietStepKeepsInv
<1>2. CASE C!Owner
    BY <1>1, <1>2, NewKeepsInv, CancelKeepsInv, CancelledKeepsInv, PostponeKeepsInv,
       PostponedKeepsInv DEF C!Owner
<1>3. CASE C!Released
  <2>1. UNCHANGED CmdState /\ m_pQueue' = m_pQueue /\ ran' = ran /\ workerPc = "release"
        /\ workerPc' = "idle" /\ ownerPc' = ownerPc /\ newTime' = newTime
      BY <1>3 DEF C!Released, C!queueVars, C!adviseVars, C!modeVars, CmdState
  <2> QED
      BY <2>1, FetchKeepsInv
<1>4. CASE C!Executes
    BY <1>3, <1>4, InvokeKeepsInv, InvokedKeepsInv DEF C!Executes
<1>5. CASE C!Filter
    BY <1>5, FilterCallKeepsInv
<1>6. CASE C!ClockFires
  <2>1. UNCHANGED CmdState /\ m_pQueue' = m_pQueue /\ ran' = ran /\ workerPc' = workerPc
        /\ held' = held /\ ownerPc' = ownerPc /\ newTime' = newTime
      BY <1>6 DEF C!ClockFires, C!Lists, C!commandVars, C!threadVars, C!modeVars, CmdState
  <2> QED
      BY <2>1, QuietStepKeepsInv
<1>7. CASE C!ClockTicks
  <2>1. UNCHANGED CmdState /\ m_pQueue' = m_pQueue /\ ran' = ran /\ workerPc' = workerPc
        /\ held' = held /\ ownerPc' = ownerPc /\ newTime' = newTime
      BY <1>7 DEF C!ClockTicks, C!commandVars, C!queueVars, C!adviseVars, C!threadVars,
                  C!modeVars, CmdState
  <2> QED
      BY <2>1, QuietStepKeepsInv
<1>8. CASE UNCHANGED cmdVars
  <2>1. UNCHANGED CmdState /\ m_pQueue' = m_pQueue /\ ran' = ran /\ workerPc' = workerPc
        /\ held' = held /\ ownerPc' = ownerPc /\ newTime' = newTime
      BY <1>8 DEF cmdVars, CmdState
  <2> QED
      BY <2>1, QuietStepKeepsInv
<1> QED
    BY <1>2, <1>4, <1>5, <1>6, <1>7, <1>8, FetchesKeepInv DEF C!CmdNext

(* The two lists as one: their commands are of two kinds.                  *)
LEMMA BothListsDistinct == ListInv => C!IsInjective(m_listPresentation \o m_listStream)
<1> SUFFICES ASSUME ListInv PROVE C!IsInjective(m_listPresentation \o m_listStream)
    OBVIOUS
<1>1. PICK p : p = m_listPresentation
    OBVIOUS
<1>2. PICK s : s = m_listStream
    OBVIOUS
<1>3. /\ p \in Seq(Commands) /\ Distinct(p)
      /\ \A i \in DOMAIN p : m_bStream[p[i]] = FALSE
    BY <1>1 DEF ListInv, ListOf
<1>4. /\ s \in Seq(Commands) /\ Distinct(s)
      /\ \A i \in DOMAIN s : m_bStream[s[i]] = TRUE
    BY <1>2 DEF ListInv, ListOf
<1>5. /\ p \o s \in Seq(Commands) /\ Len(p \o s) = Len(p) + Len(s)
      /\ \A i \in 1 .. Len(p) + Len(s) :
           (p \o s)[i] = IF i <= Len(p) THEN p[i] ELSE s[i - Len(p)]
    BY <1>3, <1>4, ConcatProperties
<1>6. /\ Len(p) \in Nat /\ DOMAIN p = 1 .. Len(p) /\ Len(s) \in Nat /\ DOMAIN s = 1 .. Len(s)
    BY <1>3, <1>4
<1>7. DOMAIN (p \o s) = 1 .. Len(p) + Len(s)
    BY <1>5
<1> DEFINE r == p \o s
<1> HIDE DEF r
<1>8. \A i \in DOMAIN r : \/ i \in DOMAIN p /\ r[i] = p[i]
                          \/ i - Len(p) \in DOMAIN s /\ r[i] = s[i - Len(p)] /\ i \in Int
    BY <1>5, <1>6, <1>7 DEF r
<1>9. ASSUME NEW i \in DOMAIN r, NEW j \in DOMAIN r, r[i] = r[j] PROVE i = j
  <2>1. CASE i \in DOMAIN p /\ j \in DOMAIN p /\ r[i] = p[i] /\ r[j] = p[j]
      BY <1>3, <1>9, <2>1 DEF Distinct
  <2>2. CASE /\ i - Len(p) \in DOMAIN s /\ r[i] = s[i - Len(p)] /\ i \in Int
             /\ j - Len(p) \in DOMAIN s /\ r[j] = s[j - Len(p)] /\ j \in Int
    <3>1. i - Len(p) = j - Len(p)
        BY <1>4, <1>9, <2>2 DEF Distinct
    <3> QED
        BY <1>6, <2>2, <3>1
  <2>3. \A a \in DOMAIN p, b \in DOMAIN s : p[a] # s[b]
      BY <1>3, <1>4
  <2> QED
      BY <1>8, <1>9, <2>1, <2>2, <2>3
<1>10. C!IsInjective(r)
    BY <1>9 DEF C!IsInjective
<1> QED
    BY <1>1, <1>2, <1>10 DEF r

LEMMA CmdInvImpliesSafety == CmdInv => CmdSafety
<1> SUFFICES ASSUME CmdInv PROVE CmdSafety
    OBVIOUS
<1>1. ListInv /\ RanInv /\ AdviseInv
    BY DEF CmdInv
<1>2. /\ ListOf(m_listPresentation, m_time, m_bStream, FALSE)
      /\ ListOf(m_listStream, m_time, m_bStream, TRUE)
    BY <1>1 DEF ListInv
<1>3. C!InTimeOrder(m_listPresentation) /\ C!InTimeOrder(m_listStream)
    BY <1>2 DEF ListOf, Ordered, C!InTimeOrder
<1>4. C!IsInjective(m_listPresentation \o m_listStream)
    BY <1>1, BothListsDistinct
<1>5. \A c \in Commands : ran[c] <= 1
    BY <1>1 DEF RanInv
<1>6. /\ \A c \in C!Range(m_listPresentation) : ~m_bStream[c]
      /\ \A c \in C!Range(m_listStream) : m_bStream[c]
    BY <1>2 DEF ListOf, C!Range
<1>7. m_pClock /\ C!First # C!none => m_tCurrentAdvise = C!DueTime(C!First, m_time)
    BY <1>1 DEF AdviseInv, Advised, C!First, C!none, C!DueTime
<1> QED
    BY <1>3, <1>4, <1>5, <1>6, <1>7 DEF CmdSafety, C!CmdSafety

(* However commands are queued, cancelled, postponed, fetched and invoked, *)
(* and whatever the clock and the filter do meanwhile: the lists are in    *)
(* order, no command is executed twice, and the advise is the earliest's.  *)
THEOREM CommandsAreSafe == Spec => []CmdSafety
<1>1. ControlInit => CmdInv
    BY CmdInitially DEF ControlInit
<1>2. CmdInv /\ [Next]_vars => CmdInv'
  <2> SUFFICES ASSUME CmdInv, [Next]_vars PROVE CmdInv'
      OBVIOUS
  <2>1. [C!CmdNext]_cmdVars
      BY DEF Next, vars, ButSeek, ButPin, ButTip
  <2> QED
      BY <2>1, CmdStepKeepsInv
<1> QED
    BY <1>1, <1>2, CmdInvImpliesSafety, PTL DEF Spec

(***************************************************************************)
(* TransInPlace                                                            *)
(***************************************************************************)

TipTypes == {"A", "B"}
MaybeType == TipTypes \union {T!Nothing}
MaybeAllocator == T!Allocators \union {T!Nothing}
ChainType == [up : Sources \union {T!NoPeer}, upType : MaybeType,
              sourceAlloc : MaybeAllocator, inAlloc : MaybeAllocator, m_bReadOnly : BOOLEAN,
              down : Sinks \union {T!NoPeer}, downType : MaybeType,
              outAlloc : MaybeAllocator, sinkAlloc : MaybeAllocator]
Requests == [up : MaybeType, down : MaybeType]
Sizes == [T!Allocators -> Nat]
Outcomes == [ok : BOOLEAN, chain : ChainType, bytes : Sizes, alloc : MaybeAllocator]

(* A pin of the transform that is connected has an allocator.              *)
OutputHas(c) == T!DownConnected(c) => c.outAlloc \in T!Allocators
InputHas(c) == T!UpConnected(c) => c.inAlloc \in T!Allocators

(* What the source's choice of an allocator leaves, in a complete chain.   *)
Settled(c, b) ==
  /\ c.sourceAlloc = c.inAlloc /\ c.outAlloc = c.sinkAlloc
  /\ c.m_bReadOnly <=> (c.sourceAlloc = c.up.alloc /\ c.up.readOnly)
  /\ c.inAlloc # c.outAlloc <=> (m_bModifiesData /\ c.m_bReadOnly)
  /\ b[c.inAlloc] = c.up.need /\ b[c.outAlloc] = c.up.need

TipTyped ==
  /\ m_bModifiesData \in BOOLEAN /\ streaming \in BOOLEAN
  /\ chain \in ChainType /\ bytes \in Sizes
  /\ pending \in Requests
  /\ InputHas(chain) /\ OutputHas(chain)

(* Whatever the other side did, its choice is made again: the output pin   *)
(* asks for the input whenever it is connected.                            *)
TipSettles ==
  T!Complete /\ pending.up = T!Nothing =>
    /\ Settled(chain, bytes)
    /\ pending.down = T!Nothing => chain.upType = chain.downType

StreamInv == IF streaming THEN T!Complete /\ T!Resting ELSE last = T!NoSample

TipIInv == TipTyped /\ TipSettles /\ StreamInv /\ T!SamplesAreLegal

-----------------------------------------------------------------------------
LEMMA TipNames ==
  /\ T!Allocators = {"temporary", "own", "sink", "s1", "s2"}
  /\ Limits \in [T!Allocators -> Nat]
  /\ T!Nothing \notin T!Allocators /\ T!Nothing \notin TipTypes
<1>1. Limits = [temporary |-> 2, own |-> 2, sink |-> 1, s1 |-> 2, s2 |-> 2]
  BY DEF Limits
<1>2. DOMAIN Limits = {"temporary", "own", "sink", "s1", "s2"}
  BY <1>1
<1>3. \A a \in DOMAIN Limits : Limits[a] \in Nat
  BY <1>1, <1>2
<1>4. Limits = [a \in DOMAIN Limits |-> Limits[a]]
  BY <1>1, <1>2
<1> QED
  BY <1>2, <1>3, <1>4 DEF T!Allocators, T!Nothing, TipTypes

LEMMA SourcesAre ==
  ASSUME NEW s \in Sources
  PROVE /\ s.alloc \in T!Allocators /\ s.need \in Nat
        /\ s.readOnly \in BOOLEAN
        /\ s.types # {} /\ s # T!NoPeer
<1> DEFINE One(e) == /\ e.types # {} /\ e.alloc \in {"s1", "s2"} /\ e.need \in Nat
                     /\ e.readOnly \in BOOLEAN
<1>0. /\ One(Source("s1", 2, FALSE, FALSE, {"A", "B"})) /\ One(Source("s1", 1, TRUE, FALSE, {"A"}))
      /\ One(Source("s2", 2, FALSE, TRUE, {"A", "B"})) /\ One(Source("s2", 2, TRUE, TRUE, {"B"}))
  <2>1. {"A", "B"} # {} /\ {"A"} # {} /\ {"B"} # {}
    OBVIOUS
  <2> QED
    BY <2>1 DEF Source
<1>1. s.types # {} /\ s.alloc \in {"s1", "s2"} /\ s.need \in Nat /\ s.readOnly \in BOOLEAN
  <2>1. \/ s = Source("s1", 2, FALSE, FALSE, {"A", "B"}) \/ s = Source("s1", 1, TRUE, FALSE, {"A"})
        \/ s = Source("s2", 2, FALSE, TRUE, {"A", "B"}) \/ s = Source("s2", 2, TRUE, TRUE, {"B"})
    BY DEF Sources
  <2> QED
    BY <1>0, <2>1
<1>2. T!NoPeer.types = {}
  BY DEF T!NoPeer
<1> QED
  BY <1>1, <1>2, TipNames

LEMMA SinksAre ==
  ASSUME NEW r \in Sinks
  PROVE r.types # {} /\ r # T!NoPeer
<1>0. {"A", "B"} # {} /\ {"B"} # {}
  OBVIOUS
<1>1. r.types # {}
  <2>1. ASSUME NEW TT, NEW LL, r \in [types : TT, lends : LL, takesAny : BOOLEAN]
        PROVE  r.types \in TT
    BY <2>1
  <2>2. \/ r \in [types : {{"A", "B"}, {"B"}}, lends : {"its own", "the current"},
                  takesAny : BOOLEAN]
        \/ r = [types |-> {"A", "B"}, lends |-> "nothing", takesAny |-> TRUE]
    BY DEF Sinks
  <2>3. CASE r \in [types : {{"A", "B"}, {"B"}}, lends : {"its own", "the current"},
                    takesAny : BOOLEAN]
    <3>1. r.types \in {{"A", "B"}, {"B"}}
      BY <2>1, <2>3
    <3> QED
      BY <3>1, <1>0
  <2>4. CASE r = [types |-> {"A", "B"}, lends |-> "nothing", takesAny |-> TRUE]
    BY <2>4, <1>0
  <2> QED
    BY <2>2, <2>3, <2>4
<1>2. T!NoPeer.types = {}
  BY DEF T!NoPeer
<1> QED
  BY <1>1, <1>2

-----------------------------------------------------------------------------
(* What a call leaves as it was: both peers and both types.                *)
Keeps(c, d) ==
  /\ d.up = c.up /\ d.upType = c.upType
  /\ d.down = c.down /\ d.downType = c.downType

LEMMA SetPropertiesDoes ==
  ASSUME NEW r \in Outcomes, NEW a \in T!Allocators, NEW need \in Nat,
         NEW x \in T!SetProperties(r, a, need)
  PROVE /\ x \in Outcomes /\ x.chain = r.chain /\ x.alloc = r.alloc
        /\ r.ok /\ x.ok => x.bytes = [r.bytes EXCEPT ![a] = need]
        /\ ~r.ok => ~x.ok
<1>1. Limits[a] \in Nat
  BY TipNames
<1>2. CASE need <= Limits[a]
  <2>1. x = [r EXCEPT !.bytes = [r.bytes EXCEPT ![a] = need]]
    BY <1>2 DEF T!SetProperties
  <2>2. [r.bytes EXCEPT ![a] = need] \in Sizes
    BY DEF Outcomes, Sizes
  <2> QED
    BY <2>1, <2>2 DEF Outcomes
<1>3. CASE ~(need <= Limits[a])
  <2>1. x = [[r EXCEPT !.bytes = [r.bytes EXCEPT ![a] = Limits[a]]] EXCEPT !.ok = FALSE]
    BY <1>3 DEF T!SetProperties, T!Fails
  <2>2. [r.bytes EXCEPT ![a] = Limits[a]] \in Sizes
    BY <1>1 DEF Outcomes, Sizes
  <2> QED
    BY <2>1, <2>2 DEF Outcomes
<1> QED
  BY <1>2, <1>3

LEMMA FailureIsOutcome ==
  ASSUME NEW r \in Outcomes, NEW x \in T!Fails(r)
  PROVE x \in Outcomes /\ ~x.ok /\ x.chain = r.chain /\ x.bytes = r.bytes /\ x.alloc = r.alloc
BY DEF T!Fails, Outcomes

(* Only the allocators of the output's connection differ.                  *)
KeepsUp(c, d) ==
  /\ Keeps(c, d)
  /\ d.sourceAlloc = c.sourceAlloc /\ d.inAlloc = c.inAlloc /\ d.m_bReadOnly = c.m_bReadOnly

LEMMA SinkTakes ==
  ASSUME NEW c \in ChainType, NEW a \in MaybeAllocator
  PROVE /\ [c EXCEPT !.sinkAlloc = a] \in ChainType
        /\ [c EXCEPT !.sinkAlloc = a].sinkAlloc = a
        /\ [c EXCEPT !.sinkAlloc = a].outAlloc = c.outAlloc
        /\ KeepsUp(c, [c EXCEPT !.sinkAlloc = a])
BY DEF ChainType, KeepsUp, Keeps

LEMMA OutputTakes ==
  ASSUME NEW c \in ChainType, NEW a \in MaybeAllocator
  PROVE /\ [c EXCEPT !.outAlloc = a] \in ChainType
        /\ [c EXCEPT !.outAlloc = a].outAlloc = a
        /\ [c EXCEPT !.outAlloc = a].sinkAlloc = c.sinkAlloc
        /\ KeepsUp(c, [c EXCEPT !.outAlloc = a])
BY DEF ChainType, KeepsUp, Keeps

LEMMA SinkLends ==
  ASSUME NEW r \in Outcomes, T!DownConnected(r.chain), r.ok, NEW x \in T!SinkGetAllocator(r)
  PROVE /\ x \in Outcomes /\ KeepsUp(r.chain, x.chain) /\ x.bytes = r.bytes
        /\ x.chain.outAlloc = r.chain.outAlloc
        /\ x.ok => x.alloc \in T!Allocators
<1> DEFINE c == r.chain
           a == IF c.sinkAlloc = T!Nothing THEN "sink" ELSE c.sinkAlloc
<1>0. c \in ChainType /\ KeepsUp(c, c) /\ "sink" \in T!Allocators
  BY TipNames DEF Outcomes, KeepsUp, Keeps
<1>1. CASE c.down.lends = "its own"
  <2>1. x = [r EXCEPT !.alloc = "sink"]
    BY <1>1 DEF T!SinkGetAllocator
  <2> QED
    BY <2>1, <1>0 DEF Outcomes, MaybeAllocator
<1>2. CASE c.down.lends = "nothing"
  <2>1. x \in T!Fails(r)
    BY <1>2 DEF T!SinkGetAllocator
  <2> QED
    BY <2>1, <1>0, FailureIsOutcome
<1>3. CASE c.down.lends # "its own" /\ c.down.lends # "nothing"
  <2>1. x = [r EXCEPT !.alloc = a, !.chain = [c EXCEPT !.sinkAlloc = a]]
    BY <1>3 DEF T!SinkGetAllocator
  <2>2. a \in T!Allocators /\ a \in MaybeAllocator
    BY <1>0 DEF ChainType, MaybeAllocator
  <2> HIDE DEF a
  <2>3. [c EXCEPT !.sinkAlloc = a] \in ChainType
    BY <1>0, <2>2, SinkTakes
  <2>4. /\ x \in Outcomes /\ x.chain = [c EXCEPT !.sinkAlloc = a] /\ x.bytes = r.bytes
        /\ x.alloc = a
    BY <2>1, <2>2, <2>3 DEF Outcomes
  <2> QED
    BY <2>4, <2>2, <1>0, SinkTakes
<1> QED
  BY <1>1, <1>2, <1>3

LEMMA SinkIsTold ==
  ASSUME NEW r \in Outcomes, r.ok, NEW a \in T!Allocators, NEW x \in T!SinkNotify(r, a)
  PROVE /\ x \in Outcomes /\ KeepsUp(r.chain, x.chain)
        /\ x.bytes = r.bytes /\ x.alloc = r.alloc /\ x.chain.outAlloc = r.chain.outAlloc
        /\ x.ok => x.chain.sinkAlloc = a
<1> DEFINE c == r.chain
<1>0. c \in ChainType /\ KeepsUp(c, c) /\ a \in MaybeAllocator
  BY DEF Outcomes, KeepsUp, Keeps, MaybeAllocator
<1>1. CASE x = [r EXCEPT !.chain = [c EXCEPT !.sinkAlloc = a]]
  <2>1. [c EXCEPT !.sinkAlloc = a] \in ChainType
    BY <1>0, SinkTakes
  <2>2. /\ x \in Outcomes /\ x.chain = [c EXCEPT !.sinkAlloc = a] /\ x.bytes = r.bytes
        /\ x.alloc = r.alloc
    BY <1>1, <2>1 DEF Outcomes
  <2> QED
    BY <2>2, <1>0, SinkTakes
<1>2. CASE x \in T!Fails(r)
  BY <1>0, <1>2, FailureIsOutcome
<1> QED
  BY <1>1, <1>2 DEF T!SinkNotify

LEMMA OutputIsSet ==
  ASSUME NEW r \in Outcomes, r.alloc \in T!Allocators, NEW x \in T!SetAllocator(r)
  PROVE /\ x \in Outcomes /\ KeepsUp(r.chain, x.chain)
        /\ x.bytes = r.bytes /\ x.alloc = r.alloc /\ x.ok = r.ok
        /\ x.chain.outAlloc = r.alloc /\ x.chain.sinkAlloc = r.chain.sinkAlloc
<1>1. x = [r EXCEPT !.chain = [r.chain EXCEPT !.outAlloc = r.alloc]]
  BY DEF T!SetAllocator
<1>2. r.chain \in ChainType /\ r.alloc \in MaybeAllocator
  BY DEF Outcomes
<1>3. [r.chain EXCEPT !.outAlloc = r.alloc] \in ChainType
  BY <1>2, OutputTakes
<1>4. /\ x \in Outcomes /\ x.chain = [r.chain EXCEPT !.outAlloc = r.alloc]
      /\ x.bytes = r.bytes /\ x.alloc = r.alloc /\ x.ok = r.ok
  BY <1>1, <1>3 DEF Outcomes
<1> QED
  BY <1>4, <1>2, OutputTakes

LEMMA KeepsUpTrans ==
  ASSUME NEW c, NEW d, NEW e, KeepsUp(c, d), KeepsUp(d, e)
  PROVE KeepsUp(c, e)
BY DEF KeepsUp, Keeps

(* The sink is told first: the output changes only when it agreed.         *)
LEMMA PassesOn ==
  ASSUME NEW r \in Outcomes, r.ok, r.alloc \in T!Allocators, NEW x \in T!PassAllocatorOn(r)
  PROVE /\ x \in Outcomes /\ KeepsUp(r.chain, x.chain)
        /\ x.bytes = r.bytes /\ x.alloc = r.alloc
        /\ x.ok => x.chain.outAlloc = r.alloc /\ x.chain.sinkAlloc = r.alloc
        /\ x.chain.outAlloc \in {r.chain.outAlloc, r.alloc}
<1>1. PICK n \in T!SinkNotify(r, r.alloc) : IF n.ok THEN x \in T!SetAllocator(n) ELSE x = n
  BY DEF T!PassAllocatorOn, T!AndThen
<1>2. /\ n \in Outcomes /\ KeepsUp(r.chain, n.chain)
      /\ n.bytes = r.bytes /\ n.alloc = r.alloc /\ n.chain.outAlloc = r.chain.outAlloc
      /\ n.ok => n.chain.sinkAlloc = r.alloc
  BY <1>1, SinkIsTold
<1>3. CASE n.ok
  <2>1. /\ x \in Outcomes /\ KeepsUp(n.chain, x.chain)
        /\ x.bytes = n.bytes /\ x.alloc = n.alloc
        /\ x.chain.outAlloc = n.alloc /\ x.chain.sinkAlloc = n.chain.sinkAlloc
    BY <1>1, <1>2, <1>3, OutputIsSet
  <2> QED
    BY <2>1, <1>2, <1>3, KeepsUpTrans
<1>4. CASE ~n.ok
  BY <1>1, <1>2, <1>4
<1> QED
  BY <1>3, <1>4

(* A copying filter keeps the allocator of its output, as large as the     *)
(* one of its input.                                                       *)
LEMMA OutputIsKept ==
  ASSUME NEW r \in Outcomes, r.ok, r.alloc \in T!Allocators, r.chain.outAlloc \in T!Allocators,
         NEW x \in T!KeepOutputAllocator(r)
  PROVE /\ x \in Outcomes /\ KeepsUp(r.chain, x.chain)
        /\ x.alloc = r.alloc /\ x.chain.outAlloc = r.chain.outAlloc
        /\ x.ok => /\ x.chain.sinkAlloc = x.chain.outAlloc /\ x.chain.outAlloc # r.alloc
                   /\ x.bytes[r.alloc] = r.bytes[r.alloc]
                   /\ x.bytes[x.chain.outAlloc] = r.bytes[r.alloc]
<1> DEFINE a == r.chain.outAlloc
<1>1. CASE r.alloc = a
  <2>1. x \in T!Fails(r) /\ KeepsUp(r.chain, r.chain)
    BY <1>1 DEF T!KeepOutputAllocator, KeepsUp, Keeps
  <2> QED
    BY <2>1, FailureIsOutcome
<1>2. CASE r.alloc # a
  <2>1. PICK n \in T!SetProperties(r, a, r.bytes[r.alloc]) :
          IF n.ok THEN x \in T!NotifyOutput(n) ELSE x = n
    BY <1>2 DEF T!KeepOutputAllocator, T!AndThen
  <2>2. r.bytes \in Sizes /\ r.bytes[r.alloc] \in Nat
    BY DEF Outcomes, Sizes
  <2>3. /\ n \in Outcomes /\ n.chain = r.chain /\ n.alloc = r.alloc
        /\ n.ok => n.bytes = [r.bytes EXCEPT ![a] = r.bytes[r.alloc]]
    BY <2>1, <2>2, SetPropertiesDoes
  <2>4. KeepsUp(r.chain, n.chain)
    BY <2>3 DEF KeepsUp, Keeps
  <2>5. CASE n.ok
    <3>1. x \in T!SinkNotify(n, a)
      BY <2>1, <2>3, <2>5 DEF T!NotifyOutput
    <3>2. /\ x \in Outcomes /\ KeepsUp(n.chain, x.chain)
          /\ x.bytes = n.bytes /\ x.alloc = n.alloc /\ x.chain.outAlloc = n.chain.outAlloc
          /\ x.ok => x.chain.sinkAlloc = a
      BY <2>3, <2>5, <3>1, SinkIsTold
    <3>3. n.bytes[r.alloc] = r.bytes[r.alloc] /\ n.bytes[a] = r.bytes[r.alloc]
      BY <1>2, <2>2, <2>3, <2>5 DEF Sizes
    <3> QED
      BY <1>2, <2>3, <3>2, <3>3
  <2>6. CASE ~n.ok
    BY <2>1, <2>3, <2>4, <2>6
  <2> QED
    BY <2>5, <2>6
<1> QED
  BY <1>1, <1>2

(* What every call on the input's side promises: nothing of the peers or   *)
(* the types changes and the output still has its allocator.               *)
Holds(r, x) == x \in Outcomes /\ Keeps(r.chain, x.chain) /\ OutputHas(x.chain)

LEMMA HoldsTrans ==
  ASSUME NEW r, NEW y, NEW x, Holds(r, y), Holds(y, x)
  PROVE Holds(r, x)
BY DEF Holds, Keeps

LEMMA InputIsSet ==
  ASSUME NEW r \in Outcomes, r.alloc \in T!Allocators, OutputHas(r.chain),
         NEW x \in T!UseForInput(r)
  PROVE /\ Holds(r, x) /\ x.ok = r.ok /\ x.alloc = r.alloc /\ x.bytes = r.bytes
        /\ x.chain.inAlloc = r.alloc /\ x.chain.m_bReadOnly = r.chain.m_bReadOnly
        /\ x.chain.outAlloc = r.chain.outAlloc /\ x.chain.sinkAlloc = r.chain.sinkAlloc
<1> DEFINE c == r.chain
           d == [c EXCEPT !.inAlloc = r.alloc]
<1>1. x = [r EXCEPT !.chain = d]
  BY DEF T!UseForInput
<1>2. c \in ChainType /\ r.alloc \in MaybeAllocator
  BY DEF Outcomes
<1>3. /\ d \in ChainType /\ d.inAlloc = r.alloc /\ d.m_bReadOnly = c.m_bReadOnly
      /\ d.outAlloc = c.outAlloc /\ d.sinkAlloc = c.sinkAlloc
      /\ d.up = c.up /\ d.upType = c.upType /\ d.down = c.down /\ d.downType = c.downType
  BY <1>2 DEF ChainType
<1> HIDE DEF d
<1>4. x \in Outcomes /\ x.chain = d /\ x.ok = r.ok /\ x.alloc = r.alloc /\ x.bytes = r.bytes
  BY <1>1, <1>3 DEF Outcomes
<1> QED
  BY <1>3, <1>4 DEF Holds, Keeps, OutputHas, T!DownConnected

(* NotifyAllocator, when it succeeds: both sides use the input's allocator *)
(* unless the samples of a read-only one are to be modified.               *)
LEMMA Notified ==
  ASSUME m_bModifiesData \in BOOLEAN, NEW r \in Outcomes, r.ok, r.alloc \in T!Allocators,
         OutputHas(r.chain), NEW readOnly \in BOOLEAN, NEW x \in T!NotifyAllocator(r, readOnly)
  PROVE /\ Holds(r, x) /\ x.alloc = r.alloc
        /\ x.ok =>
             /\ x.chain.m_bReadOnly = readOnly /\ x.chain.inAlloc = r.alloc
             /\ x.bytes[r.alloc] = r.bytes[r.alloc]
             /\ T!DownConnected(r.chain) =>
                  /\ x.chain.outAlloc = x.chain.sinkAlloc
                  /\ x.chain.outAlloc # r.alloc <=> (readOnly /\ m_bModifiesData)
                  /\ x.bytes[x.chain.outAlloc] = r.bytes[r.alloc]
<1> DEFINE c == [r.chain EXCEPT !.m_bReadOnly = readOnly]
           n == [r EXCEPT !.chain = c]
           S == CASE ~T!DownConnected(n.chain) -> {n}
                  [] T!DownConnected(n.chain) /\ readOnly /\ m_bModifiesData ->
                       T!KeepOutputAllocator(n)
                  [] OTHER -> T!PassAllocatorOn(n)
<1>1. /\ c \in ChainType /\ c.m_bReadOnly = readOnly /\ c.outAlloc = r.chain.outAlloc
      /\ c.up = r.chain.up /\ c.upType = r.chain.upType
      /\ c.down = r.chain.down /\ c.downType = r.chain.downType
  BY DEF Outcomes, ChainType
<1>2. n \in Outcomes /\ n.chain = c /\ n.ok /\ n.alloc = r.alloc /\ n.bytes = r.bytes
  BY <1>1 DEF Outcomes
<1>3. PICK y \in S : IF y.ok THEN x \in T!UseForInput(y) ELSE x = y
  BY DEF T!NotifyAllocator, T!AndThen
<1>4. Keeps(r.chain, n.chain) /\ (T!DownConnected(n.chain) <=> T!DownConnected(r.chain))
      /\ OutputHas(n.chain) /\ n.chain.m_bReadOnly = readOnly
  BY <1>1, <1>2 DEF Keeps, OutputHas, T!DownConnected
<1> HIDE DEF c, n
<1>5. /\ y \in Outcomes /\ y.alloc = r.alloc /\ Keeps(n.chain, y.chain)
      /\ y.chain.m_bReadOnly = readOnly /\ OutputHas(y.chain)
      /\ y.ok =>
           /\ y.bytes[r.alloc] = r.bytes[r.alloc]
           /\ T!DownConnected(r.chain) =>
                /\ y.chain.outAlloc = y.chain.sinkAlloc
                /\ y.chain.outAlloc # r.alloc <=> (readOnly /\ m_bModifiesData)
                /\ y.bytes[y.chain.outAlloc] = r.bytes[r.alloc]
  <2>1. CASE ~T!DownConnected(n.chain)
    <3>1. y = n
      BY <1>3, <2>1
    <3> QED
      BY <1>2, <1>4, <2>1, <3>1 DEF Keeps
  <2>2. CASE T!DownConnected(n.chain) /\ readOnly /\ m_bModifiesData
    <3>1. y \in T!KeepOutputAllocator(n)
      BY <1>3, <2>2
    <3>2. n.chain.outAlloc \in T!Allocators
      BY <1>4, <2>2 DEF OutputHas
    <3>3. /\ y \in Outcomes /\ KeepsUp(n.chain, y.chain)
          /\ y.alloc = n.alloc /\ y.chain.outAlloc = n.chain.outAlloc
          /\ y.ok => /\ y.chain.sinkAlloc = y.chain.outAlloc /\ y.chain.outAlloc # n.alloc
                     /\ y.bytes[n.alloc] = n.bytes[n.alloc]
                     /\ y.bytes[y.chain.outAlloc] = n.bytes[n.alloc]
      BY <1>2, <3>1, <3>2, OutputIsKept
    <3> QED
      BY <1>2, <1>4, <2>2, <3>2, <3>3 DEF KeepsUp, OutputHas
  <2>3. CASE T!DownConnected(n.chain) /\ ~(readOnly /\ m_bModifiesData)
    <3>1. y \in T!PassAllocatorOn(n)
      BY <1>3, <2>3
    <3>2. n.chain.outAlloc \in T!Allocators
      BY <1>4, <2>3 DEF OutputHas
    <3>3. /\ y \in Outcomes /\ KeepsUp(n.chain, y.chain)
          /\ y.bytes = n.bytes /\ y.alloc = n.alloc
          /\ y.ok => y.chain.outAlloc = n.alloc /\ y.chain.sinkAlloc = n.alloc
          /\ y.chain.outAlloc \in {n.chain.outAlloc, n.alloc}
      BY <1>2, <3>1, PassesOn
    <3> QED
      BY <1>2, <1>4, <2>3, <3>2, <3>3 DEF KeepsUp, OutputHas
  <2> QED
    BY <2>1, <2>2, <2>3
<1>6. Holds(r, y) /\ (T!DownConnected(y.chain) <=> T!DownConnected(r.chain))
  BY <1>4, <1>5 DEF Holds, Keeps, T!DownConnected
<1>7. CASE y.ok
  <2>1. /\ Holds(y, x) /\ x.ok = y.ok /\ x.alloc = y.alloc /\ x.bytes = y.bytes
        /\ x.chain.inAlloc = y.alloc /\ x.chain.m_bReadOnly = y.chain.m_bReadOnly
        /\ x.chain.outAlloc = y.chain.outAlloc /\ x.chain.sinkAlloc = y.chain.sinkAlloc
    BY <1>3, <1>5, <1>7, InputIsSet
  <2>2. Holds(r, x)
    BY <1>6, <2>1, HoldsTrans
  <2> QED
    BY <1>5, <1>7, <2>1, <2>2
<1>8. CASE ~y.ok
  BY <1>3, <1>5, <1>6, <1>8
<1> QED
  BY <1>7, <1>8

(* The source offers an allocator: with the size it needs, and the chain   *)
(* is settled when it is accepted.                                         *)
LEMMA Offered ==
  ASSUME m_bModifiesData \in BOOLEAN, NEW r \in Outcomes, r.ok, r.alloc \in T!Allocators,
         T!UpConnected(r.chain), OutputHas(r.chain), NEW x \in T!OfferToTransform(r)
  PROVE /\ Holds(r, x)
        /\ x.ok => /\ x.chain.inAlloc \in T!Allocators
                   /\ T!DownConnected(x.chain) => Settled(x.chain, x.bytes)
<1> DEFINE a == r.alloc
           s == r.chain.up
           readOnly(c) == a = c.up.alloc /\ c.up.readOnly
<1>1. s \in Sources
  BY DEF Outcomes, ChainType, T!UpConnected
<1>2. s.need \in Nat /\ s.readOnly \in BOOLEAN
  BY <1>1, SourcesAre
<1>3. PICK y \in T!SetProperties(r, a, s.need) : IF y.ok THEN x \in T!SourceNotifies(y) ELSE x = y
  BY DEF T!OfferToTransform, T!AndThen
<1>4. /\ y \in Outcomes /\ y.chain = r.chain /\ y.alloc = a
      /\ y.ok => y.bytes = [r.bytes EXCEPT ![a] = s.need]
  BY <1>2, <1>3, SetPropertiesDoes
<1>5. Holds(r, y)
  BY <1>4 DEF Holds, Keeps
<1>6. CASE ~y.ok
  BY <1>3, <1>5, <1>6
<1>7. CASE y.ok
  <2> DEFINE ro == y.alloc = y.chain.up.alloc /\ y.chain.up.readOnly
  <2>1. PICK n \in T!NotifyAllocator(y, ro) :
          IF n.ok THEN x = [n EXCEPT !.chain = [n.chain EXCEPT !.sourceAlloc = n.alloc]] ELSE x = n
    BY <1>3, <1>7 DEF T!SourceNotifies, T!AndThen
  <2>2. ro \in BOOLEAN /\ (ro <=> a = s.alloc /\ s.readOnly)
    BY <1>2, <1>4
  <2> HIDE DEF ro
  <2>3. y.alloc \in T!Allocators /\ OutputHas(y.chain)
    BY <1>4
  <2>4. /\ Holds(y, n) /\ n.alloc = y.alloc
        /\ n.ok =>
             /\ n.chain.m_bReadOnly = ro /\ n.chain.inAlloc = y.alloc
             /\ n.bytes[y.alloc] = y.bytes[y.alloc]
             /\ T!DownConnected(y.chain) =>
                  /\ n.chain.outAlloc = n.chain.sinkAlloc
                  /\ n.chain.outAlloc # y.alloc <=> (ro /\ m_bModifiesData)
                  /\ n.bytes[n.chain.outAlloc] = y.bytes[y.alloc]
    BY <1>4, <1>7, <2>1, <2>2, <2>3, Notified
  <2>5. Holds(r, n)
    BY <1>5, <2>4, HoldsTrans
  <2>6. CASE ~n.ok
    BY <2>1, <2>5, <2>6
  <2>7. CASE n.ok
    <3> DEFINE d == [n.chain EXCEPT !.sourceAlloc = n.alloc]
    <3>1. n \in Outcomes /\ n.chain \in ChainType /\ n.alloc = a /\ n.alloc \in MaybeAllocator
      BY <1>4, <2>4 DEF Holds, Outcomes
    <3>2. /\ d \in ChainType /\ d.sourceAlloc = a /\ d.inAlloc = n.chain.inAlloc
          /\ d.m_bReadOnly = n.chain.m_bReadOnly
          /\ d.outAlloc = n.chain.outAlloc /\ d.sinkAlloc = n.chain.sinkAlloc
          /\ d.up = n.chain.up /\ d.upType = n.chain.upType
          /\ d.down = n.chain.down /\ d.downType = n.chain.downType
      BY <3>1 DEF ChainType
    <3> HIDE DEF d
    <3>3. x = [n EXCEPT !.chain = d]
      BY <2>1, <2>7 DEF d
    <3>4. x \in Outcomes /\ x.chain = d /\ x.bytes = n.bytes
      BY <3>1, <3>2, <3>3 DEF Outcomes
    <3>5. Holds(r, x)
      BY <2>5, <3>2, <3>4 DEF Holds, Keeps, OutputHas, T!DownConnected
    <3>6. y.bytes[a] = s.need
      BY <1>2, <1>4, <1>7 DEF Outcomes, Sizes
    <3>7. x.chain.up = s /\ (T!DownConnected(x.chain) <=> T!DownConnected(y.chain))
      BY <1>4, <3>5 DEF Holds, Keeps, T!DownConnected
    <3>8. d.inAlloc = a /\ (d.m_bReadOnly <=> a = s.alloc /\ s.readOnly)
      BY <1>4, <2>2, <2>4, <2>7, <3>2
    <3>9. ASSUME T!DownConnected(x.chain)
          PROVE  Settled(x.chain, x.bytes)
      <4>1. /\ n.chain.outAlloc = n.chain.sinkAlloc
            /\ n.chain.outAlloc # a <=> (ro /\ m_bModifiesData)
            /\ n.bytes[n.chain.outAlloc] = s.need /\ n.bytes[a] = s.need
        BY <1>4, <2>4, <2>7, <3>6, <3>7, <3>9
      <4>2. d.inAlloc # d.outAlloc <=> (m_bModifiesData /\ d.m_bReadOnly)
        BY <4>1, <3>2, <3>8, <2>2
      <4>3. d.up = s
        BY <3>4, <3>7
      <4> QED
        BY <3>2, <3>4, <3>8, <4>1, <4>2, <4>3 DEF Settled
    <3> QED
      BY <3>4, <3>5, <3>8, <3>9
  <2> QED
    BY <2>6, <2>7
<1> QED
  BY <1>6, <1>7

LEMMA InputLends ==
  ASSUME NEW r \in Outcomes, r.ok, OutputHas(r.chain), NEW x \in T!GetAllocator(r)
  PROVE Holds(r, x) /\ (x.ok => x.alloc \in T!Allocators)
<1>1. CASE T!DownConnected(r.chain)
  <2>1. PICK y \in T!SinkGetAllocator(r) : IF y.ok THEN x \in T!SetAllocator(y) ELSE x = y
    BY <1>1 DEF T!GetAllocator, T!AndThen
  <2>2. /\ y \in Outcomes /\ KeepsUp(r.chain, y.chain)
        /\ y.chain.outAlloc = r.chain.outAlloc
        /\ y.ok => y.alloc \in T!Allocators
    BY <1>1, <2>1, SinkLends
  <2>3. Holds(r, y)
    BY <2>2 DEF Holds, KeepsUp, Keeps, OutputHas, T!DownConnected
  <2>4. CASE y.ok
    <3>1. /\ x \in Outcomes /\ KeepsUp(y.chain, x.chain) /\ x.alloc = y.alloc
          /\ x.chain.outAlloc = y.alloc
      BY <2>1, <2>2, <2>4, OutputIsSet
    <3>2. Holds(y, x)
      BY <2>2, <2>4, <3>1 DEF Holds, KeepsUp, OutputHas
    <3> QED
      BY <2>2, <2>3, <2>4, <3>1, <3>2, HoldsTrans
  <2>5. CASE ~y.ok
    BY <2>1, <2>3, <2>5
  <2> QED
    BY <2>4, <2>5
<1>2. CASE ~T!DownConnected(r.chain)
  <2> DEFINE a == IF r.chain.inAlloc = T!Nothing THEN "temporary" ELSE r.chain.inAlloc
             d == [r.chain EXCEPT !.inAlloc = a]
  <2>1. x = [r EXCEPT !.alloc = a, !.chain = d]
    BY <1>2 DEF T!GetAllocator
  <2>2. r.chain \in ChainType /\ a \in T!Allocators /\ a \in MaybeAllocator
    BY TipNames DEF Outcomes, ChainType, MaybeAllocator
  <2> HIDE DEF a
  <2>3. /\ d \in ChainType /\ d.up = r.chain.up /\ d.upType = r.chain.upType
        /\ d.down = r.chain.down /\ d.downType = r.chain.downType
    BY <2>2 DEF ChainType
  <2> HIDE DEF d
  <2>4. x \in Outcomes /\ x.chain = d /\ x.alloc = a
    BY <2>1, <2>2, <2>3 DEF Outcomes
  <2> QED
    BY <1>2, <2>2, <2>3, <2>4 DEF Holds, Keeps, OutputHas, T!DownConnected
<1> QED
  BY <1>1, <1>2

(* The source has settled on an allocator, or both of its offers failed.   *)
LEMMA Decided ==
  ASSUME m_bModifiesData \in BOOLEAN, NEW r \in Outcomes, r.ok,
         T!UpConnected(r.chain), OutputHas(r.chain), NEW x \in T!SourceDecides(r)
  PROVE /\ Holds(r, x)
        /\ x.ok => /\ x.chain.inAlloc \in T!Allocators
                   /\ T!DownConnected(x.chain) => Settled(x.chain, x.bytes)
<1> DEFINE S == IF r.chain.up.insists THEN T!Fails(r)
                ELSE T!AndThen(T!GetAllocator(r), T!OfferToTransform)
           Own(z) == [[z EXCEPT !.ok = TRUE] EXCEPT !.alloc = [z EXCEPT !.ok = TRUE].chain.up.alloc]
<1>1. PICK y \in S : IF y.ok THEN x = y ELSE x \in T!OfferToTransform(Own(y))
  BY DEF T!SourceDecides, T!OrElse
<1>2. /\ Holds(r, y)
      /\ y.ok => /\ y.chain.inAlloc \in T!Allocators
                 /\ T!DownConnected(y.chain) => Settled(y.chain, y.bytes)
  <2>1. CASE r.chain.up.insists
    <3>1. y \in T!Fails(r)
      BY <1>1, <2>1
    <3>2. y \in Outcomes /\ ~y.ok /\ y.chain = r.chain
      BY <3>1, FailureIsOutcome
    <3> QED
      BY <3>2 DEF Holds, Keeps
  <2>2. CASE ~r.chain.up.insists
    <3>1. PICK n \in T!GetAllocator(r) : IF n.ok THEN y \in T!OfferToTransform(n) ELSE y = n
      BY <1>1, <2>2 DEF T!AndThen
    <3>2. Holds(r, n) /\ (n.ok => n.alloc \in T!Allocators)
      BY <3>1, InputLends
    <3>3. n \in Outcomes /\ T!UpConnected(n.chain) /\ OutputHas(n.chain)
      BY <3>2 DEF Holds, Keeps, T!UpConnected
    <3>4. CASE n.ok
      <4>1. /\ Holds(n, y)
            /\ y.ok => /\ y.chain.inAlloc \in T!Allocators
                       /\ T!DownConnected(y.chain) => Settled(y.chain, y.bytes)
        BY <3>1, <3>2, <3>3, <3>4, Offered
      <4> QED
        BY <3>2, <4>1, HoldsTrans
    <3>5. CASE ~n.ok
      BY <3>1, <3>2, <3>5
    <3> QED
      BY <3>4, <3>5
  <2> QED
    BY <2>1, <2>2
<1>3. CASE y.ok
  BY <1>1, <1>2, <1>3
<1>4. CASE ~y.ok
  <2> DEFINE z == Own(y)
  <2>1. y \in Outcomes /\ T!UpConnected(y.chain) /\ OutputHas(y.chain)
    BY <1>2 DEF Holds, Keeps, T!UpConnected
  <2>2. y.chain.up \in Sources
    BY <2>1 DEF Outcomes, ChainType, T!UpConnected
  <2>3. y.chain.up.alloc \in T!Allocators
    BY <2>2, SourcesAre
  <2>4. z = [y EXCEPT !.ok = TRUE, !.alloc = y.chain.up.alloc]
    BY <2>1 DEF Outcomes
  <2>5. x \in T!OfferToTransform(z)
    BY <1>1, <1>4
  <2> HIDE DEF z
  <2>6. z \in Outcomes /\ z.ok /\ z.alloc = y.chain.up.alloc /\ z.chain = y.chain
    BY <2>1, <2>3, <2>4 DEF Outcomes, MaybeAllocator
  <2>7. /\ Holds(z, x)
        /\ x.ok => /\ x.chain.inAlloc \in T!Allocators
                   /\ T!DownConnected(x.chain) => Settled(x.chain, x.bytes)
    BY <2>1, <2>3, <2>5, <2>6, Offered
  <2>8. Holds(r, x)
    BY <1>2, <2>6, <2>7 DEF Holds, Keeps
  <2> QED
    BY <2>7, <2>8
<1> QED
  BY <1>3, <1>4

LEMMA OfferedToSink ==
  ASSUME NEW r \in Outcomes, r.ok, r.alloc \in T!Allocators, InputHas(r.chain),
         NEW x \in T!OfferToSink(r)
  PROVE x \in Outcomes /\ KeepsUp(r.chain, x.chain) /\ (x.ok => x.chain.outAlloc \in T!Allocators)
<1> DEFINE size == IF T!UpConnected(r.chain) THEN r.bytes[r.chain.inAlloc] ELSE 1
<1>1. PICK y \in T!SetProperties(r, r.alloc, size) :
        IF y.ok THEN x \in T!PassAllocatorOn(y) ELSE x = y
  BY DEF T!OfferToSink, T!AndThen, T!DecideBufferSize
<1>2. size \in Nat
  BY DEF InputHas, Outcomes, Sizes
<1> HIDE DEF size
<1>3. /\ y \in Outcomes /\ y.chain = r.chain /\ y.alloc = r.alloc
      /\ y.ok => y.bytes = [r.bytes EXCEPT ![r.alloc] = size]
  BY <1>1, <1>2, SetPropertiesDoes
<1>4. KeepsUp(r.chain, r.chain)
  BY DEF KeepsUp, Keeps
<1>5. CASE y.ok
  <2>1. /\ x \in Outcomes /\ KeepsUp(y.chain, x.chain)
        /\ x.ok => x.chain.outAlloc = y.alloc
    BY <1>1, <1>3, <1>5, PassesOn
  <2> QED
    BY <1>3, <2>1
<1>6. CASE ~y.ok
  BY <1>1, <1>3, <1>4, <1>6
<1> QED
  BY <1>5, <1>6

(* The output pin's choice leaves the input's side alone.                  *)
LEMMA OutputDecided ==
  ASSUME NEW r \in Outcomes, r.ok, T!DownConnected(r.chain), InputHas(r.chain),
         NEW x \in T!DecideAllocator(r)
  PROVE x \in Outcomes /\ KeepsUp(r.chain, x.chain) /\ (x.ok => x.chain.outAlloc \in T!Allocators)
<1> DEFINE Own(y) == [[y EXCEPT !.ok = TRUE] EXCEPT !.alloc = "own"]
<1>1. PICK y \in T!AndThen(T!SinkGetAllocator(r), T!OfferToSink) :
        IF y.ok THEN x = y ELSE x \in T!OfferToSink(Own(y))
  BY DEF T!DecideAllocator, T!OrElse, T!OfferOwn
<1>2. y \in Outcomes /\ KeepsUp(r.chain, y.chain) /\ (y.ok => y.chain.outAlloc \in T!Allocators)
  <2>1. PICK n \in T!SinkGetAllocator(r) : IF n.ok THEN y \in T!OfferToSink(n) ELSE y = n
    BY <1>1 DEF T!AndThen
  <2>2. n \in Outcomes /\ KeepsUp(r.chain, n.chain) /\ (n.ok => n.alloc \in T!Allocators)
    BY <2>1, SinkLends
  <2>3. InputHas(n.chain)
    BY <2>2 DEF InputHas, KeepsUp, Keeps, T!UpConnected
  <2>4. CASE n.ok
    <3>1. /\ y \in Outcomes /\ KeepsUp(n.chain, y.chain)
          /\ y.ok => y.chain.outAlloc \in T!Allocators
      BY <2>1, <2>2, <2>3, <2>4, OfferedToSink
    <3> QED
      BY <2>2, <3>1, KeepsUpTrans
  <2>5. CASE ~n.ok
    BY <2>1, <2>2, <2>5
  <2> QED
    BY <2>4, <2>5
<1>3. CASE y.ok
  BY <1>1, <1>2, <1>3
<1>4. CASE ~y.ok
  <2> DEFINE z == Own(y)
  <2>1. z \in Outcomes /\ z.ok /\ z.alloc = "own" /\ z.chain = y.chain /\ "own" \in T!Allocators
    BY <1>2, TipNames DEF Outcomes, MaybeAllocator
  <2>2. x \in T!OfferToSink(z)
    BY <1>1, <1>4
  <2> HIDE DEF z
  <2>3. InputHas(z.chain)
    BY <1>2, <2>1 DEF InputHas, KeepsUp, Keeps, T!UpConnected
  <2>4. /\ x \in Outcomes /\ KeepsUp(z.chain, x.chain)
        /\ x.ok => x.chain.outAlloc \in T!Allocators
    BY <2>1, <2>2, <2>3, OfferedToSink
  <2> QED
    BY <1>2, <2>1, <2>4, KeepsUpTrans
<1> QED
  BY <1>3, <1>4

-----------------------------------------------------------------------------
LEMMA Broken ==
  ASSUME NEW c \in ChainType
  PROVE /\ T!BreakUp(c) \in ChainType /\ ~T!UpConnected(T!BreakUp(c))
        /\ T!BreakUp(c).down = c.down /\ T!BreakUp(c).outAlloc = c.outAlloc
        /\ T!BreakDown(c) \in ChainType /\ ~T!DownConnected(T!BreakDown(c))
        /\ T!BreakDown(c).up = c.up /\ T!BreakDown(c).inAlloc = c.inAlloc
BY ZenonT(60)
   DEF ChainType, MaybeType, MaybeAllocator, T!BreakUp, T!BreakDown, T!UpConnected, T!DownConnected

(* What making a connection leaves.                                        *)
Wired == /\ chain \in ChainType /\ bytes \in Sizes /\ pending \in Requests
         /\ InputHas(chain) /\ OutputHas(chain)
         /\ TipSettles

LEMMA UpMade ==
  ASSUME m_bModifiesData \in BOOLEAN, m_bModifiesData' = m_bModifiesData,
         bytes \in Sizes, pending \in Requests,
         NEW c \in ChainType, ~T!UpConnected(c), OutputHas(c),
         NEW s \in Sources, NEW t, NEW asked \in Requests, T!MakeUp(c, s, t, asked)
  PROVE Wired'
<1>1. CASE ~(t \in s.types /\ T!InCheckMediaType(c, t))
  <2>1. chain' = c /\ pending' = asked /\ bytes' = bytes
    BY <1>1 DEF T!MakeUp
  <2> QED
    BY <2>1 DEF Wired, InputHas, OutputHas, TipSettles, T!Complete, T!UpConnected, T!DownConnected
<1>2. CASE t \in s.types /\ T!InCheckMediaType(c, t)
  <2> DEFINE k == [c EXCEPT !.up = s, !.upType = t]
             asks == T!DownConnected(k) /\ k.upType # k.downType
             p == T!RequestsByInput(k)
             r == T!Outcome(k, bytes)
  <2>1. t \in TipTypes /\ t # T!Nothing /\ t \in MaybeType
    BY <1>2, TipNames DEF T!InCheckMediaType, TipTypes, MaybeType
  <2>2. /\ k \in ChainType /\ k.up = s /\ k.upType = t /\ k.down = c.down
        /\ k.downType = c.downType /\ k.outAlloc = c.outAlloc
    BY <2>1 DEF ChainType
  <2>3. T!UpConnected(k) /\ OutputHas(k)
    BY <2>2, SourcesAre DEF T!UpConnected, OutputHas, T!DownConnected
  <2>4. PICK x \in T!SourceDecides(r) :
          /\ chain' = IF x.ok THEN x.chain ELSE T!BreakUp(x.chain)
          /\ bytes' = x.bytes
          /\ pending' = [p EXCEPT !.up = asked.up]
    BY <1>2 DEF T!MakeUp
  <2> HIDE DEF k
  <2>5. r \in Outcomes /\ r.ok /\ r.chain = k
    BY <2>2 DEF T!Outcome, Outcomes, MaybeAllocator
  <2> HIDE DEF r
  <2>6. /\ Holds(r, x)
        /\ x.ok => /\ x.chain.inAlloc \in T!Allocators
                   /\ T!DownConnected(x.chain) => Settled(x.chain, x.bytes)
    BY <2>3, <2>4, <2>5, Decided
  <2>7. x \in Outcomes /\ x.chain \in ChainType /\ x.bytes \in Sizes /\ OutputHas(x.chain)
    BY <2>6 DEF Holds, Outcomes
  <2>8. /\ x.chain.up = s /\ x.chain.upType = t
        /\ x.chain.down = c.down /\ x.chain.downType = c.downType
    BY <2>2, <2>5, <2>6 DEF Holds, Keeps
  <2>9. /\ pending' \in Requests
        /\ T!DownConnected(c) /\ pending'.down = T!Nothing => t = c.downType
    <3>1. p = [pending EXCEPT !.down = IF asks THEN t ELSE pending.down]
      BY <2>2 DEF T!RequestsByInput
    <3>2. p \in Requests /\ p.down = IF asks THEN t ELSE pending.down
      BY <2>1, <3>1 DEF Requests
    <3> HIDE DEF p
    <3>3. pending' \in Requests /\ pending'.down = p.down
      BY <2>4, <3>2 DEF Requests
    <3> QED
      BY <2>1, <2>2, <3>2, <3>3 DEF T!DownConnected
  <2>10. CASE x.ok
    <3>1. chain' = x.chain /\ bytes' = x.bytes
      BY <2>4, <2>10
    <3>2. InputHas(chain') /\ OutputHas(chain')
      BY <2>6, <2>7, <2>10, <3>1 DEF InputHas
    <3>3. TipSettles'
      <4> SUFFICES ASSUME T!DownConnected(chain')
                   PROVE  /\ Settled(chain, bytes)'
                          /\ pending'.down = T!Nothing => chain'.upType = chain'.downType
        BY DEF TipSettles, T!Complete, T!DownConnected
      <4>1. Settled(x.chain, x.bytes)
        BY <2>6, <2>10, <3>1
      <4>2. Settled(chain, bytes)'
        BY <3>1, <4>1 DEF Settled
      <4>3. T!DownConnected(c)
        BY <2>8, <3>1 DEF T!DownConnected
      <4> QED
        BY <2>8, <2>9, <3>1, <4>2, <4>3
    <3> QED
      BY <2>7, <2>9, <3>1, <3>2, <3>3 DEF Wired, InputHas, OutputHas, T!UpConnected, T!DownConnected
  <2>11. CASE ~x.ok
    <3>1. chain' = T!BreakUp(x.chain) /\ bytes' = x.bytes
      BY <2>4, <2>11
    <3>2. /\ chain' \in ChainType /\ ~T!UpConnected(chain')
          /\ chain'.down = x.chain.down /\ chain'.outAlloc = x.chain.outAlloc
      BY <2>7, <3>1, Broken
    <3>3. InputHas(chain)' /\ OutputHas(chain)' /\ TipSettles'
      BY <2>7, <3>2 DEF InputHas, OutputHas, TipSettles, T!Complete, T!UpConnected, T!DownConnected
    <3> QED
      BY <2>7, <2>9, <3>1, <3>2, <3>3 DEF Wired
  <2> QED
    BY <2>10, <2>11
<1> QED
  BY <1>1, <1>2

LEMMA DownMade ==
  ASSUME bytes \in Sizes, pending \in Requests,
         NEW c \in ChainType, ~T!DownConnected(c), InputHas(c),
         NEW snk \in Sinks, NEW t, NEW asked \in Requests, T!MakeDown(c, snk, t, asked)
  PROVE Wired'
<1>1. CASE ~(t \in snk.types /\ T!OutCheckMediaType(c, t))
  <2>1. chain' = c /\ pending' = asked /\ bytes' = bytes
    BY <1>1 DEF T!MakeDown
  <2> QED
    BY <2>1 DEF Wired, InputHas, OutputHas, TipSettles, T!Complete, T!UpConnected, T!DownConnected
<1>2. CASE t \in snk.types /\ T!OutCheckMediaType(c, t)
  <2> DEFINE k == [c EXCEPT !.down = snk, !.downType = t]
             p == T!RequestsByOutput(k)
             r == T!Outcome(k, bytes)
  <2>1. t \in TipTypes /\ t # T!Nothing /\ t \in MaybeType
    BY <1>2, TipNames DEF T!OutCheckMediaType, TipTypes, MaybeType
  <2>2. /\ k \in ChainType /\ k.down = snk /\ k.downType = t /\ k.up = c.up
        /\ k.inAlloc = c.inAlloc
    BY <2>1 DEF ChainType
  <2>3. T!DownConnected(k) /\ InputHas(k)
    BY <2>2, SinksAre DEF T!UpConnected, InputHas, T!DownConnected
  <2>4. PICK x \in T!DecideAllocator(r) :
          /\ chain' = IF x.ok THEN x.chain ELSE T!BreakDown(x.chain)
          /\ bytes' = x.bytes
          /\ pending' = IF x.ok THEN [p EXCEPT !.down = asked.down] ELSE asked
    BY <1>2 DEF T!MakeDown
  <2> HIDE DEF k
  <2>5. r \in Outcomes /\ r.ok /\ r.chain = k
    BY <2>2 DEF T!Outcome, Outcomes, MaybeAllocator
  <2> HIDE DEF r
  <2>6. x \in Outcomes /\ KeepsUp(k, x.chain) /\ (x.ok => x.chain.outAlloc \in T!Allocators)
    BY <2>3, <2>4, <2>5, OutputDecided
  <2>7. x.chain \in ChainType /\ x.bytes \in Sizes
    BY <2>6 DEF Outcomes
  <2>8. x.chain.up = c.up /\ x.chain.inAlloc = c.inAlloc /\ InputHas(x.chain)
    BY <2>2, <2>6 DEF KeepsUp, Keeps, InputHas, T!UpConnected
  <2>9. CASE x.ok
    <3>1. chain' = x.chain /\ bytes' = x.bytes /\ pending' = [p EXCEPT !.down = asked.down]
      BY <2>4, <2>9
    <3>2. p \in Requests /\ (T!UpConnected(c) => p.up = t)
      <4>1. p = [pending EXCEPT !.up = IF T!UpConnected(k) THEN t ELSE pending.up]
        BY <2>2 DEF T!RequestsByOutput
      <4>2. T!UpConnected(k) <=> T!UpConnected(c)
        BY <2>2 DEF T!UpConnected
      <4> QED
        BY <2>1, <4>1, <4>2 DEF Requests
    <3> HIDE DEF p
    <3>3. pending' \in Requests /\ pending'.up = p.up
      BY <3>1, <3>2 DEF Requests
    <3>4. InputHas(chain)' /\ OutputHas(chain)'
      BY <2>6, <2>8, <2>9, <3>1 DEF InputHas, OutputHas, T!UpConnected, T!DownConnected
    <3>5. TipSettles'
      <4>1. T!UpConnected(chain)' => T!UpConnected(c)
        BY <2>8, <3>1 DEF T!UpConnected
      <4> QED
        BY <2>1, <3>2, <3>3, <4>1 DEF TipSettles, T!Complete
    <3> QED
      BY <2>7, <3>1, <3>3, <3>4, <3>5 DEF Wired
  <2>10. CASE ~x.ok
    <3>1. chain' = T!BreakDown(x.chain) /\ bytes' = x.bytes /\ pending' = asked
      BY <2>4, <2>10
    <3>2. /\ chain' \in ChainType /\ ~T!DownConnected(chain')
          /\ chain'.up = x.chain.up /\ chain'.inAlloc = x.chain.inAlloc
      BY <2>7, <3>1, Broken
    <3>3. InputHas(chain)' /\ OutputHas(chain)' /\ TipSettles'
      BY <2>8, <3>2 DEF InputHas, OutputHas, TipSettles, T!Complete, T!UpConnected, T!DownConnected
    <3> QED
      BY <2>7, <3>1, <3>2, <3>3 DEF Wired
  <2> QED
    BY <2>9, <2>10
<1> QED
  BY <1>1, <1>2

-----------------------------------------------------------------------------
LEMMA IdleIsLegal ==
  ASSUME last = T!NoSample, ~streaming
  PROVE T!SamplesAreLegal
BY DEF T!SamplesAreLegal, T!NoSample

LEMMA IdleStaysLegal ==
  ASSUME last' = T!NoSample, ~streaming'
  PROVE T!SamplesAreLegal'
BY DEF T!SamplesAreLegal, T!NoSample

LEMMA TipInitially == T!Init => TipIInv
<1> SUFFICES ASSUME T!Init PROVE TipIInv
  OBVIOUS
<1>1. /\ m_bModifiesData \in BOOLEAN /\ streaming = FALSE /\ last = T!NoSample
      /\ chain = [up |-> T!NoPeer, upType |-> T!Nothing, sourceAlloc |-> T!Nothing,
                  inAlloc |-> T!Nothing, m_bReadOnly |-> FALSE,
                  down |-> T!NoPeer, downType |-> T!Nothing, outAlloc |-> T!Nothing,
                  sinkAlloc |-> T!Nothing]
      /\ bytes = [a \in T!Allocators |-> 0]
      /\ pending = [up |-> T!Nothing, down |-> T!Nothing]
  BY DEF T!Init
<1>2. chain \in ChainType /\ ~T!UpConnected(chain) /\ ~T!DownConnected(chain)
  BY <1>1 DEF ChainType, MaybeType, MaybeAllocator, T!UpConnected, T!DownConnected
<1>3. bytes \in Sizes /\ pending \in Requests
  BY <1>1 DEF Sizes, Requests, MaybeType
<1>4. TipTyped /\ TipSettles /\ StreamInv
  BY <1>1, <1>2, <1>3 DEF TipTyped, TipSettles, StreamInv, InputHas, OutputHas, T!Complete
<1> QED
  BY <1>1, <1>4, IdleIsLegal DEF TipIInv

(* A step that makes or breaks a connection, while nothing streams.        *)
LEMMA IdleStepKeepsInv ==
  ASSUME TipIInv, ~streaming, streaming' = streaming, last' = last,
         m_bModifiesData' = m_bModifiesData, Wired'
  PROVE TipIInv'
<1>1. last' = T!NoSample /\ ~streaming'
  BY DEF TipIInv, StreamInv
<1>2. StreamInv' /\ T!SamplesAreLegal'
  BY <1>1, IdleStaysLegal DEF StreamInv
<1>3. TipTyped' /\ TipSettles'
  BY DEF TipIInv, TipTyped, Wired
<1> QED
  BY <1>2, <1>3 DEF TipIInv

LEMMA ConnectUpKeepsInv ==
  ASSUME TipIInv, NEW s \in Sources, NEW t, T!ConnectUp(s, t)
  PROVE TipIInv'
<1>1. /\ ~streaming /\ streaming' = streaming /\ last' = last
      /\ m_bModifiesData' = m_bModifiesData
      /\ ~T!UpConnected(chain) /\ T!MakeUp(chain, s, t, pending)
  BY DEF T!ConnectUp, T!GraphCall
<1>2. Wired'
  BY <1>1, UpMade DEF TipIInv, TipTyped
<1> QED
  BY <1>1, <1>2, IdleStepKeepsInv

LEMMA ConnectDownKeepsInv ==
  ASSUME TipIInv, NEW snk \in Sinks, NEW t, T!ConnectDown(snk, t)
  PROVE TipIInv'
<1>1. /\ ~streaming /\ streaming' = streaming /\ last' = last
      /\ m_bModifiesData' = m_bModifiesData
      /\ ~T!DownConnected(chain) /\ T!MakeDown(chain, snk, t, pending)
  BY DEF T!ConnectDown, T!GraphCall
<1>2. Wired'
  BY <1>1, DownMade DEF TipIInv, TipTyped
<1> QED
  BY <1>1, <1>2, IdleStepKeepsInv

LEMMA DisconnectKeepsInv ==
  ASSUME TipIInv, T!Disconnect
  PROVE TipIInv'
<1>1. /\ ~streaming /\ streaming' = streaming /\ last' = last
      /\ m_bModifiesData' = m_bModifiesData /\ bytes' = bytes /\ pending' = pending
      /\ chain' = T!BreakUp(chain) \/ chain' = T!BreakDown(chain)
  BY DEF T!Disconnect, T!GraphCall
<1>2. /\ chain \in ChainType /\ bytes \in Sizes /\ pending \in Requests
      /\ InputHas(chain) /\ OutputHas(chain)
  BY DEF TipIInv, TipTyped
<1>3. /\ chain' \in ChainType /\ (~T!UpConnected(chain') \/ ~T!DownConnected(chain'))
      /\ InputHas(chain') /\ OutputHas(chain')
  BY <1>1, <1>2, Broken DEF InputHas, OutputHas, T!UpConnected, T!DownConnected
<1>4. Wired'
  BY <1>1, <1>2, <1>3
  DEF Wired, TipSettles, T!Complete, InputHas, OutputHas, T!UpConnected, T!DownConnected
<1> QED
  BY <1>1, <1>4, IdleStepKeepsInv

LEMMA ReconnectUpKeepsInv ==
  ASSUME TipIInv, T!ReconnectUp
  PROVE TipIInv'
<1> DEFINE asked == [pending EXCEPT !.up = T!Nothing]
<1>1. /\ ~streaming /\ streaming' = streaming /\ last' = last
      /\ m_bModifiesData' = m_bModifiesData
  BY DEF T!ReconnectUp
<1>2. /\ chain \in ChainType /\ bytes \in Sizes /\ pending \in Requests
      /\ InputHas(chain) /\ OutputHas(chain) /\ m_bModifiesData \in BOOLEAN
  BY DEF TipIInv, TipTyped
<1>3. asked \in Requests
  BY <1>2 DEF Requests, MaybeType
<1>4. Wired'
  <2>1. CASE T!UpConnected(chain)
    <3>1. T!MakeUp(T!BreakUp(chain), chain.up, pending.up, asked)
      BY <2>1 DEF T!ReconnectUp
    <3>2. chain.up \in Sources
      BY <1>2, <2>1 DEF ChainType, T!UpConnected
    <3>3. /\ T!BreakUp(chain) \in ChainType /\ ~T!UpConnected(T!BreakUp(chain))
          /\ OutputHas(T!BreakUp(chain))
      BY <1>2, Broken DEF OutputHas, T!DownConnected
    <3> QED
      BY <1>1, <1>2, <1>3, <3>1, <3>2, <3>3, UpMade
  <2>2. CASE ~T!UpConnected(chain)
    <3>1. chain' = chain /\ bytes' = bytes /\ pending' = asked
      BY <2>2 DEF T!ReconnectUp
    <3> QED
      BY <1>2, <1>3, <2>2, <3>1
      DEF Wired, TipSettles, T!Complete, InputHas, OutputHas, T!UpConnected, T!DownConnected
  <2> QED
    BY <2>1, <2>2
<1> QED
  BY <1>1, <1>4, IdleStepKeepsInv

LEMMA ReconnectDownKeepsInv ==
  ASSUME TipIInv, T!ReconnectDown
  PROVE TipIInv'
<1> DEFINE asked == [pending EXCEPT !.down = T!Nothing]
<1>1. /\ ~streaming /\ streaming' = streaming /\ last' = last
      /\ m_bModifiesData' = m_bModifiesData
  BY DEF T!ReconnectDown
<1>2. /\ chain \in ChainType /\ bytes \in Sizes /\ pending \in Requests
      /\ InputHas(chain) /\ OutputHas(chain)
  BY DEF TipIInv, TipTyped
<1>3. asked \in Requests
  BY <1>2 DEF Requests, MaybeType
<1>4. Wired'
  <2>1. CASE T!DownConnected(chain)
    <3>1. T!MakeDown(T!BreakDown(chain), chain.down, pending.down, asked)
      BY <2>1 DEF T!ReconnectDown
    <3>2. chain.down \in Sinks
      BY <1>2, <2>1 DEF ChainType, T!DownConnected
    <3>3. /\ T!BreakDown(chain) \in ChainType /\ ~T!DownConnected(T!BreakDown(chain))
          /\ InputHas(T!BreakDown(chain))
      BY <1>2, Broken DEF InputHas, T!UpConnected
    <3> QED
      BY <1>2, <1>3, <3>1, <3>2, <3>3, DownMade
  <2>2. CASE ~T!DownConnected(chain)
    <3>1. chain' = chain /\ bytes' = bytes /\ pending' = asked
      BY <2>2 DEF T!ReconnectDown
    <3> QED
      BY <1>2, <1>3, <2>2, <3>1
      DEF Wired, TipSettles, T!Complete, InputHas, OutputHas, T!UpConnected, T!DownConnected
  <2> QED
    BY <2>1, <2>2
<1> QED
  BY <1>1, <1>4, IdleStepKeepsInv

LEMMA SameChainKeepsInv ==
  ASSUME TipTyped, TipSettles, m_bModifiesData' = m_bModifiesData, streaming' \in BOOLEAN,
         chain' = chain, bytes' = bytes, pending' = pending
  PROVE TipTyped' /\ TipSettles'
BY DEF TipTyped, TipSettles, Settled, InputHas, OutputHas, T!Complete,
       T!UpConnected, T!DownConnected

LEMMA StartKeepsInv ==
  ASSUME TipIInv, T!Start
  PROVE TipIInv'
<1>1. /\ ~streaming /\ streaming' = TRUE /\ T!Resting /\ T!Complete
      /\ m_bModifiesData' = m_bModifiesData /\ chain' = chain /\ bytes' = bytes
      /\ pending' = pending /\ last' = last
  BY DEF T!Start
<1>2. TipTyped' /\ TipSettles'
  BY <1>1, SameChainKeepsInv DEF TipIInv
<1>3. StreamInv'
  BY <1>1 DEF StreamInv, T!Resting, T!Complete, T!UpConnected, T!DownConnected
<1>4. last = T!NoSample /\ TipTyped
  BY <1>1 DEF TipIInv, StreamInv
<1>5. Settled(chain, bytes) /\ chain.up \in Sources
  BY <1>1, <1>4 DEF TipIInv, TipSettles, T!Resting, TipTyped, ChainType, T!Complete, T!UpConnected
<1>6. bytes[chain.outAlloc] >= bytes[chain.sourceAlloc]
  BY <1>5, SourcesAre DEF Settled
<1>7. T!SamplesAreLegal'
  BY <1>1, <1>4, <1>6 DEF T!SamplesAreLegal, T!NoSample
<1> QED
  BY <1>2, <1>3, <1>7 DEF TipIInv

LEMMA StopKeepsInv ==
  ASSUME TipIInv, T!Stop
  PROVE TipIInv'
<1>1. /\ streaming' = FALSE /\ last' = T!NoSample
      /\ m_bModifiesData' = m_bModifiesData /\ chain' = chain /\ bytes' = bytes
      /\ pending' = pending
  BY DEF T!Stop
<1>2. TipTyped' /\ TipSettles'
  BY <1>1, SameChainKeepsInv DEF TipIInv
<1>3. StreamInv' /\ T!SamplesAreLegal'
  BY <1>1, IdleStaysLegal DEF StreamInv
<1> QED
  BY <1>2, <1>3 DEF TipIInv

(* A filter that modifies writes a copy or a buffer that is not read-only, *)
(* and no copy fails: the output's buffers are as large as the input's.    *)
LEMMA ReceiveKeepsInv ==
  ASSUME TipIInv, T!Receive
  PROVE TipIInv'
<1> DEFINE copy == T!UsingDifferentAllocators
           buffer == IF copy THEN chain.outAlloc ELSE chain.sourceAlloc
           wrote == IF m_bModifiesData \/ copy THEN buffer ELSE T!Nothing
           s == chain.up
<1>1. /\ streaming /\ streaming' = streaming
      /\ m_bModifiesData' = m_bModifiesData /\ chain' = chain /\ bytes' = bytes
      /\ pending' = pending
  BY DEF T!Receive
<1>2. TipTyped /\ T!Complete /\ T!Resting
  BY <1>1 DEF TipIInv, StreamInv
<1>3. TipTyped' /\ TipSettles'
  BY <1>1, <1>2, SameChainKeepsInv DEF TipIInv, TipTyped
<1>4. StreamInv'
  BY <1>1, <1>2 DEF StreamInv, T!Resting, T!Complete, T!UpConnected, T!DownConnected
<1>5. /\ Settled(chain, bytes) /\ s \in Sources /\ m_bModifiesData \in BOOLEAN
      /\ chain.outAlloc \in T!Allocators /\ chain.inAlloc \in T!Allocators
  BY <1>2
  DEF TipIInv, TipSettles, T!Resting, TipTyped, ChainType, T!Complete, InputHas, OutputHas,
      T!UpConnected, T!DownConnected
<1>6. /\ s.need \in Nat /\ s.readOnly \in BOOLEAN
      /\ bytes[chain.outAlloc] = s.need /\ bytes[chain.sourceAlloc] = s.need
  BY <1>5, SourcesAre DEF Settled
<1>7. ~T!CopyFails /\ bytes[chain.outAlloc] >= bytes[chain.sourceAlloc]
  BY <1>6 DEF T!CopyFails
<1>8. /\ last'.wrote = wrote /\ last'.delivered \in {buffer, T!Nothing}
  BY <1>7 DEF T!Receive, T!AnswerSkip
<1>9. buffer = chain.sinkAlloc /\ buffer \in T!Allocators
  BY <1>5 DEF Settled, T!UsingDifferentAllocators
<1>10. wrote # T!Nothing => ~(s.readOnly /\ wrote = s.alloc)
  <2> SUFFICES ASSUME s.readOnly, m_bModifiesData \/ copy PROVE buffer # s.alloc
    OBVIOUS
  <2>1. CASE copy
    BY <1>5, <2>1 DEF Settled, T!UsingDifferentAllocators
  <2>2. CASE ~copy
    BY <1>5, <2>2 DEF Settled, T!UsingDifferentAllocators
  <2> QED
    BY <2>1, <2>2
<1>11. wrote # T!Nothing \/ ~m_bModifiesData
  BY <1>9, TipNames
<1> HIDE DEF buffer, wrote
<1>12. T!SamplesAreLegal'
  BY <1>1, <1>7, <1>8, <1>9, <1>10, <1>11 DEF T!SamplesAreLegal
<1> QED
  BY <1>3, <1>4, <1>12 DEF TipIInv

LEMMA TipStepKeepsInv == TipIInv /\ [T!TipNext]_tipVars => TipIInv'
<1> SUFFICES ASSUME TipIInv, [T!TipNext]_tipVars PROVE TipIInv'
  OBVIOUS
<1>1. ASSUME NEW s \in Sources, NEW t \in T!UpTypes(chain, s), T!ConnectUp(s, t) PROVE TipIInv'
  BY <1>1, ConnectUpKeepsInv
<1>2. ASSUME NEW r \in Sinks, NEW t \in T!DownTypes(chain, r), T!ConnectDown(r, t) PROVE TipIInv'
  BY <1>2, ConnectDownKeepsInv
<1>3. CASE T!Disconnect
  BY <1>3, DisconnectKeepsInv
<1>4. CASE T!ReconnectUp
  BY <1>4, ReconnectUpKeepsInv
<1>5. CASE T!ReconnectDown
  BY <1>5, ReconnectDownKeepsInv
<1>6. CASE T!Start
  BY <1>6, StartKeepsInv
<1>7. CASE T!Stop
  BY <1>7, StopKeepsInv
<1>8. CASE T!Receive
  BY <1>8, ReceiveKeepsInv
<1>9. CASE UNCHANGED tipVars
  <2>1. /\ m_bModifiesData' = m_bModifiesData /\ chain' = chain /\ bytes' = bytes
        /\ pending' = pending /\ streaming' = streaming /\ last' = last
    BY <1>9 DEF tipVars
  <2>2. TipTyped' /\ TipSettles'
    BY <2>1, SameChainKeepsInv DEF TipIInv, TipTyped
  <2>3. StreamInv'
    BY <2>1 DEF TipIInv, StreamInv, T!Resting, T!Complete, T!UpConnected, T!DownConnected
  <2>4. T!SamplesAreLegal'
    BY <2>1 DEF TipIInv, T!SamplesAreLegal
  <2> QED
    BY <2>2, <2>3, <2>4 DEF TipIInv
<1> QED
  BY <1>1, <1>2, <1>3, <1>4, <1>5, <1>6, <1>7, <1>8, <1>9 DEF T!TipNext

LEMMA TipInvImpliesSafety == TipIInv => TipSafety
<1> SUFFICES ASSUME TipIInv PROVE T!ChainSettles
  BY DEF TipIInv, TipSafety, T!TipSafety
<1> SUFFICES ASSUME T!Resting, T!Complete
    PROVE  /\ chain.upType = chain.downType
           /\ chain.sourceAlloc = chain.inAlloc /\ chain.outAlloc = chain.sinkAlloc
           /\ chain.inAlloc # chain.outAlloc => m_bModifiesData /\ chain.m_bReadOnly
  BY DEF T!ChainSettles
<1> QED
  BY DEF TipIInv, TipSettles, Settled, T!Resting

(* However the chain is connected, taken apart and reconnected, and for    *)
(* any number of calls: when nothing is left to reconnect both sides have  *)
(* one type and the ends of each connection one allocator, samples are     *)
(* copied only where a filter that modifies must not write, and no sample  *)
(* is written into a read-only buffer, lost in a copy or delivered from an *)
(* allocator the sink was not told of (NotifyAllocator, CompleteConnect).  *)
THEOREM ChainIsSafe == Spec => []TipSafety
<1>1. ControlInit => TipIInv
  BY TipInitially DEF ControlInit
<1>2. TipIInv /\ [Next]_vars => TipIInv'
  <2> SUFFICES ASSUME TipIInv, [Next]_vars PROVE TipIInv'
    OBVIOUS
  <2>1. [T!TipNext]_tipVars
    BY DEF Next, vars, ButCmd, ButSeek, ButPin
  <2> QED
    BY <2>1, TipStepKeepsInv
<1> QED
  BY <1>1, <1>2, TipInvImpliesSafety, PTL DEF Spec

(***************************************************************************)
(* RefClock                                                                *)
(***************************************************************************)

Elements(l) == {l[i] : i \in DOMAIN l}

ScheduleInv == InOrder(list) /\ OnePerClient(list)

(* Cookies are not given out twice.                                        *)
CookieInv ==
  /\ m_dwAdviseCount <= m_dwNextCookie
  /\ \A c, d \in Clients : cookie[c] = cookie[d] /\ cookie[c] # 0 => c = d
  /\ \A c \in Clients : cookie[c] <= m_dwNextCookie

(* The thread holds the schedule while it fires, and ends only when told.  *)
LockInv ==
  /\ holder = "thread" <=> pc = "fire"
  /\ pc \in {"ended", "closed"} => m_bAbort

(* A client is about to wake the thread for the first packet.              *)
Announcing == holder \in Clients /\ IsNewHead(holder)

(* What the thread works from is no older than the corrections it was not  *)
(* woken for, and the sleep it has planned from that ends in time.         *)
AwakeInv ==
  pc \in {"enter", "fire"} /\ ~m_ev =>
    list = <<>> \/ Announcing \/ PrivateNow - drift <= rtNow

AsleepInv ==
  pc = "wait" =>
    /\ deadline # Infinite => deadline >= sys
    /\ ~m_ev => \/ list = <<>> \/ Announcing
                \/ /\ deadline # Infinite
                   /\ list[1].time >= PrivateNow - drift + Millisecond * (deadline - sys)

(* No time that is told or worked from is ahead of the clock.              *)
ClockTimeInv ==
  /\ PrivateNow <= highest /\ m_rtLastGotTime <= highest
  /\ pc \in {"enter", "fire"} => rtNow <= highest

(* What the list, the cookies and the signals say of each other, and what  *)
(* the thread knows of the time.                                           *)
Books == ListBelongsToClients /\ OneShotRingsOnce /\ ScheduleInv /\ CookieInv
Timely == AwakeInv /\ AsleepInv /\ ClockTimeInv

(* The time does not pass while the thread is awake.                       *)
SpinInv == NeverSpins /\ (pc \in {"enter", "fire"} => looked = sys)

IInv == TypeOK /\ Books /\ LockInv /\ Timely /\ SpinInv

(***************************************************************************)
(* Sequences                                                               *)
(***************************************************************************)

(* A set of positions that contains all positions before each of its own.  *)
LEMMA PrefixCount ==
  ASSUME NEW n \in Nat, NEW S \in SUBSET (1 .. n), \A i \in S : 1 .. i \subseteq S
  PROVE  Cardinality(S) \in 0 .. n /\ S = 1 .. Cardinality(S)
<1>1. IsFiniteSet(S) /\ Cardinality(S) \in Nat /\ Cardinality(S) <= n
  <2>1. IsFiniteSet(1 .. n) /\ Cardinality(1 .. n) = n
    BY FS_Interval
  <2>2. IsFiniteSet(S) /\ Cardinality(S) <= Cardinality(1 .. n)
    BY <2>1, FS_Subset
  <2> QED
    BY <2>1, <2>2, FS_CardinalityType
<1>2. S \subseteq 1 .. Cardinality(S)
  <2>1. ASSUME NEW i \in S PROVE i <= Cardinality(S)
    <3>1. Cardinality(1 .. i) = i
      BY FS_Interval
    <3> QED
      BY <1>1, <3>1, FS_Subset
  <2> QED
    BY <1>1, <2>1
<1>3. IsFiniteSet(1 .. Cardinality(S)) /\ Cardinality(1 .. Cardinality(S)) = Cardinality(S)
  BY <1>1, FS_Interval
<1>4. S = 1 .. Cardinality(S)
  BY <1>2, <1>3, FS_Subset
<1> QED
  BY <1>1, <1>4

LEMMA InsertAtProperties ==
  ASSUME NEW S, NEW l \in Seq(S), NEW k \in 0 .. Len(l), NEW p \in S
  PROVE  /\ InsertAt(l, k + 1, p) \in Seq(S)
         /\ Len(InsertAt(l, k + 1, p)) = Len(l) + 1
         /\ \A i \in 1 .. Len(l) + 1 :
              InsertAt(l, k + 1, p)[i] =
                IF i <= k THEN l[i] ELSE IF i = k + 1 THEN p ELSE l[i - 1]
<1> DEFINE a == SubSeq(l, 1, k)
           b == SubSeq(l, k + 1, Len(l))
<1>1. a \in Seq(S) /\ Len(a) = k /\ \A i \in 1 .. k : a[i] = l[i]
  BY SubSeqProperties
<1>2. b \in Seq(S) /\ Len(b) = Len(l) - k /\ \A i \in 1 .. Len(l) - k : b[i] = l[k + i]
  BY SubSeqProperties
<1>3. InsertAt(l, k + 1, p) = (a \o <<p>>) \o b
  <2>1. (k + 1) - 1 = k
    OBVIOUS
  <2> QED
    BY <2>1 DEF InsertAt
<1> HIDE DEF a, b
<1> DEFINE c == a \o <<p>>
<1>4. c \in Seq(S) /\ Len(c) = k + 1 /\ c[k + 1] = p /\ \A i \in 1 .. k : c[i] = l[i]
  BY <1>1
<1> HIDE DEF c
<1>5. /\ c \o b \in Seq(S) /\ Len(c \o b) = Len(c) + Len(b)
      /\ \A i \in 1 .. Len(c) + Len(b) : (c \o b)[i] = IF i <= Len(c) THEN c[i] ELSE b[i - Len(c)]
  BY <1>2, <1>4, ConcatProperties
<1>6. Len(c) + Len(b) = Len(l) + 1
  BY <1>2, <1>4
<1>7. ASSUME NEW i \in 1 .. Len(l) + 1
      PROVE  (c \o b)[i] = IF i <= k THEN l[i] ELSE IF i = k + 1 THEN p ELSE l[i - 1]
  <2>1. CASE i <= k + 1
    BY <1>4, <1>5, <1>6, <2>1
  <2>2. CASE i > k + 1
    <3>1. (c \o b)[i] = b[i - (k + 1)] /\ i - (k + 1) \in 1 .. Len(l) - k
      BY <1>4, <1>5, <1>6, <2>2
    <3>2. PICK j \in 1 .. Len(l) - k : j = i - (k + 1)
      BY <3>1
    <3>3. b[j] = l[k + j] /\ k + j = i - 1
      BY <1>2, <2>2, <3>2
    <3> QED
      BY <2>2, <3>1, <3>2, <3>3
  <2>3. i <= k + 1 \/ i > k + 1
    OBVIOUS
  <2> QED
    BY <2>1, <2>2, <2>3
<1> QED
  BY <1>3, <1>5, <1>6, <1>7 DEF c

LEMMA RemoveAtProperties ==
  ASSUME NEW S, NEW l \in Seq(S), NEW k \in 1 .. Len(l)
  PROVE  /\ RemoveAt(l, k) \in Seq(S)
         /\ Len(RemoveAt(l, k)) = Len(l) - 1
         /\ \A i \in 1 .. Len(l) - 1 : RemoveAt(l, k)[i] = IF i < k THEN l[i] ELSE l[i + 1]
<1> DEFINE a == SubSeq(l, 1, k - 1)
           b == SubSeq(l, k + 1, Len(l))
<1>1. a \in Seq(S) /\ Len(a) = k - 1 /\ \A i \in 1 .. k - 1 : a[i] = l[i]
  BY SubSeqProperties
<1>2. b \in Seq(S) /\ Len(b) = Len(l) - k /\ \A i \in 1 .. Len(l) - k : b[i] = l[k + i]
  BY SubSeqProperties
<1> HIDE DEF a, b
<1>3. /\ a \o b \in Seq(S) /\ Len(a \o b) = Len(a) + Len(b)
      /\ \A i \in 1 .. Len(a) + Len(b) : (a \o b)[i] = IF i <= Len(a) THEN a[i] ELSE b[i - Len(a)]
  BY <1>1, <1>2, ConcatProperties
<1>4. Len(a) + Len(b) = Len(l) - 1
  BY <1>1, <1>2
<1>5. ASSUME NEW i \in 1 .. Len(l) - 1
      PROVE  (a \o b)[i] = IF i < k THEN l[i] ELSE l[i + 1]
  <2>1. CASE i < k
    BY <1>1, <1>3, <1>4, <2>1
  <2>2. CASE i >= k
    <3>1. (a \o b)[i] = b[i - (k - 1)] /\ i - (k - 1) \in 1 .. Len(l) - k
      BY <1>1, <1>3, <1>4, <2>2
    <3>2. PICK j \in 1 .. Len(l) - k : j = i - (k - 1)
      BY <3>1
    <3>3. b[j] = l[k + j] /\ k + j = i + 1
      BY <1>2, <2>2, <3>2
    <3> QED
      BY <2>2, <3>1, <3>2, <3>3
  <2>3. i < k \/ i >= k
    OBVIOUS
  <2> QED
    BY <2>1, <2>2, <2>3
<1> QED
  BY <1>3, <1>4, <1>5 DEF RemoveAt, a, b

(***************************************************************************)
(* Lists of packets                                                        *)
(***************************************************************************)

LEMMA PacketFields ==
  ASSUME NEW p \in Packets
  PROVE  /\ p.time \in Nat /\ p.cookie \in 1 .. MaxCookies /\ p.client \in Clients
         /\ p.period \in Nat /\ p.periodic \in BOOLEAN
<1>1. p.time \in Nat /\ p.cookie \in 1 .. MaxCookies /\ p.client \in Clients
  BY DEF Packets
<1>2. p.period \in Periods \union {0}
  BY DEF Packets
<1>3. Periods \union {0} \subseteq Nat
  <2>1. Periods \subseteq Nat \ {0}
    BY ClockAssumption DEF ClockAssumption
  <2> QED
    BY <2>1
<1>4. p.periodic \in BOOLEAN
  BY ZenonT(30) DEF Packets
<1> QED
  BY <1>1, <1>2, <1>3, <1>4

LEMMA PacketAt ==
  ASSUME NEW l \in Seq(Packets)
  PROVE  /\ Len(l) \in Nat /\ DOMAIN l = 1 .. Len(l)
         /\ \A i \in 1 .. Len(l) :
              /\ l[i] \in Packets /\ l[i].time \in Nat /\ l[i].cookie \in 1 .. MaxCookies
              /\ l[i].client \in Clients /\ l[i].period \in Nat /\ l[i].periodic \in BOOLEAN
<1>1. Len(l) \in Nat /\ DOMAIN l = 1 .. Len(l) /\ \A i \in 1 .. Len(l) : l[i] \in Packets
  OBVIOUS
<1> QED
  BY <1>1, PacketFields

LEMMA BeforeSplits ==
  ASSUME NEW l \in Seq(Packets), InOrder(l), NEW t \in Int
  PROVE  /\ Before(l, t) \in 0 .. Len(l)
         /\ \A i \in 1 .. Len(l) : l[i].time < t <=> i <= Before(l, t)
<1> DEFINE S == {i \in DOMAIN l : l[i].time < t}
<1>1. Len(l) \in Nat /\ DOMAIN l = 1 .. Len(l) /\ \A i \in 1 .. Len(l) : l[i].time \in Int
  BY PacketAt
<1>2. S \in SUBSET (1 .. Len(l))
  BY <1>1
<1>3. \A i \in S : 1 .. i \subseteq S
  <2> SUFFICES ASSUME NEW i \in S, NEW j \in 1 .. i PROVE l[j].time < t /\ j \in 1 .. Len(l)
    BY <1>1
  <2> QED
    BY <1>1 DEF InOrder
<1> HIDE DEF S
<1>4. Cardinality(S) \in 0 .. Len(l) /\ S = 1 .. Cardinality(S)
  BY <1>1, <1>2, <1>3, PrefixCount
<1> QED
  BY <1>1, <1>4 DEF S, Before

LEMMA NotAfterSplits ==
  ASSUME NEW l \in Seq(Packets), InOrder(l), NEW t \in Int
  PROVE  /\ NotAfter(l, t) \in 0 .. Len(l)
         /\ \A i \in 1 .. Len(l) : l[i].time <= t <=> i <= NotAfter(l, t)
<1> DEFINE S == {i \in DOMAIN l : l[i].time <= t}
<1>1. Len(l) \in Nat /\ DOMAIN l = 1 .. Len(l) /\ \A i \in 1 .. Len(l) : l[i].time \in Int
  BY PacketAt
<1>2. S \in SUBSET (1 .. Len(l))
  BY <1>1
<1>3. \A i \in S : 1 .. i \subseteq S
  <2> SUFFICES ASSUME NEW i \in S, NEW j \in 1 .. i PROVE l[j].time <= t /\ j \in 1 .. Len(l)
    BY <1>1
  <2> QED
    BY <1>1 DEF InOrder
<1> HIDE DEF S
<1>4. Cardinality(S) \in 0 .. Len(l) /\ S = 1 .. Cardinality(S)
  BY <1>1, <1>2, <1>3, PrefixCount
<1> QED
  BY <1>1, <1>4 DEF S, NotAfter

(* Where the code puts a packet, the list stays in order.                  *)
LEMMA InsertAtKeeps ==
  ASSUME NEW l \in Seq(Packets), InOrder(l), OnePerClient(l), NEW k \in 0 .. Len(l),
         NEW p \in Packets, \A i \in 1 .. Len(l) : l[i].client # p.client,
         \A i \in 1 .. Len(l) : (i <= k => l[i].time <= p.time) /\ (i > k => p.time <= l[i].time)
  PROVE  /\ InsertAt(l, k + 1, p) \in Seq(Packets) /\ Len(InsertAt(l, k + 1, p)) = Len(l) + 1
         /\ InOrder(InsertAt(l, k + 1, p)) /\ OnePerClient(InsertAt(l, k + 1, p))
         /\ Elements(InsertAt(l, k + 1, p)) = Elements(l) \union {p}
         /\ k = 0 => InsertAt(l, k + 1, p)[1] = p
         /\ k # 0 => InsertAt(l, k + 1, p)[1] = l[1]
<1> DEFINE m == InsertAt(l, k + 1, p)
<1>1. /\ m \in Seq(Packets) /\ Len(m) = Len(l) + 1
      /\ \A i \in 1 .. Len(l) + 1 :
           m[i] = IF i <= k THEN l[i] ELSE IF i = k + 1 THEN p ELSE l[i - 1]
  <2> HIDE DEF m
  <2>1. m = InsertAt(l, k + 1, p)
    BY DEF m
  <2>2. /\ InsertAt(l, k + 1, p) \in Seq(Packets)
        /\ Len(InsertAt(l, k + 1, p)) = Len(l) + 1
        /\ \A i \in 1 .. Len(l) + 1 :
             InsertAt(l, k + 1, p)[i] =
               IF i <= k THEN l[i] ELSE IF i = k + 1 THEN p ELSE l[i - 1]
    BY ONLY InsertAtProperties, l \in Seq(Packets), k \in 0 .. Len(l), p \in Packets
  <2> QED
    BY <2>1, <2>2
<1> HIDE DEF m
<1>2. DOMAIN m = 1 .. Len(l) + 1 /\ DOMAIN l = 1 .. Len(l) /\ Len(l) \in Nat /\ k \in Nat
  BY <1>1
<1>3. \A i \in 1 .. Len(l) : l[i].time \in Nat
  BY PacketAt
<1>4. p.time \in Nat
  BY PacketFields
<1>5. InOrder(m)
  <2> SUFFICES ASSUME NEW i \in 1 .. Len(l) + 1, NEW j \in 1 .. Len(l) + 1, i < j
               PROVE  m[i].time <= m[j].time
    BY <1>2 DEF InOrder
  <2>1. CASE j <= k
    <3>1. m[i] = l[i] /\ m[j] = l[j] /\ i \in 1 .. Len(l) /\ j \in 1 .. Len(l)
      BY <1>1, <1>2, <2>1
    <3> QED
      BY <1>2, <3>1 DEF InOrder
  <2>2. CASE j = k + 1
    BY <1>1, <1>2, <2>2
  <2>3. CASE j > k + 1 /\ i <= k
    <3>1. /\ m[i] = l[i] /\ m[j] = l[j - 1] /\ i < j - 1
          /\ i \in 1 .. Len(l) /\ j - 1 \in 1 .. Len(l)
      BY <1>1, <1>2, <2>3
    <3> QED
      BY <1>2, <3>1 DEF InOrder
  <2>4. CASE j > k + 1 /\ i = k + 1
    BY <1>1, <1>2, <2>4
  <2>5. CASE j > k + 1 /\ i > k + 1
    <3>1. /\ m[i] = l[i - 1] /\ m[j] = l[j - 1] /\ i - 1 < j - 1
          /\ i - 1 \in 1 .. Len(l) /\ j - 1 \in 1 .. Len(l)
      BY <1>1, <1>2, <2>5
    <3> QED
      BY <1>2, <3>1 DEF InOrder
  <2> QED
    BY <1>2, <2>1, <2>2, <2>3, <2>4, <2>5
<1>6. OnePerClient(m)
  <2> SUFFICES ASSUME NEW i \in 1 .. Len(l) + 1, NEW j \in 1 .. Len(l) + 1, i < j
               PROVE  m[i].client # m[j].client
    BY <1>2 DEF OnePerClient
  <2>1. CASE j <= k
    BY <1>1, <1>2, <2>1, SMTT(30) DEF OnePerClient
  <2>2. CASE j = k + 1
    BY <1>1, <1>2, <2>2, SMTT(30)
  <2>3. CASE j > k + 1 /\ i <= k
    BY <1>1, <1>2, <2>3 DEF OnePerClient
  <2>4. CASE j > k + 1 /\ i = k + 1
    BY <1>1, <1>2, <2>4
  <2>5. CASE j > k + 1 /\ i > k + 1
    <3>1. /\ m[i] = l[i - 1] /\ m[j] = l[j - 1] /\ i - 1 # j - 1
          /\ i - 1 \in 1 .. Len(l) /\ j - 1 \in 1 .. Len(l)
      BY <1>1, <1>2, <2>5
    <3> QED
      BY <1>2, <3>1 DEF OnePerClient
  <2> QED
    BY <1>2, <2>1, <2>2, <2>3, <2>4, <2>5
<1>7. ASSUME NEW i \in 1 .. Len(l) + 1 PROVE m[i] \in Elements(l) \union {p}
  <2>1. CASE i <= k
    BY <1>1, <1>2, <2>1 DEF Elements
  <2>2. CASE i = k + 1
    BY <1>1, <1>2, <2>2
  <2>3. CASE i > k + 1
    <3>1. m[i] = l[i - 1] /\ i - 1 \in 1 .. Len(l)
      BY <1>1, <1>2, <2>3
    <3> QED
      BY <1>2, <3>1 DEF Elements
  <2> QED
    BY <1>2, <2>1, <2>2, <2>3
<1>8. p \in Elements(m)
  <2>1. k + 1 \in 1 .. Len(l) + 1 /\ m[k + 1] = p
    BY <1>1, <1>2
  <2> QED
    BY <1>2, <2>1 DEF Elements
<1>9. ASSUME NEW i \in 1 .. Len(l) PROVE l[i] \in Elements(m)
  <2>1. CASE i <= k
    BY <1>1, <1>2, <2>1 DEF Elements
  <2>2. CASE i > k
    <3>1. m[i + 1] = l[i] /\ i + 1 \in 1 .. Len(l) + 1
      BY <1>1, <1>2, <2>2
    <3> QED
      BY <1>2, <3>1 DEF Elements
  <2> QED
    BY <1>2, <2>1, <2>2
<1>10. Elements(m) \subseteq Elements(l) \union {p} /\ Elements(l) \union {p} \subseteq Elements(m)
  BY <1>2, <1>7, <1>8, <1>9 DEF Elements
<1>11. m[1] = IF k = 0 THEN p ELSE l[1]
  BY <1>1, <1>2
<1> QED
  BY <1>1, <1>5, <1>6, <1>10, <1>11 DEF m

LEMMA RemoveAtKeeps ==
  ASSUME NEW l \in Seq(Packets), InOrder(l), OnePerClient(l), NEW k \in 1 .. Len(l)
  PROVE  /\ InOrder(RemoveAt(l, k)) /\ OnePerClient(RemoveAt(l, k))
         /\ Elements(RemoveAt(l, k)) = Elements(l) \ {l[k]}
         /\ RemoveAt(l, k) # <<>> => l[1].time <= RemoveAt(l, k)[1].time
<1> DEFINE m == RemoveAt(l, k)
<1>1. /\ m \in Seq(Packets) /\ Len(m) = Len(l) - 1
      /\ \A i \in 1 .. Len(l) - 1 : m[i] = IF i < k THEN l[i] ELSE l[i + 1]
  BY RemoveAtProperties
<1> HIDE DEF m
<1>2. DOMAIN m = 1 .. Len(l) - 1 /\ DOMAIN l = 1 .. Len(l) /\ Len(l) \in Nat /\ k \in Nat
  BY <1>1
<1> DEFINE at(i) == IF i < k THEN i ELSE i + 1
<1>3. \A i \in 1 .. Len(l) - 1 : at(i) \in 1 .. Len(l) \ {k} /\ m[i] = l[at(i)]
  BY <1>1, <1>2
<1>4. \A i, j \in 1 .. Len(l) - 1 : i < j => at(i) < at(j)
  BY <1>2
<1>5. \A j \in 1 .. Len(l) : j # k => \E i \in 1 .. Len(l) - 1 : at(i) = j
  <2> SUFFICES ASSUME NEW j \in 1 .. Len(l), j # k
               PROVE  \E i \in 1 .. Len(l) - 1 : at(i) = j
    OBVIOUS
  <2>1. CASE j < k
    BY <1>2, <2>1
  <2>2. CASE j > k
    <3>1. j - 1 \in 1 .. Len(l) - 1 /\ at(j - 1) = j
      BY <1>2, <2>2
    <3> QED
      BY <3>1
  <2> QED
    BY <1>2, <2>1, <2>2
<1>6. \A i \in 1 .. Len(l) : at(i) \in Int
  BY <1>2
<1> HIDE DEF at
<1>7. InOrder(m)
  BY <1>2, <1>3, <1>4 DEF InOrder
<1>8. OnePerClient(m)
  <2> SUFFICES ASSUME NEW i \in 1 .. Len(l) - 1, NEW j \in 1 .. Len(l) - 1, i < j
               PROVE  m[i].client # m[j].client
    BY <1>2 DEF OnePerClient
  <2>1. at(i) # at(j) /\ at(i) \in 1 .. Len(l) /\ at(j) \in 1 .. Len(l)
    BY <1>3, <1>4, <1>2
  <2> QED
    BY <1>2, <1>3, <2>1 DEF OnePerClient
<1>9. \A i \in 1 .. Len(l) : i # k => l[i] # l[k]
  BY <1>2 DEF OnePerClient
<1>10. Elements(m) \subseteq Elements(l) \ {l[k]}
  BY <1>2, <1>3, <1>9 DEF Elements
<1>11. Elements(l) \ {l[k]} \subseteq Elements(m)
  <2> SUFFICES ASSUME NEW j \in 1 .. Len(l), j # k PROVE l[j] \in Elements(m)
    BY <1>2 DEF Elements
  <2>1. PICK i \in 1 .. Len(l) - 1 : at(i) = j
    BY <1>5
  <2> QED
    BY <1>2, <1>3, <2>1 DEF Elements
<1>12. m # <<>> => l[1].time <= m[1].time
  <2> SUFFICES ASSUME m # <<>> PROVE l[1].time <= m[1].time
    OBVIOUS
  <2>1. 1 \in 1 .. Len(l) - 1
    BY <1>1, <1>2
  <2>2. CASE at(1) = 1
    <3>1. m[1] = l[1] /\ l[1].time \in Nat
      BY <1>2, <1>3, <2>1, <2>2, PacketAt
    <3> QED
      BY <3>1
  <2>3. CASE at(1) # 1
    BY <1>2, <1>3, <2>1, <2>3 DEF InOrder
  <2> QED
    BY <2>2, <2>3
<1> QED
  BY <1>7, <1>8, <1>10, <1>11, <1>12 DEF m

LEMMA TailIsRemoval ==
  ASSUME NEW l \in Seq(Packets), l # <<>>
  PROVE  Tail(l) = RemoveAt(l, 1) /\ Head(l) = l[1] /\ 1 \in 1 .. Len(l)
<1>1. 1 \in 1 .. Len(l)
  OBVIOUS
<1>2. /\ RemoveAt(l, 1) \in Seq(Packets) /\ Len(RemoveAt(l, 1)) = Len(l) - 1
      /\ \A i \in 1 .. Len(l) - 1 : RemoveAt(l, 1)[i] = l[i + 1]
  BY <1>1, RemoveAtProperties
<1>3. /\ Tail(l) \in Seq(Packets) /\ Len(Tail(l)) = Len(l) - 1
      /\ \A i \in 1 .. Len(l) - 1 : Tail(l)[i] = l[i + 1]
  OBVIOUS
<1>4. Tail(l) = RemoveAt(l, 1)
  BY <1>2, <1>3, SeqEqual
<1> QED
  BY <1>1, <1>4

(***************************************************************************)
(* The books                                                               *)
(***************************************************************************)

(* The invariants of the list, said of the set of its packets.             *)
PacketsAreHeld == \A e \in Elements(list) : m_bAbort \/ cookie[e.client] = e.cookie
OneShotsAreNew == \A e \in Elements(list) : e.periodic \/ signals[e.client] = 0
AdvisesAreListed ==
  \A c \in Clients : cookie[c] = 0 \/ m_bAbort \/ signals[c] > 0
                       \/ \E e \in Elements(list) : e.client = c
PacketsAreCounted == m_dwAdviseCount = Len(list)

PacketsAreOwned ==
  PacketsAreHeld /\ OneShotsAreNew /\ AdvisesAreListed /\ PacketsAreCounted

LEMMA OwnedPackets ==
  /\ PacketsAreOwned <=> ListBelongsToClients /\ OneShotRingsOnce
  /\ PacketsAreOwned' <=> ListBelongsToClients' /\ OneShotRingsOnce'
<1> DEFINE Held == \A i \in DOMAIN list : m_bAbort \/ cookie[list[i].client] = list[i].cookie
           Listed == \A c \in Clients : cookie[c] = 0 \/ m_bAbort \/ signals[c] > 0
                                           \/ \E i \in DOMAIN list : list[i].client = c
<1>1. /\ PacketsAreHeld <=> Held
      /\ OneShotsAreNew <=> OneShotRingsOnce
      /\ AdvisesAreListed <=> Listed
  BY DEF PacketsAreHeld, OneShotsAreNew, AdvisesAreListed, OneShotRingsOnce, Elements
<1>2. ListBelongsToClients <=> Held /\ Listed /\ PacketsAreCounted
  BY DEF ListBelongsToClients, PacketsAreCounted
<1>3. /\ PacketsAreHeld' <=> Held'
      /\ OneShotsAreNew' <=> OneShotRingsOnce'
      /\ AdvisesAreListed' <=> Listed'
  BY DEF PacketsAreHeld, OneShotsAreNew, AdvisesAreListed, OneShotRingsOnce, Elements
<1>4. ListBelongsToClients' <=> Held' /\ Listed' /\ PacketsAreCounted'
  BY DEF ListBelongsToClients, PacketsAreCounted
<1> HIDE DEF Held, Listed
<1> QED
  BY <1>1, <1>2, <1>3, <1>4 DEF PacketsAreOwned

LEMMA InitHolds == ClockInit => IInv
<1> SUFFICES ASSUME ClockInit PROVE IInv
  OBVIOUS
<1>1. TypeOK
  <2>1. m_ev \in BOOLEAN /\ m_bAbort \in BOOLEAN
    BY DEF ClockInit
  <2>5. list \in Seq(Packets)
    <3>1. list = <<>>
      BY DEF ClockInit
    <3> QED
      BY <3>1
  <2>2. MaxCookies \in Nat /\ CacheMax \in Nat /\ MaxSys \in Nat /\ MaxDeltas \in Nat
    BY ClockAssumption DEF ClockAssumption
  <2>3. cookie \in [Clients -> 0 .. MaxCookies] /\ signals \in [Clients -> Nat]
    BY <2>2 DEF ClockInit
  <2>4. highest = 0 /\ m_rtPrivateTime = 0
    BY DEF ClockInit, PrivateNow, Millisecond
  <2> QED
    BY <2>1, <2>2, <2>3, <2>4, <2>5 DEF ClockInit, TypeOK, Infinite
<1>2. Books
  BY DEF ClockInit, Books, ListBelongsToClients, OneShotRingsOnce, ScheduleInv, CookieInv, InOrder,
         OnePerClient
<1>3. LockInv
  BY DEF ClockInit, LockInv
<1>4. Timely
  BY DEF ClockInit, Timely, AwakeInv, AsleepInv, ClockTimeInv, PrivateNow, Millisecond
<1>5. SpinInv
  BY DEF ClockInit, SpinInv, NeverSpins
<1> QED
  BY <1>1, <1>2, <1>3, <1>4, <1>5 DEF IInv

LEMMA BooksKept ==
  ASSUME Books, m_bAbort' = m_bAbort \/ m_bAbort' = TRUE,
         list' = list, cookie' = cookie, signals' = signals,
         m_dwNextCookie' = m_dwNextCookie, m_dwAdviseCount' = m_dwAdviseCount
  PROVE  Books'
<1>1. ListBelongsToClients'
  BY DEF Books, ListBelongsToClients
<1>2. OneShotRingsOnce' /\ ScheduleInv' /\ CookieInv'
  BY DEF Books, OneShotRingsOnce, ScheduleInv, CookieInv, InOrder, OnePerClient
<1> QED
  BY <1>1, <1>2 DEF Books

(* Both ways of asking put a packet of the client's own on the list.       *)
LEMMA AddKeepsBooks ==
  ASSUME TypeOK, Books, NEW c \in Clients, NEW t \in Nat, NEW period \in Periods \union {0},
         NEW periodic \in BOOLEAN,
         ~m_bAbort, cookie[c] = 0, m_dwNextCookie < MaxCookies, m_bAbort' = m_bAbort,
         AddAdvisePacket(c, t, period, periodic)
  PROVE  /\ Books' /\ list' \in Seq(Packets) /\ list' # <<>>
         /\ m_dwNextCookie' \in 0 .. MaxCookies /\ m_dwAdviseCount' \in 0 .. MaxCookies
         /\ m_dwCacheCount' \in 0 .. CacheMax
         /\ cookie' \in [Clients -> 0 .. MaxCookies] /\ signals' \in [Clients -> Nat]
         /\ list'[1].cookie = cookie'[c] \/ (list # <<>> /\ list'[1] = list[1])
         /\ \E p \in Packets : /\ p.client = c /\ p.cookie = m_dwNextCookie'
                               /\ Elements(list') = Elements(list) \union {p}
<1> DEFINE p == [cookie |-> NewCookie, time |-> t, period |-> period, periodic |-> periodic,
                 client |-> c]
<1>1. /\ list' = InsertAt(list, Before(list, t) + 1, p)
      /\ m_dwNextCookie' = m_dwNextCookie + 1 /\ m_dwAdviseCount' = m_dwAdviseCount + 1
      /\ cookie' = [cookie EXCEPT ![c] = NewCookie] /\ signals' = [signals EXCEPT ![c] = 0]
      /\ m_dwCacheCount' = IF m_dwCacheCount > 0 THEN m_dwCacheCount - 1 ELSE 0
  BY DEF AddAdvisePacket
<1>2. /\ m_dwNextCookie \in 0 .. MaxCookies /\ m_dwAdviseCount \in 0 .. MaxCookies
      /\ m_dwCacheCount \in 0 .. CacheMax /\ list \in Seq(Packets)
      /\ cookie \in [Clients -> 0 .. MaxCookies] /\ signals \in [Clients -> Nat]
      /\ MaxCookies \in Nat /\ CacheMax \in Nat
  BY ClockAssumption DEF TypeOK, ClockAssumption
<1>3. p \in Packets
  <2>1. NewCookie \in 1 .. MaxCookies
    BY <1>2 DEF NewCookie
  <2> QED
    BY <2>1, ZenonT(30) DEF Packets
<1>4. p.client = c /\ p.time = t /\ p.cookie = NewCookie
  OBVIOUS
<1>5. PacketsAreOwned /\ InOrder(list) /\ OnePerClient(list) /\ CookieInv
  BY OwnedPackets DEF Books, ScheduleInv
<1>6. /\ DOMAIN list = 1 .. Len(list) /\ Len(list) \in Nat
      /\ \A i \in 1 .. Len(list) :
           /\ list[i] \in Packets /\ list[i].time \in Nat /\ list[i].client \in Clients
           /\ list[i].cookie \in 1 .. MaxCookies
  BY <1>2, PacketAt
<1>7. PICK k \in 0 .. Len(list) :
        /\ k = Before(list, t)
        /\ \A i \in 1 .. Len(list) : list[i].time < t <=> i <= k
  <2>1. t \in Int
    OBVIOUS
  <2>2. list \in Seq(Packets) /\ InOrder(list)
    BY <1>2, <1>5
  <2> QED
    BY ONLY <2>1, <2>2, BeforeSplits
<1>8. \A e \in Elements(list) : /\ cookie[e.client] = e.cookie /\ e.cookie # 0
                                 /\ e.client \in Clients /\ e.client # c
  BY <1>5, <1>6 DEF Elements, PacketsAreOwned, PacketsAreHeld
<1>9. /\ \A i \in 1 .. Len(list) : list[i].client # p.client
      /\ \A i \in 1 .. Len(list) :
           (i <= k => list[i].time <= p.time) /\ (i > k => p.time <= list[i].time)
  BY <1>4, <1>6, <1>7, <1>8 DEF Elements
<1> HIDE DEF p
<1>10. /\ list' \in Seq(Packets) /\ Len(list') = Len(list) + 1
       /\ InOrder(list') /\ OnePerClient(list') /\ Elements(list') = Elements(list) \union {p}
       /\ list'[1] = IF k = 0 THEN p ELSE list[1]
  <2>1. list \in Seq(Packets) /\ list' = InsertAt(list, k + 1, p)
    BY <1>1, <1>2, <1>7
  <2>2. InOrder(list) /\ OnePerClient(list) /\ k \in 0 .. Len(list)
    BY <1>5, <1>7
  <2> QED
    <3>1. /\ InsertAt(list, k + 1, p) \in Seq(Packets)
          /\ Len(InsertAt(list, k + 1, p)) = Len(list) + 1
          /\ InOrder(InsertAt(list, k + 1, p)) /\ OnePerClient(InsertAt(list, k + 1, p))
          /\ Elements(InsertAt(list, k + 1, p)) = Elements(list) \union {p}
          /\ k = 0 => InsertAt(list, k + 1, p)[1] = p
          /\ k # 0 => InsertAt(list, k + 1, p)[1] = list[1]
      BY ONLY <2>1, <2>2, <1>3, <1>9, InsertAtKeeps, ZenonT(90)
    <3> QED
      BY ONLY <2>1, <3>1
<1>12. /\ \A d \in Clients : d # c => cookie'[d] = cookie[d] /\ signals'[d] = signals[d]
       /\ cookie'[c] = NewCookie /\ signals'[c] = 0 /\ NewCookie \in 1 .. MaxCookies
  BY <1>1, <1>2 DEF NewCookie
<1>13. PacketsAreOwned'
  <2>1. PacketsAreHeld'
    <3>1. \A e \in Elements(list') : cookie'[e.client] = e.cookie
      BY <1>4, <1>8, <1>10, <1>12
    <3> QED
      BY <3>1 DEF PacketsAreHeld, Elements
  <2>2. OneShotsAreNew'
    <3>1. \A e \in Elements(list') : e.periodic \/ signals'[e.client] = 0
      BY <1>4, <1>5, <1>8, <1>10, <1>12 DEF PacketsAreOwned, OneShotsAreNew
    <3> QED
      BY <3>1 DEF OneShotsAreNew, Elements
  <2>3. AdvisesAreListed'
    <3>1. \A d \in Clients : cookie'[d] = 0 \/ signals'[d] > 0
                                \/ \E e \in Elements(list') : e.client = d
      BY <1>4, <1>5, <1>10, <1>12 DEF PacketsAreOwned, AdvisesAreListed
    <3> QED
      BY <3>1 DEF AdvisesAreListed, Elements
  <2>4. PacketsAreCounted'
    BY <1>1, <1>5, <1>10 DEF PacketsAreOwned, PacketsAreCounted
  <2> QED
    BY <2>1, <2>2, <2>3, <2>4 DEF PacketsAreOwned
<1>14. CookieInv'
  <2>1. \A d \in Clients : cookie[d] \in 0 .. MaxCookies /\ cookie[d] <= m_dwNextCookie
    BY <1>2, <1>5 DEF CookieInv
  <2> QED
    BY <1>1, <1>2, <1>5, <1>12, <2>1 DEF CookieInv, NewCookie
<1>15. Books'
  BY <1>10, <1>13, <1>14, OwnedPackets DEF Books, ScheduleInv
<1>16. list' # <<>> /\ (list'[1].cookie = cookie'[c] \/ (list # <<>> /\ list'[1] = list[1]))
  <2>1. CASE k = 0
    BY <1>4, <1>6, <1>10, <1>12, <2>1
  <2>2. CASE k # 0
    BY <1>6, <1>7, <1>10, <2>2
  <2> QED
    BY <2>1, <2>2
<1>17. /\ m_dwNextCookie' \in 0 .. MaxCookies /\ m_dwAdviseCount' \in 0 .. MaxCookies
       /\ m_dwCacheCount' \in 0 .. CacheMax
       /\ cookie' \in [Clients -> 0 .. MaxCookies] /\ signals' \in [Clients -> Nat]
  <2>1. m_dwAdviseCount <= m_dwNextCookie
    BY <1>5 DEF CookieInv
  <2> QED
    BY <1>1, <1>2, <1>12, <2>1
<1>18. m_dwNextCookie' = NewCookie
  BY <1>1 DEF NewCookie
<1> QED
  BY <1>3, <1>4, <1>10, <1>15, <1>16, <1>17, <1>18

LEMMA RemoveFromList ==
  ASSUME list \in Seq(Packets), InOrder(list), OnePerClient(list), NEW k \in 1 .. Len(list),
         list' = RemoveAt(list, k)
  PROVE  /\ list' \in Seq(Packets) /\ Len(list') = Len(list) - 1
         /\ InOrder(list') /\ OnePerClient(list')
         /\ Elements(list') = Elements(list) \ {list[k]}
         /\ list' # <<>> => list[1].time <= list'[1].time
<1>1. /\ RemoveAt(list, k) \in Seq(Packets)
      /\ Len(RemoveAt(list, k)) = Len(list) - 1
  BY RemoveAtProperties, ZenonT(30)
<1>2. /\ InOrder(RemoveAt(list, k)) /\ OnePerClient(RemoveAt(list, k))
      /\ Elements(RemoveAt(list, k)) = Elements(list) \ {list[k]}
      /\ RemoveAt(list, k) # <<>> => list[1].time <= RemoveAt(list, k)[1].time
  BY RemoveAtKeeps, ZenonT(30)
<1> QED
  BY <1>1, <1>2

LEMMA UnadviseKeepsBooks ==
  ASSUME TypeOK, Books, NEW c \in Clients, Unadvise(c)
  PROVE  /\ Books' /\ list' \in Seq(Packets)
         /\ m_dwAdviseCount' \in 0 .. MaxCookies /\ m_dwCacheCount' \in 0 .. CacheMax
         /\ cookie' \in [Clients -> 0 .. MaxCookies]
         /\ list' # <<>> => list # <<>> /\ list[1].time <= list'[1].time
         /\ \/ Elements(list') = Elements(list)
            \/ \E e \in Elements(list) : e.client = c /\ Elements(list') = Elements(list) \ {e}
<1> DEFINE hits == {i \in DOMAIN list : list[i].cookie = cookie[c]}
           k == CHOOSE i \in hits : \A j \in hits : i <= j
<1>1. /\ ~m_bAbort /\ cookie[c] # 0 /\ cookie' = [cookie EXCEPT ![c] = 0]
      /\ m_dwNextCookie' = m_dwNextCookie /\ signals' = signals /\ m_bAbort' = m_bAbort
      /\ hits = {} => /\ list' = list /\ m_dwAdviseCount' = m_dwAdviseCount
                      /\ m_dwCacheCount' = m_dwCacheCount
      /\ hits # {} => /\ list' = RemoveAt(list, k) /\ m_dwAdviseCount' = m_dwAdviseCount - 1
                      /\ DeletePacket
  BY DEF Unadvise
<1>2. /\ m_dwAdviseCount \in 0 .. MaxCookies /\ m_dwCacheCount \in 0 .. CacheMax
      /\ list \in Seq(Packets) /\ signals \in [Clients -> Nat]
      /\ cookie \in [Clients -> 0 .. MaxCookies] /\ MaxCookies \in Nat /\ CacheMax \in Nat
  BY ClockAssumption DEF TypeOK, ClockAssumption
<1>3. PacketsAreOwned /\ InOrder(list) /\ OnePerClient(list) /\ CookieInv
  BY OwnedPackets DEF Books, ScheduleInv
<1>4. /\ DOMAIN list = 1 .. Len(list) /\ Len(list) \in Nat
      /\ \A i \in 1 .. Len(list) :
           /\ list[i] \in Packets /\ list[i].time \in Nat /\ list[i].client \in Clients
           /\ list[i].cookie \in 1 .. MaxCookies
  BY <1>2, PacketAt
<1>5. \A e \in Elements(list) : cookie[e.client] = e.cookie /\ e.client \in Clients
  BY <1>1, <1>3, <1>4 DEF Elements, PacketsAreOwned, PacketsAreHeld
<1>6. /\ cookie'[c] = 0
      /\ \A d \in Clients : d # c => cookie'[d] = cookie[d]
      /\ cookie' \in [Clients -> 0 .. MaxCookies]
  BY <1>1, <1>2
<1>7. CookieInv' <=> /\ m_dwAdviseCount' <= m_dwNextCookie
                     /\ \A d, e \in Clients : cookie'[d] = cookie'[e] /\ cookie'[d] # 0 => d = e
                     /\ \A d \in Clients : cookie'[d] <= m_dwNextCookie
  BY <1>1 DEF CookieInv
<1>8. /\ \A d, e \in Clients : cookie'[d] = cookie'[e] /\ cookie'[d] # 0 => d = e
      /\ \A d \in Clients : cookie'[d] <= m_dwNextCookie
      /\ m_dwNextCookie \in Nat
  <2>1. m_dwNextCookie \in Nat
    BY <1>2 DEF TypeOK
  <2> QED
    BY <1>3, <1>6, <2>1 DEF CookieInv
<1>9. CASE hits = {}
  <2>1. \A e \in Elements(list) : e.client # c
    BY <1>4, <1>5, <1>9 DEF Elements
  <2>2. PacketsAreOwned'
    <3>1. PacketsAreHeld' /\ OneShotsAreNew'
      <4>1. \A e \in Elements(list) : cookie'[e.client] = e.cookie
        BY <1>5, <1>6, <2>1
      <4> QED
        BY <1>1, <1>3, <1>9, <4>1
        DEF PacketsAreOwned, PacketsAreHeld, OneShotsAreNew, Elements
    <3>2. AdvisesAreListed'
      BY <1>1, <1>3, <1>6, <1>9 DEF PacketsAreOwned, AdvisesAreListed, Elements
    <3>3. PacketsAreCounted'
      BY <1>1, <1>3, <1>9 DEF PacketsAreOwned, PacketsAreCounted
    <3> QED
      BY <3>1, <3>2, <3>3 DEF PacketsAreOwned
  <2>3. CookieInv'
    BY <1>1, <1>3, <1>7, <1>8, <1>9 DEF CookieInv
  <2>4. InOrder(list') /\ OnePerClient(list')
    BY <1>1, <1>3, <1>9
  <2>5. Books'
    BY <2>2, <2>3, <2>4, OwnedPackets DEF Books, ScheduleInv
  <2>6. list' # <<>> => list # <<>> /\ list[1].time <= list'[1].time
    BY <1>1, <1>4, <1>9
  <2>7. Elements(list') = Elements(list)
    BY <1>1, <1>9
  <2> QED
    BY <1>1, <1>2, <1>6, <1>9, <2>5, <2>6, <2>7
<1>10. CASE hits # {}
  <2>1. k \in hits
    <3>1. \E i \in hits : \A j \in hits : i <= j
      <4>1. hits \subseteq Nat
        BY <1>4
      <4> HIDE DEF hits
      <4> QED
        BY <1>10, <4>1, LeastNumber
    <3> QED
      BY <3>1
  <2> HIDE DEF k
  <2>2. k \in 1 .. Len(list) /\ list[k].cookie = cookie[c]
    BY <1>4, <2>1
  <2>3. list[k] \in Elements(list) /\ list[k].client = c
    <3>1. list[k] \in Elements(list)
      BY <1>4, <2>2 DEF Elements
    <3> QED
      BY <1>1, <1>3, <1>5, <2>2, <3>1 DEF CookieInv
  <2> HIDE DEF hits
  <2>4. list' = RemoveAt(list, k) /\ m_dwAdviseCount' = m_dwAdviseCount - 1 /\ DeletePacket
    BY <1>1, <1>10
  <2>5. /\ list' \in Seq(Packets) /\ Len(list') = Len(list) - 1
        /\ InOrder(list') /\ OnePerClient(list')
        /\ Elements(list') = Elements(list) \ {list[k]}
        /\ list' # <<>> => list[1].time <= list'[1].time
    BY <1>2, <1>3, <2>2, <2>4, RemoveFromList, ZenonT(30)
  <2>6. \A e \in Elements(list') : e \in Elements(list) /\ e.client # c
    BY <1>4, <2>2, <2>3, <2>5, <1>3 DEF OnePerClient, Elements
  <2>7. PacketsAreOwned'
    <3>1. PacketsAreHeld' /\ OneShotsAreNew'
      <4>1. \A e \in Elements(list') : cookie'[e.client] = e.cookie
        BY <1>1, <1>3, <1>5, <1>6, <2>6
      <4>2. \A e \in Elements(list') : e.periodic \/ signals'[e.client] = 0
        BY <1>1, <1>3, <2>6 DEF PacketsAreOwned, OneShotsAreNew
      <4>3. PacketsAreHeld'
        BY <4>1 DEF PacketsAreHeld, Elements
      <4>4. OneShotsAreNew'
        BY <4>2 DEF OneShotsAreNew, Elements
      <4> QED
        BY <4>3, <4>4
    <3>2. AdvisesAreListed'
      <4>1. \A d \in Clients : cookie'[d] = 0 \/ signals'[d] > 0
                                  \/ \E e \in Elements(list') : e.client = d
        BY <1>1, <1>3, <1>6, <2>3, <2>5 DEF PacketsAreOwned, AdvisesAreListed
      <4> QED
        BY <4>1 DEF AdvisesAreListed, Elements
    <3>3. PacketsAreCounted'
      BY <1>3, <2>4, <2>5 DEF PacketsAreOwned, PacketsAreCounted
    <3> QED
      BY <3>1, <3>2, <3>3 DEF PacketsAreOwned
  <2>8. CookieInv'
    BY <1>2, <1>3, <1>7, <1>8, <2>4 DEF CookieInv
  <2>9. Books'
    BY <2>5, <2>7, <2>8, OwnedPackets DEF Books, ScheduleInv
  <2>10. m_dwAdviseCount' \in 0 .. MaxCookies /\ m_dwCacheCount' \in 0 .. CacheMax
    BY <1>2, <1>3, <1>4, <2>2, <2>4 DEF PacketsAreOwned, PacketsAreCounted, DeletePacket
  <2>11. list # <<>>
    BY <1>4, <2>2
  <2> QED
    BY <1>6, <2>3, <2>5, <2>9, <2>10, <2>11
<1> QED
  BY <1>9, <1>10

LEMMA FireKeepsBooks ==
  ASSUME TypeOK, Books, Fire
  PROVE  /\ Books' /\ list' \in Seq(Packets)
         /\ m_dwAdviseCount' \in 0 .. MaxCookies /\ m_dwCacheCount' \in 0 .. CacheMax
         /\ signals' \in [Clients -> Nat]
         /\ Head(list) \in Elements(list)
         /\ \A e \in Elements(list) : Head(list).time <= e.time
         /\ Elements(list') = (Elements(list) \ {Head(list)}) \union
              (IF Head(list).periodic
               THEN {[Head(list) EXCEPT !.time = @ + Head(list).period]} ELSE {})
<1> DEFINE h == list[1]
           p == [h EXCEPT !.time = @ + h.period]
<1>1. /\ list # <<>> /\ signals' = [signals EXCEPT ![Head(list).client] = @ + 1]
      /\ Head(list).periodic => /\ ShuntHead /\ m_dwAdviseCount' = m_dwAdviseCount
                                /\ m_dwCacheCount' = m_dwCacheCount
      /\ ~Head(list).periodic => /\ list' = Tail(list) /\ m_dwAdviseCount' = m_dwAdviseCount - 1
                                 /\ DeletePacket
      /\ m_dwNextCookie' = m_dwNextCookie /\ m_bAbort' = m_bAbort /\ cookie' = cookie
  BY DEF Fire, Due
<1>2. /\ m_dwAdviseCount \in 0 .. MaxCookies /\ m_dwCacheCount \in 0 .. CacheMax
      /\ list \in Seq(Packets) /\ signals \in [Clients -> Nat]
      /\ MaxCookies \in Nat /\ CacheMax \in Nat /\ m_dwNextCookie \in Nat
  BY ClockAssumption DEF TypeOK, ClockAssumption
<1>3. PacketsAreOwned /\ InOrder(list) /\ OnePerClient(list) /\ CookieInv
  BY OwnedPackets DEF Books, ScheduleInv
<1>4. /\ DOMAIN list = 1 .. Len(list) /\ Len(list) \in Nat
      /\ \A i \in 1 .. Len(list) :
           /\ list[i] \in Packets /\ list[i].time \in Nat /\ list[i].client \in Clients
           /\ list[i].cookie \in 1 .. MaxCookies
  BY <1>2, PacketAt
<1>5. 1 \in 1 .. Len(list) /\ Head(list) = h /\ Tail(list) = RemoveAt(list, 1)
  BY <1>1, <1>2, TailIsRemoval
<1>6. h \in Packets /\ h \in Elements(list)
  BY <1>4, <1>5 DEF Elements
<1>7. \A e \in Elements(list) : h.time <= e.time
  <2> SUFFICES ASSUME NEW i \in 1 .. Len(list) PROVE h.time <= list[i].time
    BY <1>4 DEF Elements
  <2>1. CASE i = 1
    BY <1>4, <1>5, <2>1
  <2>2. CASE i > 1
    BY <1>3, <1>4, <1>5, <2>2 DEF InOrder
  <2> QED
    BY <2>1, <2>2
<1>8. \A e \in Elements(list) : e # h => e.client # h.client
  BY <1>3, <1>4, <1>5 DEF OnePerClient, Elements
<1> HIDE DEF h
<1>9. /\ h.client \in Clients /\ h.time \in Nat /\ h.period \in Nat
      /\ h.periodic \in BOOLEAN
  BY <1>6, PacketFields
<1>10. /\ signals' \in [Clients -> Nat]
       /\ signals'[h.client] = signals[h.client] + 1
       /\ \A d \in Clients : d # h.client => signals'[d] = signals[d]
  BY <1>1, <1>2, <1>5, <1>9
<1>11. \A d \in Clients : signals[d] > 0 => signals'[d] > 0
  BY <1>2, <1>9, <1>10
<1>12. /\ RemoveAt(list, 1) \in Seq(Packets) /\ Len(RemoveAt(list, 1)) = Len(list) - 1
       /\ InOrder(RemoveAt(list, 1)) /\ OnePerClient(RemoveAt(list, 1))
       /\ Elements(RemoveAt(list, 1)) = Elements(list) \ {h}
  <2>1. /\ RemoveAt(list, 1) \in Seq(Packets) /\ Len(RemoveAt(list, 1)) = Len(list) - 1
    BY <1>2, <1>5, RemoveAtProperties, ZenonT(30)
  <2>2. /\ InOrder(RemoveAt(list, 1)) /\ OnePerClient(RemoveAt(list, 1))
        /\ Elements(RemoveAt(list, 1)) = Elements(list) \ {list[1]}
    BY <1>2, <1>3, <1>5, RemoveAtKeeps, ZenonT(30)
  <2> QED
    BY <2>1, <2>2 DEF h
<1>13. CASE ~h.periodic
  <2>1. list' = RemoveAt(list, 1) /\ m_dwAdviseCount' = m_dwAdviseCount - 1 /\ DeletePacket
    BY <1>1, <1>5, <1>13
  <2>2. \A e \in Elements(list') : e \in Elements(list) /\ e.client # h.client
    BY <1>8, <1>12, <2>1
  <2>3. \A e \in Elements(list) : e.client \in Clients
    BY <1>4 DEF Elements
  <2>4. PacketsAreHeld'
    <3>1. \A e \in Elements(list') : m_bAbort \/ cookie[e.client] = e.cookie
      BY <1>3, <2>2 DEF PacketsAreOwned, PacketsAreHeld
    <3> QED
      BY <1>1, <3>1 DEF PacketsAreHeld, Elements
  <2>5. OneShotsAreNew'
    <3>1. \A e \in Elements(list') : e.periodic \/ signals'[e.client] = 0
      BY <1>3, <1>10, <2>2, <2>3 DEF PacketsAreOwned, OneShotsAreNew
    <3> QED
      BY <3>1 DEF OneShotsAreNew, Elements
  <2>6. AdvisesAreListed'
    <3>1. \A d \in Clients : cookie[d] = 0 \/ m_bAbort \/ signals'[d] > 0
                                \/ \E e \in Elements(list') : e.client = d
      <4> SUFFICES ASSUME NEW d \in Clients, cookie[d] # 0, ~m_bAbort
                   PROVE  signals'[d] > 0 \/ \E e \in Elements(list') : e.client = d
        OBVIOUS
      <4>1. CASE d = h.client
        BY <1>2, <1>10, <4>1
      <4>2. CASE d # h.client
        BY <1>3, <1>11, <1>12, <2>1, <4>2 DEF PacketsAreOwned, AdvisesAreListed
      <4> QED
        BY <4>1, <4>2
    <3> QED
      BY <1>1, <3>1 DEF AdvisesAreListed, Elements
  <2>7. PacketsAreCounted'
    BY <1>3, <1>12, <2>1 DEF PacketsAreOwned, PacketsAreCounted
  <2>8. CookieInv'
    BY <1>1, <1>2, <1>3, <2>1 DEF CookieInv
  <2>9. Books'
    BY <1>12, <2>1, <2>4, <2>5, <2>6, <2>7, <2>8, OwnedPackets DEF Books, ScheduleInv, PacketsAreOwned
  <2>10. m_dwAdviseCount' \in 0 .. MaxCookies /\ m_dwCacheCount' \in 0 .. CacheMax
    BY <1>2, <1>3, <1>4, <1>5, <2>1 DEF PacketsAreOwned, PacketsAreCounted, DeletePacket
  <2>11. Elements(list') = (Elements(list) \ {Head(list)}) \union
              (IF Head(list).periodic
               THEN {[Head(list) EXCEPT !.time = @ + Head(list).period]} ELSE {})
    BY <1>5, <1>12, <1>13, <2>1
  <2> QED
    BY <1>5, <1>6, <1>7, <1>10, <1>12, <2>1, <2>9, <2>10, <2>11
<1>14. CASE h.periodic
  <2> DEFINE rest == RemoveAt(list, 1)
  <2>1. p \in Packets /\ p.client = h.client /\ p.cookie = h.cookie /\ p.time = h.time + h.period
                      /\ p.periodic
    <3>1. /\ p.client = h.client /\ p.cookie = h.cookie /\ p.time = h.time + h.period
          /\ p.periodic = h.periodic
      BY <1>6 DEF Packets
    <3>2. p \in Packets
      <4>1. h.time + h.period \in Nat
        BY <1>9
      <4> QED
        BY <1>6, <4>1 DEF Packets
    <3> QED
      BY <1>14, <3>1, <3>2
  <2>2. list' = InsertAt(rest, NotAfter(rest, p.time) + 1, p) /\ m_dwAdviseCount' = m_dwAdviseCount
        /\ m_dwCacheCount' = m_dwCacheCount
    BY <1>1, <1>5, <1>14 DEF ShuntHead
  <2> HIDE DEF p
  <2>3. PICK k \in 0 .. Len(rest) :
          /\ k = NotAfter(rest, p.time)
          /\ \A i \in 1 .. Len(rest) : rest[i].time <= p.time <=> i <= k
    <3>1. p.time \in Int
      BY <2>1, <1>9
    <3>2. rest \in Seq(Packets) /\ InOrder(rest)
      BY <1>12
    <3> QED
      BY ONLY <3>1, <3>2, NotAfterSplits
  <2>4. \A i \in 1 .. Len(rest) : /\ rest[i] \in Elements(rest) /\ rest[i].time \in Nat
                                  /\ rest[i].client # p.client
    <3>1. DOMAIN rest = 1 .. Len(rest) /\ \A i \in 1 .. Len(rest) : rest[i].time \in Nat
      BY <1>12, PacketAt
    <3> QED
      BY <1>8, <1>12, <2>1, <3>1 DEF Elements
  <2> HIDE DEF rest
  <2>5. /\ list' \in Seq(Packets) /\ Len(list') = Len(rest) + 1
        /\ InOrder(list') /\ OnePerClient(list')
        /\ Elements(list') = Elements(rest) \union {p}
    <3>1. rest \in Seq(Packets) /\ InOrder(rest) /\ OnePerClient(rest)
      BY <1>12 DEF rest
    <3>2. p \in Packets /\ p.time \in Nat
      BY <1>9, <2>1
    <3>3. /\ \A i \in 1 .. Len(rest) : rest[i].client # p.client
          /\ \A i \in 1 .. Len(rest) :
               (i <= k => rest[i].time <= p.time) /\ (i > k => p.time <= rest[i].time)
      BY <2>3, <2>4, <3>2
    <3>4. /\ InsertAt(rest, k + 1, p) \in Seq(Packets)
          /\ Len(InsertAt(rest, k + 1, p)) = Len(rest) + 1
          /\ InOrder(InsertAt(rest, k + 1, p)) /\ OnePerClient(InsertAt(rest, k + 1, p))
          /\ Elements(InsertAt(rest, k + 1, p)) = Elements(rest) \union {p}
      BY ONLY <3>1, <3>2, <3>3, k \in 0 .. Len(rest), InsertAtKeeps, ZenonT(90)
    <3>5. list' = InsertAt(rest, k + 1, p)
      BY <2>2, <2>3
    <3> QED
      BY ONLY <3>4, <3>5
  <2>6. Elements(list') = (Elements(list) \ {h}) \union {p}
    BY <1>12, <2>5 DEF rest
  <2>7. \A e \in Elements(list') : e = p \/ (e \in Elements(list) /\ e.client # h.client)
    BY <1>8, <2>6
  <2>8. \A e \in Elements(list) : e.client \in Clients
    BY <1>4 DEF Elements
  <2>9. PacketsAreHeld'
    <3>1. \A e \in Elements(list') : m_bAbort \/ cookie[e.client] = e.cookie
      BY <1>3, <1>6, <2>1, <2>7 DEF PacketsAreOwned, PacketsAreHeld
    <3> QED
      BY <1>1, <3>1 DEF PacketsAreHeld, Elements
  <2>10. OneShotsAreNew'
    <3>1. \A e \in Elements(list') : e.periodic \/ signals'[e.client] = 0
      BY <1>3, <1>10, <2>1, <2>7, <2>8 DEF PacketsAreOwned, OneShotsAreNew
    <3> QED
      BY <3>1 DEF OneShotsAreNew, Elements
  <2>11. AdvisesAreListed'
    <3>1. \A d \in Clients : cookie[d] = 0 \/ m_bAbort \/ signals'[d] > 0
                                \/ \E e \in Elements(list') : e.client = d
      <4> SUFFICES ASSUME NEW d \in Clients, cookie[d] # 0, ~m_bAbort
                   PROVE  signals'[d] > 0 \/ \E e \in Elements(list') : e.client = d
        OBVIOUS
      <4>1. CASE d = h.client
        BY <1>2, <1>10, <4>1
      <4>2. CASE d # h.client
        BY <1>3, <1>11, <2>6, <4>2 DEF PacketsAreOwned, AdvisesAreListed
      <4> QED
        BY <4>1, <4>2
    <3> QED
      BY <1>1, <3>1 DEF AdvisesAreListed, Elements
  <2>12. PacketsAreCounted'
    BY <1>3, <1>4, <1>12, <2>2, <2>5 DEF PacketsAreOwned, PacketsAreCounted, rest
  <2>13. CookieInv'
    BY <1>1, <1>2, <1>3, <2>2 DEF CookieInv
  <2>14. Books'
    BY <2>5, <2>9, <2>10, <2>11, <2>12, <2>13, OwnedPackets DEF Books, ScheduleInv, PacketsAreOwned
  <2>15. Elements(list') = (Elements(list) \ {Head(list)}) \union
              (IF Head(list).periodic
               THEN {[Head(list) EXCEPT !.time = @ + Head(list).period]} ELSE {})
    BY <1>5, <1>14, <2>6 DEF p
  <2> QED
    BY <1>2, <1>5, <1>6, <1>7, <1>10, <2>2, <2>5, <2>14, <2>15
<1> QED
  BY <1>9, <1>13, <1>14

(***************************************************************************)
(* The steps                                                               *)
(***************************************************************************)

LEMMA Numbers ==
  ASSUME TypeOK
  PROVE  /\ sys \in Nat /\ m_dwPrevSystemTime \in Nat /\ m_dwPrevSystemTime <= sys
         /\ m_rtPrivateTime \in Int /\ m_rtLastGotTime \in Int /\ rtNow \in Int
         /\ highest \in Int /\ drift \in Nat /\ deadline \in Int /\ looked \in Nat
         /\ PrivateNow \in Int
  BY ClockAssumption DEF TypeOK, ClockAssumption, PrivateNow, Millisecond, Infinite

LEMMA FirstPacket ==
  ASSUME NEW l \in Seq(Packets), l # <<>>
  PROVE  /\ Head(l) = l[1] /\ 1 \in DOMAIN l /\ l[1] \in Packets /\ l[1].time \in Nat
  BY PacketAt, TailIsRemoval

LEMMA AddStep ==
  ASSUME IInv, NEW c \in Clients, NEW t \in Nat, NEW period \in Periods \union {0},
         NEW periodic \in BOOLEAN,
         ~m_bAbort, cookie[c] = 0, m_dwNextCookie < MaxCookies,
         AddAdvisePacket(c, t, period, periodic),
         UNCHANGED <<m_ev, sys, times, m_bAbort, thread, history>>
  PROVE  IInv'
<1>1. /\ m_ev' = m_ev /\ sys' = sys /\ m_dwPrevSystemTime' = m_dwPrevSystemTime
      /\ m_rtPrivateTime' = m_rtPrivateTime /\ m_rtLastGotTime' = m_rtLastGotTime
      /\ m_bAbort' = m_bAbort /\ pc' = pc /\ rtNow' = rtNow /\ looked' = looked /\ deadline' = deadline
      /\ highest' = highest /\ drift' = drift /\ deltas' = deltas
      /\ holder = "none" /\ holder' = c
  BY DEF times, thread, history, AddAdvisePacket
<1>2. TypeOK /\ Books /\ LockInv /\ AwakeInv /\ AsleepInv /\ ClockTimeInv
  BY DEF IInv, Timely
<1>3. /\ Books' /\ list' \in Seq(Packets) /\ list' # <<>>
      /\ m_dwNextCookie' \in 0 .. MaxCookies /\ m_dwAdviseCount' \in 0 .. MaxCookies
      /\ m_dwCacheCount' \in 0 .. CacheMax
      /\ cookie' \in [Clients -> 0 .. MaxCookies] /\ signals' \in [Clients -> Nat]
      /\ list'[1].cookie = cookie'[c] \/ (list # <<>> /\ list'[1] = list[1])
  BY <1>1, <1>2, AddKeepsBooks
<1>4. TypeOK'
  BY <1>1, <1>2, <1>3 DEF TypeOK
<1>5. "none" \notin Clients /\ "thread" \notin Clients
  BY ClockAssumption DEF ClockAssumption
<1>6. LockInv'
  BY <1>1, <1>2, <1>5 DEF LockInv
<1>7. ~Announcing /\ PrivateNow' = PrivateNow
  BY <1>1, <1>5 DEF Announcing, PrivateNow
<1>8. Announcing' \/ (list # <<>> /\ list'[1] = list[1])
  <2>1. Head(list') = list'[1]
    BY <1>3, FirstPacket
  <2> QED
    BY <1>1, <1>3, <2>1 DEF Announcing, IsNewHead
<1>9. AwakeInv'
  BY <1>1, <1>2, <1>7, <1>8 DEF AwakeInv
<1>10. AsleepInv'
  BY <1>1, <1>2, <1>7, <1>8 DEF AsleepInv, Infinite
<1>11. ClockTimeInv'
  BY <1>1, <1>2, <1>7 DEF ClockTimeInv
<1>20. SpinInv'
  BY <1>1, <1>2 DEF IInv, SpinInv, NeverSpins
<1> QED
  BY <1>20, <1>3, <1>4, <1>6, <1>9, <1>10, <1>11 DEF IInv, Timely

LEMMA AnnounceStep ==
  ASSUME IInv, NEW c \in Clients, Announce(c)
  PROVE  IInv'
<1>1. /\ list' = list /\ m_dwNextCookie' = m_dwNextCookie /\ m_dwAdviseCount' = m_dwAdviseCount
      /\ m_dwCacheCount' = m_dwCacheCount /\ cookie' = cookie /\ signals' = signals
      /\ sys' = sys /\ m_dwPrevSystemTime' = m_dwPrevSystemTime
      /\ m_rtPrivateTime' = m_rtPrivateTime /\ m_rtLastGotTime' = m_rtLastGotTime
      /\ m_bAbort' = m_bAbort /\ pc' = pc /\ rtNow' = rtNow /\ looked' = looked /\ deadline' = deadline
      /\ highest' = highest /\ drift' = drift /\ deltas' = deltas
      /\ holder = c /\ holder' = "none" /\ m_ev' = (m_ev \/ IsNewHead(c))
  BY DEF Announce, schedule, times, thread, clients, history
<1>2. TypeOK /\ Books /\ LockInv /\ AwakeInv /\ AsleepInv /\ ClockTimeInv
  BY DEF IInv, Timely
<1>3. Books'
  BY <1>1, <1>2, BooksKept
<1>4. TypeOK'
  <2>1. m_ev' \in BOOLEAN
    BY <1>1
  <2> QED
    BY <1>1, <1>2, <2>1 DEF TypeOK
<1>5. "none" \notin Clients /\ "thread" \notin Clients
  BY ClockAssumption DEF ClockAssumption
<1>6. LockInv'
  BY <1>1, <1>2, <1>5 DEF LockInv
<1>7. /\ PrivateNow' = PrivateNow
      /\ Announcing => m_ev'
      /\ ~m_ev' => ~m_ev
  BY <1>1 DEF Announcing, PrivateNow
<1>8. AwakeInv'
  BY <1>1, <1>2, <1>7 DEF AwakeInv
<1>9. AsleepInv'
  BY <1>1, <1>2, <1>7 DEF AsleepInv, Infinite
<1>10. ClockTimeInv'
  BY <1>1, <1>2, <1>7 DEF ClockTimeInv
<1>20. SpinInv'
  BY <1>1, <1>2 DEF IInv, SpinInv, NeverSpins
<1> QED
  BY <1>20, <1>3, <1>4, <1>6, <1>8, <1>9, <1>10 DEF IInv, Timely

LEMMA UnadviseStep ==
  ASSUME IInv, NEW c \in Clients, Unadvise(c)
  PROVE  IInv'
<1>1. /\ m_ev' = m_ev /\ sys' = sys /\ m_dwPrevSystemTime' = m_dwPrevSystemTime
      /\ m_rtPrivateTime' = m_rtPrivateTime /\ m_rtLastGotTime' = m_rtLastGotTime
      /\ m_bAbort' = m_bAbort /\ pc' = pc /\ rtNow' = rtNow /\ looked' = looked /\ deadline' = deadline
      /\ highest' = highest /\ drift' = drift /\ deltas' = deltas
      /\ signals' = signals /\ m_dwNextCookie' = m_dwNextCookie
      /\ holder = "none" /\ holder' = holder
  BY DEF Unadvise, times, thread, history
<1>2. TypeOK /\ Books /\ LockInv /\ AwakeInv /\ AsleepInv /\ ClockTimeInv
  BY DEF IInv, Timely
<1>3. /\ Books' /\ list' \in Seq(Packets)
      /\ m_dwAdviseCount' \in 0 .. MaxCookies /\ m_dwCacheCount' \in 0 .. CacheMax
      /\ cookie' \in [Clients -> 0 .. MaxCookies]
      /\ list' # <<>> => list # <<>> /\ list[1].time <= list'[1].time
  BY <1>2, UnadviseKeepsBooks
<1>4. TypeOK'
  BY <1>1, <1>2, <1>3 DEF TypeOK
<1>5. LockInv'
  BY <1>1, <1>2 DEF LockInv
<1>6. ~Announcing /\ PrivateNow' = PrivateNow
  <2>1. "none" \notin Clients
    BY ClockAssumption DEF ClockAssumption
  <2> QED
    BY <1>1, <2>1 DEF Announcing, PrivateNow
<1>7. AwakeInv'
  BY <1>1, <1>2, <1>3, <1>6 DEF AwakeInv
<1>8. AsleepInv'
  <2>1. list' # <<>> => list[1].time \in Nat /\ list'[1].time \in Nat
    BY <1>2, <1>3, FirstPacket DEF TypeOK
  <2>2. ASSUME pc = "wait", ~m_ev, list' # <<>>
        PROVE  /\ deadline # Infinite
               /\ list'[1].time >= PrivateNow - drift + Millisecond * (deadline - sys)
    <3>1. /\ deadline # Infinite
          /\ list[1].time >= PrivateNow - drift + Millisecond * (deadline - sys)
      BY <1>2, <1>3, <1>6, <2>2 DEF AsleepInv
    <3>2. /\ PrivateNow - drift + Millisecond * (deadline - sys) \in Int
          /\ list[1].time <= list'[1].time
      BY <1>2, <1>3, <2>2, Numbers, SMTT(30) DEF Millisecond
    <3> QED
      BY <2>1, <2>2, <3>1, <3>2
  <2>3. (pc = "wait" /\ deadline # Infinite) => deadline >= sys
    BY <1>2 DEF AsleepInv
  <2> QED
    BY <1>1, <1>6, <2>2, <2>3 DEF AsleepInv, Infinite
<1>9. ClockTimeInv'
  BY <1>1, <1>2, <1>6 DEF ClockTimeInv
<1>20. SpinInv'
  BY <1>1, <1>2 DEF IInv, SpinInv, NeverSpins
<1> QED
  BY <1>20, <1>3, <1>4, <1>5, <1>7, <1>8, <1>9 DEF IInv, Timely

LEMMA GetTimeStep ==
  ASSUME IInv, GetTime
  PROVE  IInv'
<1>1. /\ list' = list /\ m_dwNextCookie' = m_dwNextCookie
      /\ m_dwAdviseCount' = m_dwAdviseCount /\ m_dwCacheCount' = m_dwCacheCount
      /\ m_ev' = m_ev /\ holder' = holder /\ sys' = sys /\ m_bAbort' = m_bAbort /\ pc' = pc
      /\ rtNow' = rtNow /\ looked' = looked /\ deadline' = deadline /\ cookie' = cookie /\ signals' = signals
      /\ highest' = highest /\ drift' = drift /\ deltas' = deltas
      /\ m_rtPrivateTime' = PrivateNow /\ m_dwPrevSystemTime' = sys
      /\ m_rtLastGotTime' = Larger(m_rtLastGotTime, PrivateNow)
  BY DEF GetTime, GetPrivateTime, schedule, times, thread, clients, history
<1>2. TypeOK /\ Books /\ LockInv /\ AwakeInv /\ AsleepInv /\ ClockTimeInv
  BY DEF IInv, Timely
<1>3. Books'
  BY <1>1, <1>2, BooksKept
<1>4. PrivateNow' = PrivateNow
  BY <1>1, <1>2, Numbers DEF PrivateNow, Millisecond
<1>5. m_rtLastGotTime' \in Int /\ m_rtLastGotTime' <= highest
  BY <1>1, <1>2, Numbers DEF Larger, ClockTimeInv
<1>6. TypeOK'
  BY <1>1, <1>2, <1>5, Numbers, SMTT(30) DEF TypeOK
<1>7. LockInv'
  BY <1>1, <1>2 DEF LockInv
<1>8. Announcing' <=> Announcing
  BY <1>1 DEF Announcing, IsNewHead
<1>9. AwakeInv'
  BY <1>1, <1>2, <1>4, <1>8 DEF AwakeInv
<1>10. AsleepInv'
  BY <1>1, <1>2, <1>4, <1>8 DEF AsleepInv, Infinite
<1>11. ClockTimeInv'
  BY <1>1, <1>2, <1>4, <1>5 DEF ClockTimeInv
<1>20. SpinInv'
  BY <1>1, <1>2 DEF IInv, SpinInv, NeverSpins
<1> QED
  BY <1>20, <1>3, <1>6, <1>7, <1>9, <1>10, <1>11 DEF IInv, Timely

LEMMA SetTimeDeltaStep ==
  ASSUME IInv, NEW d \in Int, SetTimeDelta(d)
  PROVE  IInv'
<1>1. /\ list' = list /\ m_dwNextCookie' = m_dwNextCookie
      /\ m_dwAdviseCount' = m_dwAdviseCount /\ m_dwCacheCount' = m_dwCacheCount
      /\ holder' = holder /\ sys' = sys /\ m_dwPrevSystemTime' = m_dwPrevSystemTime
      /\ m_rtLastGotTime' = m_rtLastGotTime /\ m_bAbort' = m_bAbort /\ pc' = pc
      /\ rtNow' = rtNow /\ looked' = looked /\ deadline' = deadline /\ cookie' = cookie /\ signals' = signals
      /\ m_rtPrivateTime' = m_rtPrivateTime + d /\ m_ev' = (m_ev \/ WorthATrigger(d))
      /\ highest' = Larger(highest, PrivateNow + d)
      /\ drift' = drift + (IF d = 1 THEN d ELSE 0) /\ deltas' = deltas + 1
      /\ deltas < MaxDeltas
  BY DEF SetTimeDelta, schedule, thread, clients
<1>2. TypeOK /\ Books /\ LockInv /\ AwakeInv /\ AsleepInv /\ ClockTimeInv
  BY DEF IInv, Timely
<1>3. Books'
  BY <1>1, <1>2, BooksKept
<1>4. PrivateNow' = PrivateNow + d
  BY <1>1, <1>2, Numbers DEF PrivateNow, Millisecond
<1>5. highest' \in Int /\ highest' >= highest /\ highest' >= PrivateNow + d
  BY <1>1, <1>2, Numbers DEF Larger
<1>6. drift' \in Nat /\ (d <= 1 => PrivateNow' - drift' <= PrivateNow - drift)
  BY <1>1, <1>2, <1>4, Numbers
<1>7. TypeOK'
  <2>1. deltas' \in 0 .. MaxDeltas
    BY <1>1, <1>2, ClockAssumption DEF TypeOK, ClockAssumption
  <2>2. m_ev' \in BOOLEAN
    BY <1>1
  <2>3. m_rtPrivateTime' \in Int
    BY <1>1, <1>2, Numbers
  <2> QED
    BY <1>1, <1>2, <1>5, <1>6, <2>1, <2>2, <2>3 DEF TypeOK
<1>8. LockInv'
  BY <1>1, <1>2 DEF LockInv
<1>9. Announcing' <=> Announcing
  BY <1>1 DEF Announcing, IsNewHead
<1>10. list # <<>> /\ ~m_ev' => ~m_ev /\ d <= 1
  <2> SUFFICES ASSUME list # <<>>, ~m_ev' PROVE ~m_ev /\ d <= 1
    OBVIOUS
  <2>1. Len(list) > 0
    <3>1. 1 \in 1 .. Len(list)
      BY <1>2, TailIsRemoval DEF TypeOK
    <3> QED
      BY <3>1
  <2>2. m_dwAdviseCount > 0
    BY <1>2, <2>1 DEF Books, ListBelongsToClients
  <2> QED
    <3>1. ~m_ev /\ ~(d > 1 /\ m_dwAdviseCount > 0)
      BY <1>1, ZenonT(30) DEF WorthATrigger
    <3> QED
      BY <2>2, <3>1
<1>11. list # <<>> => list[1].time \in Nat
  BY <1>2, FirstPacket DEF TypeOK
<1>12. PrivateNow - drift \in Int /\ PrivateNow' - drift' \in Int /\ rtNow \in Int
       /\ Millisecond * (deadline - sys) \in Int
  BY <1>2, <1>4, <1>6, Numbers DEF Millisecond
<1>13. AwakeInv'
  <2> SUFFICES ASSUME pc \in {"enter", "fire"}, ~m_ev', list # <<>>, ~Announcing
               PROVE  PrivateNow' - drift' <= rtNow
    BY <1>1, <1>9 DEF AwakeInv
  <2>1. PrivateNow - drift <= rtNow
    BY <1>2, <1>10 DEF AwakeInv
  <2> QED
    BY <1>6, <1>10, <1>12, <2>1
<1>14. AsleepInv'
  <2>1. pc = "wait" => (deadline # Infinite => deadline >= sys)
    BY <1>2 DEF AsleepInv
  <2>2. ASSUME pc = "wait", ~m_ev', list # <<>>, ~Announcing
        PROVE  /\ deadline # Infinite
               /\ list[1].time >= PrivateNow' - drift' + Millisecond * (deadline - sys)
    <3>1. /\ deadline # Infinite
          /\ list[1].time >= PrivateNow - drift + Millisecond * (deadline - sys)
      BY <1>2, <1>10, <2>2 DEF AsleepInv
    <3>2. PrivateNow' - drift' <= PrivateNow - drift
      BY <1>6, <1>10, <2>2
    <3> QED
      BY <1>11, <1>12, <2>2, <3>1, <3>2
  <2> QED
    BY <1>1, <1>9, <2>1, <2>2 DEF AsleepInv, Infinite
<1>15. ClockTimeInv'
  <2>1. /\ highest \in Int /\ m_rtLastGotTime \in Int /\ rtNow \in Int
        /\ m_rtLastGotTime <= highest
        /\ pc \in {"enter", "fire"} => rtNow <= highest
    BY <1>2, Numbers DEF ClockTimeInv
  <2> QED
    BY <1>1, <1>4, <1>5, <2>1 DEF ClockTimeInv
<1>20. SpinInv'
  BY <1>1, <1>2 DEF IInv, SpinInv, NeverSpins
<1> QED
  BY <1>20, <1>3, <1>7, <1>8, <1>13, <1>14, <1>15 DEF IInv, Timely

LEMMA DestroyStep ==
  ASSUME IInv, Destroy
  PROVE  IInv'
<1>1. /\ list' = list /\ m_dwNextCookie' = m_dwNextCookie
      /\ m_dwAdviseCount' = m_dwAdviseCount /\ m_dwCacheCount' = m_dwCacheCount
      /\ holder' = holder /\ sys' = sys /\ m_dwPrevSystemTime' = m_dwPrevSystemTime
      /\ m_rtPrivateTime' = m_rtPrivateTime /\ m_rtLastGotTime' = m_rtLastGotTime
      /\ pc' = pc /\ rtNow' = rtNow /\ looked' = looked /\ deadline' = deadline /\ cookie' = cookie
      /\ signals' = signals /\ highest' = highest /\ drift' = drift /\ deltas' = deltas
      /\ m_bAbort' = TRUE /\ m_ev' = TRUE
  BY DEF Destroy, Abort, schedule, times, thread, clients, history
<1>2. TypeOK /\ Books /\ LockInv /\ AwakeInv /\ AsleepInv /\ ClockTimeInv
  BY DEF IInv, Timely
<1>3. Books'
  BY <1>1, <1>2, BooksKept
<1>4. TypeOK'
  BY <1>1, <1>2 DEF TypeOK
<1>5. LockInv' /\ AwakeInv' /\ AsleepInv'
  BY <1>1, <1>2 DEF LockInv, AwakeInv, AsleepInv, Infinite
<1>6. ClockTimeInv'
  BY <1>1, <1>2 DEF ClockTimeInv, PrivateNow
<1>20. SpinInv'
  BY <1>1, <1>2 DEF IInv, SpinInv, NeverSpins
<1> QED
  BY <1>20, <1>3, <1>4, <1>5, <1>6 DEF IInv, Timely

LEMMA DeleteScheduleStep ==
  ASSUME IInv, DeleteSchedule
  PROVE  IInv'
<1>1. /\ m_dwNextCookie' = m_dwNextCookie /\ m_ev' = m_ev /\ holder' = holder /\ sys' = sys
      /\ m_dwPrevSystemTime' = m_dwPrevSystemTime /\ m_rtPrivateTime' = m_rtPrivateTime
      /\ m_rtLastGotTime' = m_rtLastGotTime /\ m_bAbort' = m_bAbort /\ rtNow' = rtNow /\ looked' = looked
      /\ deadline' = deadline /\ cookie' = cookie /\ signals' = signals
      /\ highest' = highest /\ drift' = drift /\ deltas' = deltas /\ list' = <<>>
      /\ m_dwAdviseCount' = m_dwAdviseCount - Len(list) /\ m_dwCacheCount' = 0
      /\ pc = "ended" /\ pc' = "closed"
  BY DEF DeleteSchedule, times, clients, history
<1>2. TypeOK /\ Books /\ LockInv /\ AwakeInv /\ AsleepInv /\ ClockTimeInv
  BY DEF IInv, Timely
<1>3. m_bAbort /\ m_dwAdviseCount' = 0
  <2>1. m_dwAdviseCount = Len(list) /\ Len(list) \in Nat
    BY <1>2, PacketAt DEF TypeOK, Books, ListBelongsToClients
  <2> QED
    BY <1>1, <1>2, <2>1 DEF LockInv
<1>4. /\ DOMAIN list' = {} /\ Len(list') = 0 /\ list' \in Seq(Packets)
      /\ MaxCookies \in Nat /\ CacheMax \in Nat /\ m_dwNextCookie \in Nat
  BY <1>1, <1>2, ClockAssumption DEF ClockAssumption, TypeOK
<1>5. TypeOK'
  <2>1. m_dwAdviseCount' \in 0 .. MaxCookies /\ m_dwCacheCount' \in 0 .. CacheMax
    BY <1>1, <1>3, <1>4
  <2> QED
    BY <1>1, <1>2, <1>4, <2>1 DEF TypeOK
<1>6. Books'
  <2>1. ListBelongsToClients'
    BY <1>1, <1>3, <1>4 DEF ListBelongsToClients
  <2>2. OneShotRingsOnce' /\ InOrder(list') /\ OnePerClient(list')
    BY <1>4 DEF OneShotRingsOnce, InOrder, OnePerClient
  <2>3. CookieInv'
    BY <1>1, <1>2, <1>3, <1>4 DEF Books, CookieInv
  <2> QED
    BY <2>1, <2>2, <2>3 DEF Books, ScheduleInv
<1>7. LockInv' /\ AwakeInv' /\ AsleepInv'
  BY <1>1, <1>2 DEF LockInv, AwakeInv, AsleepInv
<1>8. ClockTimeInv'
  BY <1>1, <1>2 DEF ClockTimeInv, PrivateNow
<1>20. SpinInv'
  BY <1>1, <1>2 DEF IInv, SpinInv, NeverSpins
<1> QED
  BY <1>20, <1>5, <1>6, <1>7, <1>8 DEF IInv, Timely

LEMMA WakeStep ==
  ASSUME IInv, Wake
  PROVE  IInv'
<1>1. /\ list' = list /\ m_dwNextCookie' = m_dwNextCookie
      /\ m_dwAdviseCount' = m_dwAdviseCount /\ m_dwCacheCount' = m_dwCacheCount
      /\ holder' = holder /\ sys' = sys /\ m_dwPrevSystemTime' = m_dwPrevSystemTime
      /\ m_rtPrivateTime' = m_rtPrivateTime /\ m_rtLastGotTime' = m_rtLastGotTime
      /\ m_bAbort' = m_bAbort /\ rtNow' = rtNow /\ looked' = looked /\ deadline' = deadline
      /\ cookie' = cookie
      /\ signals' = signals /\ highest' = highest /\ drift' = drift /\ deltas' = deltas
      /\ m_ev' = FALSE /\ pc = "wait" /\ pc' = (IF m_bAbort THEN "ended" ELSE "look")
  BY DEF Wake, schedule, times, thread, clients, history
<1>2. TypeOK /\ Books /\ LockInv /\ AwakeInv /\ AsleepInv /\ ClockTimeInv
  BY DEF IInv, Timely
<1>3. Books'
  BY <1>1, <1>2, BooksKept
<1>4. TypeOK'
  BY <1>1, <1>2 DEF TypeOK
<1>5. LockInv' /\ AwakeInv' /\ AsleepInv'
  BY <1>1, <1>2 DEF LockInv, AwakeInv, AsleepInv
<1>6. ClockTimeInv'
  BY <1>1, <1>2 DEF ClockTimeInv, PrivateNow
<1>20. SpinInv'
  BY <1>1, <1>2 DEF IInv, SpinInv, NeverSpins
<1> QED
  BY <1>20, <1>3, <1>4, <1>5, <1>6 DEF IInv, Timely

LEMMA LookStep ==
  ASSUME IInv, Look
  PROVE  IInv'
<1>1. /\ list' = list /\ m_dwNextCookie' = m_dwNextCookie
      /\ m_dwAdviseCount' = m_dwAdviseCount /\ m_dwCacheCount' = m_dwCacheCount
      /\ m_ev' = m_ev /\ holder' = holder /\ sys' = sys
      /\ m_rtLastGotTime' = m_rtLastGotTime /\ m_bAbort' = m_bAbort /\ deadline' = deadline
      /\ cookie' = cookie /\ signals' = signals /\ highest' = highest /\ deltas' = deltas
      /\ m_rtPrivateTime' = PrivateNow /\ m_dwPrevSystemTime' = sys /\ rtNow' = PrivateNow
      /\ looked' = sys
      /\ drift' = 0 /\ pc = "look" /\ pc' = "enter"
  BY DEF Look, GetPrivateTime, schedule, clients
<1>2. TypeOK /\ Books /\ LockInv /\ AwakeInv /\ AsleepInv /\ ClockTimeInv
  BY DEF IInv, Timely
<1>3. Books'
  BY <1>1, <1>2, BooksKept
<1>4. PrivateNow' = PrivateNow
  BY <1>1, <1>2, Numbers DEF PrivateNow, Millisecond
<1>5. TypeOK'
  BY <1>1, <1>2, Numbers DEF TypeOK
<1>6. LockInv'
  BY <1>1, <1>2 DEF LockInv
<1>7. AwakeInv'
  BY <1>1, <1>2, <1>4, Numbers DEF AwakeInv
<1>8. AsleepInv'
  BY <1>1 DEF AsleepInv
<1>9. ClockTimeInv'
  BY <1>1, <1>2, <1>4 DEF ClockTimeInv
<1>20. SpinInv'
  BY <1>1, <1>2 DEF IInv, SpinInv, NeverSpins
<1> QED
  BY <1>20, <1>3, <1>5, <1>6, <1>7, <1>8, <1>9 DEF IInv, Timely

LEMMA EnterAdviseStep ==
  ASSUME IInv, EnterAdvise
  PROVE  IInv'
<1>1. /\ list' = list /\ m_dwNextCookie' = m_dwNextCookie
      /\ m_dwAdviseCount' = m_dwAdviseCount /\ m_dwCacheCount' = m_dwCacheCount
      /\ m_ev' = m_ev /\ sys' = sys /\ m_dwPrevSystemTime' = m_dwPrevSystemTime
      /\ m_rtPrivateTime' = m_rtPrivateTime /\ m_rtLastGotTime' = m_rtLastGotTime
      /\ m_bAbort' = m_bAbort /\ rtNow' = rtNow /\ looked' = looked /\ deadline' = deadline
      /\ cookie' = cookie
      /\ signals' = signals /\ highest' = highest /\ drift' = drift /\ deltas' = deltas
      /\ holder = "none" /\ holder' = "thread" /\ pc = "enter" /\ pc' = "fire"
  BY DEF EnterAdvise, schedule, times, thread, clients, history
<1>2. TypeOK /\ Books /\ LockInv /\ AwakeInv /\ AsleepInv /\ ClockTimeInv
  BY DEF IInv, Timely
<1>3. Books'
  BY <1>1, <1>2, BooksKept
<1>4. TypeOK'
  BY <1>1, <1>2 DEF TypeOK
<1>5. LockInv'
  BY <1>1, <1>2 DEF LockInv
<1>6. ~Announcing /\ PrivateNow' = PrivateNow
  <2>1. "none" \notin Clients
    BY ClockAssumption DEF ClockAssumption
  <2> QED
    BY <1>1, <2>1 DEF Announcing, PrivateNow
<1>7. AwakeInv'
  BY <1>1, <1>2, <1>6 DEF AwakeInv
<1>8. AsleepInv'
  BY <1>1 DEF AsleepInv
<1>9. ClockTimeInv'
  BY <1>1, <1>2, <1>6 DEF ClockTimeInv
<1>20. SpinInv'
  BY <1>1, <1>2 DEF IInv, SpinInv, NeverSpins
<1> QED
  BY <1>20, <1>3, <1>4, <1>5, <1>7, <1>8, <1>9 DEF IInv, Timely

LEMMA FireStep ==
  ASSUME IInv, Fire
  PROVE  IInv'
<1>1. /\ m_dwNextCookie' = m_dwNextCookie /\ m_ev' = m_ev /\ holder' = holder /\ sys' = sys
      /\ m_dwPrevSystemTime' = m_dwPrevSystemTime /\ m_rtPrivateTime' = m_rtPrivateTime
      /\ m_rtLastGotTime' = m_rtLastGotTime /\ m_bAbort' = m_bAbort /\ pc' = pc
      /\ rtNow' = rtNow /\ looked' = looked /\ deadline' = deadline /\ cookie' = cookie /\ highest' = highest
      /\ drift' = drift /\ deltas' = deltas /\ pc = "fire" /\ list # <<>>
  BY DEF Fire, Due, times, thread, history
<1>2. TypeOK /\ Books /\ LockInv /\ AwakeInv /\ AsleepInv /\ ClockTimeInv
  BY DEF IInv, Timely
<1>3. /\ Books' /\ list' \in Seq(Packets)
      /\ m_dwAdviseCount' \in 0 .. MaxCookies /\ m_dwCacheCount' \in 0 .. CacheMax
      /\ signals' \in [Clients -> Nat]
  BY <1>2, FireKeepsBooks
<1>4. TypeOK'
  BY <1>1, <1>2, <1>3 DEF TypeOK
<1>5. LockInv'
  BY <1>1, <1>2 DEF LockInv
<1>6. ~Announcing /\ PrivateNow' = PrivateNow
  <2>1. "thread" \notin Clients
    BY ClockAssumption DEF ClockAssumption
  <2> QED
    BY <1>1, <1>2, <2>1 DEF Announcing, PrivateNow, LockInv
<1>7. AwakeInv'
  BY <1>1, <1>2, <1>6 DEF AwakeInv
<1>8. AsleepInv'
  BY <1>1 DEF AsleepInv
<1>9. ClockTimeInv'
  BY <1>1, <1>2, <1>6 DEF ClockTimeInv
<1>20. SpinInv'
  BY <1>1, <1>2 DEF IInv, SpinInv, NeverSpins
<1> QED
  BY <1>20, <1>3, <1>4, <1>5, <1>7, <1>8, <1>9 DEF IInv, Timely

LEMMA PlanStep ==
  ASSUME IInv, Plan
  PROVE  IInv'
<1>1. /\ list' = list /\ m_dwNextCookie' = m_dwNextCookie
      /\ m_dwAdviseCount' = m_dwAdviseCount /\ m_dwCacheCount' = m_dwCacheCount
      /\ m_ev' = m_ev /\ sys' = sys /\ m_dwPrevSystemTime' = m_dwPrevSystemTime
      /\ m_rtPrivateTime' = m_rtPrivateTime /\ m_rtLastGotTime' = m_rtLastGotTime
      /\ m_bAbort' = m_bAbort /\ rtNow' = rtNow /\ looked' = looked /\ cookie' = cookie /\ signals' = signals
      /\ highest' = highest /\ drift' = drift /\ deltas' = deltas /\ pc = "fire" /\ ~Due
      /\ deadline' = (IF list = <<>> THEN Infinite ELSE sys + WaitFor(Head(list).time))
      /\ holder' = "none" /\ pc' = (IF m_bAbort THEN "ended" ELSE "wait")
  BY DEF Plan, schedule, times, thread, clients, history
<1>2. TypeOK /\ Books /\ LockInv /\ AwakeInv /\ AsleepInv /\ ClockTimeInv
  BY DEF IInv, Timely
<1>3. Books'
  BY <1>1, <1>2, BooksKept
<1>4. ASSUME list # <<>>
      PROVE  /\ Head(list) = list[1] /\ list[1].time \in Nat
             /\ deadline' \in Nat /\ deadline' # Infinite
             /\ deadline' > sys /\ deadline' >= sys
             /\ Millisecond * (deadline' - sys) <= list[1].time - rtNow
  <2>1. Head(list) = list[1] /\ list[1].time \in Nat
    BY <1>2, <1>4, FirstPacket DEF TypeOK
  <2>2. rtNow + Millisecond < list[1].time
    BY <1>1, <1>2, <1>4, <2>1, Numbers DEF Due, Millisecond
  <2>3. PICK w \in Int : w = WaitFor(list[1].time)
    BY <1>2, <2>1, Numbers DEF WaitFor, Millisecond
  <2>4. w >= 1 /\ 2 * w <= list[1].time - rtNow
    BY <1>2, <2>1, <2>2, <2>3, Numbers DEF WaitFor, Millisecond
  <2>5. deadline' = sys + w
    BY <1>1, <1>4, <2>1, <2>3
  <2> QED
    BY <1>2, <2>1, <2>4, <2>5, Numbers DEF Infinite, Millisecond
<1>5. TypeOK'
  <2>1. deadline' \in {Infinite} \union Nat
    BY <1>1, <1>4
  <2> QED
    BY <1>1, <1>2, <2>1 DEF TypeOK, Infinite
<1>6. LockInv'
  BY <1>1, <1>2 DEF LockInv
<1>7. ~Announcing /\ PrivateNow' = PrivateNow
  <2>1. "thread" \notin Clients
    BY ClockAssumption DEF ClockAssumption
  <2> QED
    BY <1>1, <1>2, <2>1 DEF Announcing, PrivateNow, LockInv
<1>8. AwakeInv'
  BY <1>1 DEF AwakeInv
<1>9. AsleepInv'
  <2>1. CASE list = <<>>
    BY <1>1, <2>1 DEF AsleepInv, Infinite
  <2>2. CASE list # <<>>
    <3>1. ~m_ev => PrivateNow - drift <= rtNow
      BY <1>1, <1>2, <1>7, <2>2 DEF AwakeInv
    <3>2. ~m_ev => list[1].time >= PrivateNow - drift + Millisecond * (deadline' - sys)
      <4>1. /\ PrivateNow - drift \in Int /\ rtNow \in Int
            /\ Millisecond * (deadline' - sys) \in Int
        BY <1>2, <1>4, <2>2, Numbers DEF Millisecond
      <4> QED
        BY <1>4, <2>2, <3>1, <4>1
    <3> QED
      BY <1>1, <1>4, <1>7, <2>2, <3>2 DEF AsleepInv, Infinite
  <2> QED
    BY <2>1, <2>2
<1>10. ClockTimeInv'
  BY <1>1, <1>2, <1>7 DEF ClockTimeInv
<1>20. SpinInv'
  BY <1>1, <1>2, <1>4 DEF IInv, SpinInv, NeverSpins
<1> QED
  BY <1>20, <1>3, <1>5, <1>6, <1>8, <1>9, <1>10 DEF IInv, Timely

LEMMA TickStep ==
  ASSUME IInv, Tick
  PROVE  IInv'
<1>1. /\ list' = list /\ m_dwNextCookie' = m_dwNextCookie
      /\ m_dwAdviseCount' = m_dwAdviseCount /\ m_dwCacheCount' = m_dwCacheCount
      /\ m_ev' = m_ev /\ holder' = holder /\ m_dwPrevSystemTime' = m_dwPrevSystemTime
      /\ m_rtPrivateTime' = m_rtPrivateTime /\ m_rtLastGotTime' = m_rtLastGotTime
      /\ m_bAbort' = m_bAbort /\ pc' = pc /\ rtNow' = rtNow /\ looked' = looked /\ deadline' = deadline
      /\ cookie' = cookie /\ signals' = signals /\ drift' = drift /\ deltas' = deltas
      /\ pc = "wait" /\ ~m_ev /\ deadline # sys /\ sys < MaxSys /\ sys' = sys + 1
      /\ highest' = Larger(highest, PrivateNow + Millisecond)
  BY DEF Tick, Sleeping, schedule, times, thread, clients
<1>2. TypeOK /\ Books /\ LockInv /\ AwakeInv /\ AsleepInv /\ ClockTimeInv
  BY DEF IInv, Timely
<1>3. Books'
  BY <1>1, <1>2, BooksKept
<1>4. PrivateNow' = PrivateNow + Millisecond
  BY <1>1, <1>2, Numbers DEF PrivateNow, Millisecond
<1>5. highest' \in Int /\ highest' >= highest /\ highest' >= PrivateNow + Millisecond
  BY <1>1, <1>2, Numbers DEF Larger, Millisecond
<1>6. TypeOK'
  <2>1. sys' \in 0 .. MaxSys /\ m_dwPrevSystemTime' \in 0 .. sys'
    BY <1>1, <1>2, Numbers, ClockAssumption DEF TypeOK, ClockAssumption
  <2> QED
    BY <1>1, <1>2, <1>5, <2>1 DEF TypeOK
<1>7. LockInv'
  BY <1>1, <1>2 DEF LockInv
<1>8. Announcing' <=> Announcing
  BY <1>1 DEF Announcing, IsNewHead
<1>9. AwakeInv'
  BY <1>1 DEF AwakeInv
<1>10. AsleepInv'
  <2>1. deadline # Infinite => deadline >= sys'
    BY <1>1, <1>2, Numbers DEF AsleepInv
  <2>2. ASSUME list # <<>>, ~Announcing
        PROVE  /\ deadline # Infinite
               /\ list[1].time >= PrivateNow' - drift + Millisecond * (deadline - sys')
    <3>1. /\ deadline # Infinite
          /\ list[1].time >= PrivateNow - drift + Millisecond * (deadline - sys)
      BY <1>1, <1>2, <2>2 DEF AsleepInv
    <3>2. PrivateNow' - drift + Millisecond * (deadline - sys')
            = PrivateNow - drift + Millisecond * (deadline - sys)
      BY <1>1, <1>2, <1>4, Numbers DEF Millisecond
    <3> QED
      BY <3>1, <3>2
  <2> QED
    BY <1>1, <1>8, <2>1, <2>2 DEF AsleepInv, Infinite
<1>11. ClockTimeInv'
  BY <1>1, <1>2, <1>4, <1>5, Numbers DEF ClockTimeInv
<1>20. SpinInv'
  BY <1>1, <1>2 DEF IInv, SpinInv, NeverSpins
<1> QED
  BY <1>20, <1>3, <1>6, <1>7, <1>9, <1>10, <1>11 DEF IInv, Timely

(***************************************************************************)
(* The invariant                                                           *)
(***************************************************************************)

LEMMA StutterKeeps ==
  ASSUME IInv, UNCHANGED clockVars
  PROVE  IInv'
<1>1. /\ list' = list /\ m_dwNextCookie' = m_dwNextCookie /\ m_dwAdviseCount' = m_dwAdviseCount
      /\ m_dwCacheCount' = m_dwCacheCount /\ cookie' = cookie /\ signals' = signals
      /\ sys' = sys /\ m_dwPrevSystemTime' = m_dwPrevSystemTime
      /\ m_rtPrivateTime' = m_rtPrivateTime /\ m_rtLastGotTime' = m_rtLastGotTime
      /\ m_bAbort' = m_bAbort /\ pc' = pc /\ rtNow' = rtNow /\ looked' = looked /\ deadline' = deadline
      /\ highest' = highest /\ drift' = drift /\ deltas' = deltas
      /\ holder' = holder /\ m_ev' = m_ev
  BY DEF clockVars, schedule, times, thread, clients, history
<1>2. TypeOK /\ Books /\ LockInv /\ AwakeInv /\ AsleepInv /\ ClockTimeInv
  BY DEF IInv, Timely
<1>3. Books'
  BY <1>1, <1>2, BooksKept
<1>4. TypeOK'
  BY <1>1, <1>2 DEF TypeOK
<1>5. PrivateNow' = PrivateNow /\ (Announcing' <=> Announcing)
  BY <1>1 DEF Announcing, IsNewHead, PrivateNow
<1>6. LockInv' /\ ClockTimeInv'
  BY <1>1, <1>2, <1>5 DEF LockInv, ClockTimeInv
<1>7. AwakeInv'
  BY <1>1, <1>2, <1>5 DEF AwakeInv
<1>8. AsleepInv'
  BY <1>1, <1>2, <1>5 DEF AsleepInv, Infinite
<1>20. SpinInv'
  BY <1>1, <1>2 DEF IInv, SpinInv, NeverSpins
<1> QED
  BY <1>20, <1>3, <1>4, <1>6, <1>7, <1>8 DEF IInv, Timely

LEMMA NextHolds ==
  ASSUME IInv, [ClockNext]_clockVars
  PROVE  IInv'
<1>1. DueTimes \subseteq Nat /\ Periods \subseteq Nat /\ Deltas \subseteq Int
  BY ClockAssumption DEF ClockAssumption
<1>2. ASSUME NEW c \in Clients, NEW t \in DueTimes, AdviseTime(c, t) PROVE IInv'
  <2>1. t \in Nat /\ 0 \in Periods \union {0} /\ FALSE \in BOOLEAN
    BY <1>1
  <2> QED
    BY <1>2, <2>1, AddStep DEF AdviseTime
<1>3. ASSUME NEW c \in Clients, NEW t \in DueTimes, NEW period \in Periods,
             AdvisePeriodic(c, t, period)
      PROVE  IInv'
  <2>1. t \in Nat /\ period \in Periods \union {0} /\ TRUE \in BOOLEAN
    BY <1>1
  <2> QED
    BY <1>3, <2>1, AddStep DEF AdvisePeriodic
<1>4. ASSUME NEW c \in Clients, Unadvise(c) PROVE IInv'
  BY <1>4, UnadviseStep
<1>5. ASSUME NEW c \in Clients, Announce(c) PROVE IInv'
  BY <1>5, AnnounceStep
<1>6. ASSUME NEW d \in Deltas, SetTimeDelta(d) PROVE IInv'
  <2>1. d \in Int
    BY <1>1
  <2> QED
    BY <1>6, <2>1, SetTimeDeltaStep
<1>7. CASE GetTime
  BY <1>7, GetTimeStep
<1>8. CASE Destroy
  BY <1>8, DestroyStep
<1>9. CASE DeleteSchedule
  BY <1>9, DeleteScheduleStep
<1>10. CASE AdviseThread
  <2>1. CASE Wake
    BY <2>1, WakeStep
  <2>2. CASE Look
    BY <2>2, LookStep
  <2>3. CASE EnterAdvise
    BY <2>3, EnterAdviseStep
  <2>4. CASE Fire
    BY <2>4, FireStep
  <2>5. CASE Plan
    BY <2>5, PlanStep
  <2> QED
    BY <1>10, <2>1, <2>2, <2>3, <2>4, <2>5 DEF AdviseThread
<1>11. CASE Tick
  BY <1>11, TickStep
<1>12. CASE UNCHANGED clockVars
  BY <1>12, StutterKeeps
<1> QED
  BY <1>2, <1>3, <1>4, <1>5, <1>6, <1>7, <1>8, <1>9, <1>10, <1>11, <1>12 DEF ClockNext, Advisee

(* The list, the cookies, the clock and the plan of the thread agree as    *)
(* IInv says, whatever the clients, the corrections and the thread do.     *)
THEOREM InvariantHolds == ClockSpec => []IInv
<1>1. IInv /\ [ClockNext]_clockVars => IInv'
  BY NextHolds
<1> QED
  BY InitHolds, <1>1, PTL DEF ClockSpec

LEMMA InvariantIsSafe == IInv => ClockSafety
<1> SUFFICES ASSUME IInv PROVE ClockSafety
  OBVIOUS
<1>1. TypeOK /\ ListBelongsToClients /\ OneShotRingsOnce /\ NeverSpins
  BY DEF IInv, Books, SpinInv
<1>2. ListInOrder
  BY DEF IInv, Books, ScheduleInv, CookieInv, ListInOrder
<1> QED
  BY <1>1, <1>2 DEF ClockSafety

(* CBaseReferenceClock and CAMSchedule: the list holds the packets of the  *)
(* clients and no other, in order of time and under cookies of their own,  *)
(* a one-shot is signalled once at most, and the wait the thread plans is  *)
(* never zero (ASSERT( llWait > 0 )).                                      *)
THEOREM ClockIsSafe == ClockSpec => []ClockSafety
  BY InvariantHolds, InvariantIsSafe, PTL

LEMMA InvariantIsTimely == IInv => NeverLate
<1> SUFFICES ASSUME IInv, Sleeping, holder \notin Clients, NEW i \in DOMAIN list
             PROVE  list[i].time >= PrivateNow - drift
  BY DEF NeverLate
<1>1. TypeOK /\ AsleepInv /\ InOrder(list)
  BY DEF IInv, Books, ScheduleInv, Timely
<1>2. list # <<>> /\ ~Announcing /\ pc = "wait" /\ ~m_ev
  BY DEF Sleeping, Announcing
<1>3. deadline >= sys /\ list[1].time >= PrivateNow - drift + Millisecond * (deadline - sys)
  BY <1>1, <1>2 DEF AsleepInv
<1>4. list[1].time \in Nat /\ list[i].time \in Nat /\ list[1].time <= list[i].time
  <2>1. /\ DOMAIN list = 1 .. Len(list) /\ 1 \in DOMAIN list
        /\ list[1].time \in Nat /\ list[i].time \in Nat
    BY <1>1, <1>2, FirstPacket, PacketAt DEF TypeOK
  <2>2. CASE i = 1
    BY <2>1, <2>2
  <2>3. CASE i # 1
    BY <1>1, <2>1, <2>3 DEF InOrder
  <2> QED
    BY <2>2, <2>3
<1> QED
  BY <1>1, <1>3, <1>4, Numbers DEF Millisecond

(* AdviseThread and Advise: the thread never sleeps past a packet, whoever *)
(* put it there, took others away or set the clock while it slept.         *)
THEOREM NeverOversleeps == ClockSpec => []NeverLate
  BY InvariantHolds, InvariantIsTimely, PTL

(***************************************************************************)
(* The clock implements AlarmService                                       *)
(***************************************************************************)

LEMMA InitIsPromised == ClockInit => Alarms!Init
<1> SUFFICES ASSUME ClockInit PROVE Alarms!Init
  OBVIOUS
<1>1. list = <<>> /\ highest = 0
  BY DEF ClockInit, PrivateNow, Millisecond
<1>2. {list[i] : i \in DOMAIN list} = {}
  BY <1>1
<1> QED
  BY <1>1, <1>2 DEF ClockInit, Alarms!Init

LEMMA Unnoticed ==
  ASSUME list' = list, m_dwNextCookie' = m_dwNextCookie, signals' = signals,
         highest' = highest, m_rtLastGotTime' = m_rtLastGotTime
  PROVE  UNCHANGED Alarms!alarmVars
  BY DEF Alarms!alarmVars

LEMMA AddIsAsk ==
  ASSUME IInv, NEW c \in Clients, NEW t \in Nat, NEW period \in Periods \union {0},
         NEW periodic \in BOOLEAN,
         ~m_bAbort, cookie[c] = 0, m_dwNextCookie < MaxCookies,
         AddAdvisePacket(c, t, period, periodic),
         UNCHANGED <<m_ev, sys, times, m_bAbort, thread, history>>
  PROVE  Alarms!Next
<1>1. TypeOK /\ Books
  BY DEF IInv
<1>2. /\ m_bAbort' = m_bAbort /\ m_rtLastGotTime' = m_rtLastGotTime /\ highest' = highest
      /\ m_dwNextCookie' = m_dwNextCookie + 1 /\ signals' = [signals EXCEPT ![c] = 0]
  BY DEF times, history, AddAdvisePacket
<1>3. PICK p \in Packets : /\ p.client = c /\ p.cookie = m_dwNextCookie'
                          /\ Elements(list') = Elements(list) \union {p}
  BY <1>1, <1>2, AddKeepsBooks
<1>4. Alarms!Ask(c)
  <2>1. p \in {list'[i] : i \in DOMAIN list'}
    BY <1>3 DEF Elements
  <2>2. {list'[i] : i \in DOMAIN list'} = {list[i] : i \in DOMAIN list} \union {p}
    BY <1>3 DEF Elements
  <2> QED
    BY <1>2, <1>3, <2>1, <2>2 DEF Alarms!Ask
<1> QED
  BY <1>4 DEF Alarms!Next

LEMMA UnadviseIsCancel ==
  ASSUME IInv, NEW c \in Clients, Unadvise(c)
  PROVE  [Alarms!Next]_Alarms!alarmVars
<1>1. TypeOK /\ Books
  BY DEF IInv
<1>2. /\ m_rtLastGotTime' = m_rtLastGotTime /\ highest' = highest
      /\ m_dwNextCookie' = m_dwNextCookie /\ signals' = signals
  BY DEF Unadvise, times, history
<1>3. \/ Elements(list') = Elements(list)
      \/ \E e \in Elements(list) : e.client = c /\ Elements(list') = Elements(list) \ {e}
  BY <1>1, UnadviseKeepsBooks
<1>4. CASE Elements(list') = Elements(list)
  BY <1>2, <1>4 DEF Elements, Alarms!alarmVars
<1>5. ASSUME NEW e \in Elements(list), e.client = c, Elements(list') = Elements(list) \ {e}
      PROVE  Alarms!Cancel(c)
  BY <1>2, <1>5 DEF Elements, Alarms!Cancel
<1> QED
  BY <1>3, <1>4, <1>5 DEF Alarms!Next

LEMMA FireIsRing ==
  ASSUME IInv, Fire
  PROVE  Alarms!Next
<1>1. TypeOK /\ Books /\ LockInv /\ ClockTimeInv
  BY DEF IInv, Timely
<1>2. /\ m_rtLastGotTime' = m_rtLastGotTime /\ highest' = highest /\ pc = "fire"
      /\ m_dwNextCookie' = m_dwNextCookie /\ Due
      /\ signals' = [signals EXCEPT ![Head(list).client] = @ + 1]
  BY DEF Fire, times, history
<1>3. /\ Head(list) \in Elements(list) /\ \A e \in Elements(list) : Head(list).time <= e.time
      /\ Elements(list') = (Elements(list) \ {Head(list)}) \union
           (IF Head(list).periodic
            THEN {[Head(list) EXCEPT !.time = @ + Head(list).period]} ELSE {})
  BY <1>1, FireKeepsBooks
<1>4. PICK h \in Elements(list) : h = Head(list)
  BY <1>3
<1>5. h.time <= highest + Millisecond
  <2>1. h.time \in Nat
    BY <1>1, <1>2, <1>4, FirstPacket DEF TypeOK, Due
  <2> QED
    BY <1>1, <1>2, <1>4, <2>1, Numbers DEF Due, ClockTimeInv, Millisecond
<1>6. h \in {list[i] : i \in DOMAIN list} /\ Alarms!Ring(h)
  BY <1>2, <1>3, <1>4, <1>5 DEF Elements, Alarms!Ring
<1> QED
  BY <1>6 DEF Alarms!Next

LEMMA LaterIsAdvance ==
  ASSUME list' = list, m_dwNextCookie' = m_dwNextCookie, signals' = signals,
         highest' >= highest, m_rtLastGotTime' >= m_rtLastGotTime, m_rtLastGotTime' <= highest'
  PROVE  Alarms!Next
<1>1. Alarms!Advance
  BY DEF Alarms!Advance
<1> QED
  BY <1>1 DEF Alarms!Next

LEMMA NextIsPromised ==
  ASSUME IInv, [ClockNext]_clockVars
  PROVE  [Alarms!Next]_Alarms!alarmVars
<1>1. DueTimes \subseteq Nat /\ Periods \subseteq Nat /\ Deltas \subseteq Int
  BY ClockAssumption DEF ClockAssumption
<1>2. TypeOK /\ ClockTimeInv
  BY DEF IInv, Timely
<1>3. ASSUME NEW c \in Clients, NEW t \in DueTimes, AdviseTime(c, t) PROVE Alarms!Next
  <2>1. t \in Nat /\ 0 \in Periods \union {0} /\ FALSE \in BOOLEAN
    BY <1>1
  <2> QED
    BY <1>3, <2>1, AddIsAsk DEF AdviseTime
<1>4. ASSUME NEW c \in Clients, NEW t \in DueTimes, NEW period \in Periods,
             AdvisePeriodic(c, t, period)
      PROVE  Alarms!Next
  <2>1. t \in Nat /\ period \in Periods \union {0} /\ TRUE \in BOOLEAN
    BY <1>1
  <2> QED
    BY <1>4, <2>1, AddIsAsk DEF AdvisePeriodic
<1>5. ASSUME NEW c \in Clients, Unadvise(c) PROVE [Alarms!Next]_Alarms!alarmVars
  BY <1>5, UnadviseIsCancel
<1>6. ASSUME NEW c \in Clients, Announce(c) PROVE UNCHANGED Alarms!alarmVars
  BY <1>6, Unnoticed DEF Announce, schedule, times, clients, history
<1>7. ASSUME NEW d \in Deltas, SetTimeDelta(d) PROVE Alarms!Next
  <2>1. /\ list' = list /\ m_dwNextCookie' = m_dwNextCookie /\ signals' = signals
        /\ m_rtLastGotTime' = m_rtLastGotTime /\ highest' = Larger(highest, PrivateNow + d)
    BY <1>7 DEF SetTimeDelta, schedule, clients
  <2>2. highest' \in Int /\ highest' >= highest
    BY <1>1, <1>2, <2>1, Numbers DEF Larger
  <2> QED
    BY <1>2, <2>1, <2>2, LaterIsAdvance, Numbers DEF ClockTimeInv
<1>8. CASE GetTime
  <2>1. /\ list' = list /\ m_dwNextCookie' = m_dwNextCookie /\ signals' = signals
        /\ highest' = highest
        /\ m_rtLastGotTime' = Larger(m_rtLastGotTime, PrivateNow)
    BY <1>8 DEF GetTime, schedule, clients, history
  <2>2. m_rtLastGotTime' >= m_rtLastGotTime /\ m_rtLastGotTime' <= highest
    BY <1>2, <2>1, Numbers DEF Larger, ClockTimeInv
  <2> QED
    BY <1>2, <2>1, <2>2, LaterIsAdvance, Numbers
<1>9. CASE Destroy
  BY <1>9, Unnoticed DEF Destroy, schedule, times, clients, history
<1>10. CASE DeleteSchedule
  <2>1. /\ list' = <<>> /\ m_dwNextCookie' = m_dwNextCookie /\ signals' = signals
        /\ highest' = highest /\ m_rtLastGotTime' = m_rtLastGotTime
    BY <1>10 DEF DeleteSchedule, times, clients, history
  <2>2. {list'[i] : i \in DOMAIN list'} = {}
    BY <2>1
  <2>3. Alarms!GoAway
    BY <2>1, <2>2 DEF Alarms!GoAway
  <2> QED
    BY <2>3 DEF Alarms!Next
<1>11. CASE Wake \/ Look \/ EnterAdvise \/ Plan
  <2>1. /\ list' = list /\ m_dwNextCookie' = m_dwNextCookie /\ signals' = signals
        /\ highest' = highest /\ m_rtLastGotTime' = m_rtLastGotTime
    BY <1>11 DEF Wake, Look, EnterAdvise, Plan, schedule, times, clients, history
  <2> QED
    BY <2>1, Unnoticed
<1>12. CASE Fire
  BY <1>12, FireIsRing
<1>13. CASE Tick
  <2>1. /\ list' = list /\ m_dwNextCookie' = m_dwNextCookie /\ signals' = signals
        /\ m_rtLastGotTime' = m_rtLastGotTime
        /\ highest' = Larger(highest, PrivateNow + Millisecond)
    BY <1>13 DEF Tick, schedule, times, clients
  <2>2. highest' \in Int /\ highest' >= highest
    BY <1>2, <2>1, Numbers DEF Larger, Millisecond
  <2> QED
    BY <1>2, <2>1, <2>2, LaterIsAdvance, Numbers DEF ClockTimeInv
<1>14. CASE UNCHANGED clockVars
  BY <1>14, Unnoticed DEF clockVars, schedule, times, clients, history
<1> QED
  BY <1>3, <1>4, <1>5, <1>6, <1>7, <1>8, <1>9, <1>10, <1>11, <1>12, <1>13, <1>14
  DEF ClockNext, Advisee, AdviseThread

(* The reference clock keeps the promise of AlarmService: in the order of  *)
(* their times, none early, each once, none lost, and no time told back.   *)
THEOREM ClockKeepsItsPromise == ClockSpec => KeepsItsPromise
<1>1. IInv /\ [ClockNext]_clockVars => [Alarms!Next]_Alarms!alarmVars
  BY NextIsPromised
<1> QED
  BY InitIsPromised, <1>1, InvariantHolds, PTL DEF ClockSpec, KeepsItsPromise, Alarms!Spec
=============================================================================
