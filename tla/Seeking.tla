------------------------------ MODULE Seeking ------------------------------
(***************************************************************************)
(* Seeking (ctlutil.cpp): applications call the renderer's                 *)
(* CRendererPosPassThru, which hands a call to the pin upstream; that      *)
(* filter's CPosPassThru hands it on to the source, a CSourceSeeking or a  *)
(* CSourcePosition.  The source stores a position under its lock and, when *)
(* it has left the lock, tells the derived class (ChangeStart, ChangeStop, *)
(* ChangeRate, external), which may fail.  Meanwhile the streaming thread  *)
(* registers in the renderer where it is.                                  *)
(***************************************************************************)
EXTENDS Integers, Sequences

CONSTANTS
  Threads,          \* of applications
  MaxPosition,      \* bound on times
  Rates,            \* 0 is among them; 1 is the normal one
  Failing,          \* the changes that may fail, of {"start", "stop", "rate"}
  MaxSeeks          \* bound on the calls

VARIABLES
  kind,             \* "seeking": CSourceSeeking, "position": CSourcePosition
  linked,           \* is the whole chain of pins connected
  m_rtStart, m_rtStop, m_dRateSeeking,
  seek,             \* of each thread: the changes to tell, and the result
  inEffect,         \* what the derived class was told: [start, stop, rate]
  failed,           \* observer: the parts of which the last change failed
  m_StartMedia, m_EndMedia, m_bReset,
  eos,              \* of EOS: "no", "asks", or the stop position that it got
  answered,         \* observer: GetMediaTime gave a time of before a reset
  fresh,            \* observer: has a time been registered since the reset
  seeks

sourceVars == <<m_rtStart, m_rtStop, m_dRateSeeking, inEffect, failed>>
mediaVars == <<m_StartMedia, m_EndMedia, m_bReset, eos, fresh, answered>>
seekVars == <<kind, linked, sourceVars, seek, mediaVars, seeks>>

Idle == [todo |-> <<>>, hr |-> "S_OK"]
NoEos == -1
AsksStop == -2

SeekInit ==
  /\ kind \in {"seeking", "position"} /\ linked = TRUE
  /\ m_rtStart = 0 /\ m_rtStop = MaxPosition /\ m_dRateSeeking = 1
  /\ inEffect = [start |-> 0, stop |-> MaxPosition, rate |-> 1] /\ failed = {}
  /\ seek = [t \in Threads |-> Idle]
  /\ m_StartMedia = 0 /\ m_EndMedia = 0 /\ m_bReset = TRUE
  /\ eos = NoEos /\ answered = FALSE /\ fresh = FALSE /\ seeks = 0

(***************************************************************************)
(* The chain.  GetPeer and GetPeerSeeking ask the connected pin: E_NOTIMPL *)
(* if there is none or it has not the interface.                           *)
(***************************************************************************)
Peer == linked /\ kind = "position"
PeerSeeking == linked /\ kind = "seeking"

Link(connected) ==
  /\ linked # connected /\ linked' = connected
  /\ UNCHANGED <<kind, sourceVars, seek, mediaVars, seeks>>

Idling(t) == seek[t].todo = <<>> /\ seeks < MaxSeeks /\ seeks' = seeks + 1

Tells(t, todo) == seek' = [seek EXCEPT ![t] = [todo |-> todo, hr |-> "S_OK"]]
Returns(t, hr) == seek' = [seek EXCEPT ![t] = [todo |-> <<>>, hr |-> hr]]

(***************************************************************************)
(* CSourceSeeking                                                          *)
(***************************************************************************)
Absolute == "absolute"
Relative == "relative"
Incremental == "incremental"
Modifiers == "modifiers"     \* flags without positioning bits
NoFlags == "none"
Positionings == {Absolute, Relative, Incremental, Modifiers, NoFlags}

FlagsAreValid(current, stop) ==
  /\ stop # Modifiers
  /\ current \in {Absolute, Relative, NoFlags}

NewStart(flags, x) ==
  CASE flags = Absolute -> x
    [] flags = Relative -> m_rtStart + x
    [] OTHER -> m_rtStart

(* An increment counts from the new start.                                 *)
NewStop(flags, start, x) ==
  CASE flags = Absolute -> x
    [] flags = Incremental -> start + x
    [] flags = Relative -> m_rtStop + x
    [] OTHER -> m_rtStop

(* Mutant: a seek that moves both ends tells of one.                       *)
TellStopOrStart(current, stop) ==
  IF stop # NoFlags THEN <<"stop">> ELSE IF current # NoFlags THEN <<"start">> ELSE <<>>

(* The derived class hears of the stop first.                              *)
TellStopAndStart(current, stop) ==
  (IF stop # NoFlags THEN <<"stop">> ELSE <<>>) \o (IF current # NoFlags THEN <<"start">> ELSE <<>>)

SetPositions(t, current, x, stop, y) ==
  /\ Idling(t)
  /\ IF ~PeerSeeking THEN Returns(t, "E_NOTIMPL") /\ UNCHANGED sourceVars
     ELSE IF ~FlagsAreValid(current, stop)
     THEN Returns(t, "E_INVALIDARG") /\ UNCHANGED sourceVars
     ELSE LET start == NewStart(current, x) IN
          /\ start \in 0 .. MaxPosition /\ NewStop(stop, start, y) \in 0 .. MaxPosition
          /\ m_rtStart' = start /\ m_rtStop' = NewStop(stop, start, y)
          /\ Tells(t, TellStopAndStart(current, stop))
          /\ UNCHANGED <<m_dRateSeeking, inEffect, failed>>
  /\ UNCHANGED <<kind, linked, mediaVars>>

(* The pass-through refuses rate 0.                                        *)
SetRate(t, rate) ==
  /\ Idling(t)
  /\ IF rate = 0 THEN Returns(t, "E_INVALIDARG") /\ UNCHANGED sourceVars
     ELSE IF ~PeerSeeking THEN Returns(t, "E_NOTIMPL") /\ UNCHANGED sourceVars
     ELSE /\ m_dRateSeeking' = rate /\ Tells(t, <<"rate">>)
          /\ UNCHANGED <<m_rtStart, m_rtStop, inEffect, failed>>
  /\ UNCHANGED <<kind, linked, mediaVars>>

(***************************************************************************)
(* CSourcePosition                                                         *)
(***************************************************************************)
PutPosition(t, part, x) ==
  /\ Idling(t)
  /\ IF ~Peer THEN Returns(t, "E_NOTIMPL") /\ UNCHANGED sourceVars
     ELSE /\ m_rtStart' = (IF part = "start" THEN x ELSE m_rtStart)
          /\ m_rtStop' = (IF part = "stop" THEN x ELSE m_rtStop)
          /\ Tells(t, <<part>>) /\ UNCHANGED <<m_dRateSeeking, inEffect, failed>>
  /\ UNCHANGED <<kind, linked, mediaVars>>

PutRate(t, rate) ==
  /\ Idling(t)
  /\ IF rate = 0 THEN Returns(t, "E_INVALIDARG") /\ UNCHANGED sourceVars
     ELSE IF ~Peer THEN Returns(t, "E_NOTIMPL") /\ UNCHANGED sourceVars
     ELSE /\ m_dRateSeeking' = rate /\ Tells(t, <<"rate">>)
          /\ UNCHANGED <<m_rtStart, m_rtStop, inEffect, failed>>
  /\ UNCHANGED <<kind, linked, mediaVars>>

(***************************************************************************)
(* The calls that change nothing: the formats (there is one), the          *)
(* capabilities, the duration and the positions themselves.                *)
(***************************************************************************)
SeekingAnswers == {"S_OK", "E_INVALIDARG"}
PositionAnswers == {"S_OK", "E_NOTIMPL"}

Asks(t, there, answers) ==
  /\ Idling(t)
  /\ \E hr \in IF there THEN answers ELSE {"E_NOTIMPL"} : Returns(t, hr)
  /\ UNCHANGED <<kind, linked, sourceVars, mediaVars>>

AskSeeking(t) == Asks(t, PeerSeeking, SeekingAnswers)
AskPosition(t) == Asks(t, Peer, PositionAnswers)

(***************************************************************************)
(* The derived class.  SetPositions answers what the last of its changes   *)
(* answered.                                                               *)
(***************************************************************************)
Stored == [start |-> m_rtStart, stop |-> m_rtStop, rate |-> m_dRateSeeking]

Change(t) ==
  /\ seek[t].todo # <<>>
  /\ LET part == Head(seek[t].todo) IN
     \E ok \in BOOLEAN :
       /\ ~ok => part \in Failing
       /\ inEffect' = (IF ok THEN [inEffect EXCEPT ![part] = Stored[part]] ELSE inEffect)
       /\ failed' = (IF ok THEN failed \ {part} ELSE failed \cup {part})
       /\ seek' = [seek EXCEPT ![t] = [todo |-> Tail(@.todo),
                                       hr |-> IF ok THEN "S_OK" ELSE "E_FAIL"]]
  /\ UNCHANGED <<kind, linked, m_rtStart, m_rtStop, m_dRateSeeking, mediaVars, seeks>>

(***************************************************************************)
(* The position of the renderer                                            *)
(***************************************************************************)
MediaOnly == UNCHANGED <<kind, linked, sourceVars, seek, seeks>>

RegisterMediaTime(x) ==
  /\ eos = NoEos /\ m_StartMedia' = x /\ m_EndMedia' = x + 1 /\ m_bReset' = FALSE /\ fresh' = TRUE
  /\ UNCHANGED <<eos, answered>> /\ MediaOnly

ResetMediaTime ==
  /\ m_StartMedia' = 0 /\ m_EndMedia' = 0 /\ m_bReset' = TRUE /\ fresh' = FALSE
  /\ UNCHANGED <<eos, answered>> /\ MediaOnly

(* EOS looks at m_bReset without the lock, asks for the stop position and  *)
(* then takes the lock.                                                    *)
EndOfStream ==
  /\ eos = NoEos /\ ~m_bReset /\ eos' = AsksStop
  /\ UNCHANGED <<m_StartMedia, m_EndMedia, m_bReset, fresh, answered>> /\ MediaOnly

StopPosition ==
  /\ eos = AsksStop /\ eos' = (IF PeerSeeking THEN m_rtStop ELSE NoEos)
  /\ UNCHANGED <<m_StartMedia, m_EndMedia, m_bReset, fresh, answered>> /\ MediaOnly

(* Mutant: the end is registered like any other time.                      *)
RegisterEnd ==
  /\ eos \in Nat /\ m_StartMedia' = eos /\ m_EndMedia' = eos /\ m_bReset' = FALSE /\ eos' = NoEos
  /\ UNCHANGED <<fresh, answered>> /\ MediaOnly

AtEnd ==
  /\ eos \in Nat /\ m_StartMedia' = eos /\ m_EndMedia' = eos /\ eos' = NoEos
  /\ UNCHANGED <<m_bReset, fresh, answered>> /\ MediaOnly

(* GetCurrentPosition: the registered time if there is one and the source  *)
(* can convert it; otherwise the source is asked, which answers E_NOTIMPL. *)
GetCurrentPosition ==
  /\ ~m_bReset /\ PeerSeeking /\ answered' = (answered \/ ~fresh)
  /\ UNCHANGED <<m_StartMedia, m_EndMedia, m_bReset, fresh, eos>> /\ MediaOnly

SeekCall(t) ==
  \/ \E current, stop \in Positionings, x, y \in 0 .. MaxPosition :
       /\ current \in {NoFlags, Incremental, Modifiers} => x = 0
       /\ stop \in {NoFlags, Modifiers} => y = 0
       /\ SetPositions(t, current, x, stop, y)
  \/ \E rate \in Rates : SetRate(t, rate) \/ PutRate(t, rate)
  \/ \E part \in {"start", "stop"}, x \in 0 .. MaxPosition : PutPosition(t, part, x)
  \/ AskSeeking(t) \/ AskPosition(t) \/ Change(t)

Streams ==
  \/ \E x \in 0 .. MaxPosition - 1 : RegisterMediaTime(x)
  \/ EndOfStream \/ StopPosition \/ AtEnd

SeekNext ==
  \/ \E t \in Threads : SeekCall(t)
  \/ Streams \/ ResetMediaTime \/ GetCurrentPosition
  \/ \E connected \in BOOLEAN : Link(connected)

(***************************************************************************)
(* Correctness                                                             *)
(***************************************************************************)
Changing == UNION {{seek[t].todo[i] : i \in DOMAIN seek[t].todo} : t \in Threads}

(* When no call is under way that still has to tell of a part, that part   *)
(* of what is stored is in effect or its last change has failed, however   *)
(* the seeks of several threads were mixed.  And GetCurrentPosition never  *)
(* answers a time that was registered before a reset, though EOS looks at  *)
(* m_bReset outside the lock.                                              *)
SeekSafety ==
  /\ \A part \in {"start", "stop", "rate"} \ (Changing \cup failed) :
       inEffect[part] = Stored[part]
  /\ m_dRateSeeking # 0
  /\ ~answered

(* A seek that answers success took effect: what it asked for was changed. *)
SuccessIsReal ==
  (\A t \in Threads : seek[t] = Idle) => failed = {}
=============================================================================
