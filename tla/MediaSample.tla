---------------------------- MODULE MediaSample ----------------------------
(***************************************************************************)
(* What a CMediaSample says of its data (amfilter.cpp), through its many   *)
(* uses: one sample that is got, described by its user with the calls of   *)
(* IMediaSample and with prefixes of AM_SAMPLE2_PROPERTIES, and released.  *)
(* A time is "given" when it was given in this use, "old" when it is left  *)
(* from an earlier one.                                                    *)
(***************************************************************************)
EXTENDS Naturals, FiniteSets

CONSTANTS Size, MediaType, NoType     \* of the buffer; a media type in band, or none

VARIABLES
    props,          \* the sample's members
    inUse,          \* m_cRef > 0
    typeBlocks      \* media types allocated by CreateMediaType and not deleted

sampleVars == <<props, inUse, typeBlocks>>

(* "mark" stands for SyncPoint, Preroll and Discontinuity; m_dwStreamId     *)
(* and m_dwTypeSpecificFlags are members `stream` and `specific`.          *)
Flags == {"mark", "type", "time", "stop", "media"}

(* The fields in the order of the structure; cbData comes before them.     *)
Field == [specific |-> 1, flags |-> 2, actual |-> 3, start |-> 4, stop |-> 5,
          stream |-> 6, type |-> 7, buffer |-> 8, size |-> 9]

Init ==
    /\ props = [flags |-> {}, start |-> "old", stop |-> "old", actual |-> Size, type |-> NoType,
                specific |-> 0, stream |-> 0]
    /\ inUse = FALSE /\ typeBlocks = 0

Get ==
    /\ ~inUse /\ inUse' = TRUE
    /\ props' = [props EXCEPT !.start = "old", !.stop = "old"]
    /\ UNCHANGED typeBlocks

Set(change) == inUse /\ props' = change /\ UNCHANGED <<inUse, typeBlocks>>

With(flag, on) == IF on THEN props.flags \cup {flag} ELSE props.flags \ {flag}

SetMark(on)  == Set([props EXCEPT !.flags = With("mark", on)])
SetMediaTime(on) == Set([props EXCEPT !.flags = With("media", on)])

(* SetTime with none, the first or both of its pointers.                   *)
SetNoTime == Set([props EXCEPT !.flags = @ \ {"time", "stop"}])
SetStart  == Set([props EXCEPT !.flags = (@ \cup {"time"}) \ {"stop"}, !.start = "given"])
SetTimes  == Set([props EXCEPT !.flags = @ \cup {"time", "stop"}, !.start = "given", !.stop = "given"])

(* What GetTime answers: nothing, the start only, or both.                 *)
GetTime ==
    IF "stop" \in props.flags THEN {props.start, props.stop}
    ELSE IF "time" \in props.flags THEN {props.start} ELSE {}

(* More than the buffer holds is refused.                                  *)
SetActualDataLength(n) == n <= Size /\ Set([props EXCEPT !.actual = n])

(* The copy of the type may fail: the old one is gone by then.             *)
SetMediaType(type) ==
    /\ inUse /\ UNCHANGED inUse
    /\ LET without == typeBlocks - (IF props.type = NoType THEN 0 ELSE 1)
       IN  \E now \in {type, NoType} :
             /\ props' = [props EXCEPT !.type = now, !.flags = With("type", now # NoType)]
             /\ typeBlocks' = without + (IF now = NoType THEN 0 ELSE 1)

Release ==
    /\ inUse /\ inUse' = FALSE
    /\ LET dropped == "type" \in props.flags
       IN  /\ props' = [props EXCEPT !.flags = {}, !.specific = 0, !.stream = 0,
                           !.type = IF dropped THEN NoType ELSE @]
           /\ typeBlocks' = typeBlocks - (IF dropped /\ props.type # NoType THEN 1 ELSE 0)

---------------------------------------------------------------------------
(* IMediaSample2.  p is the caller's structure, of which the first n fields *)
(* are there.                                                              *)

GetProperties ==
    [specific |-> props.specific, flags |-> props.flags \ {"media"}, actual |-> props.actual,
     start |-> props.start, stop |-> props.stop, stream |-> props.stream,
     type |-> IF "type" \in props.flags THEN props.type ELSE NoType,
     buffer |-> "own", size |-> Size]

(* The checks come first.  The size may be left out as 0.                  *)
Acceptable(p, n) ==
    /\ n >= Field.flags =>
         /\ "media" \notin p.flags
         /\ "time" \in p.flags /\ "time" \notin props.flags => n >= Field.stop
    /\ n >= Field.buffer => p.buffer # "another"
    /\ n >= Field.size => p.size \in {0, Size} /\ p.actual <= p.size
    /\ n >= Field.type /\ "type" \in p.flags => p.type # NoType

(* A mutant: the flag is the caller's, whatever type the sample has.       *)
AssignedAsGiven(p, n) ==
    LET flags == IF n >= Field.flags THEN p.flags \cup (props.flags \cap {"media"}) ELSE props.flags
    IN  [flags    |-> flags,
         type     |-> IF n >= Field.type /\ "type" \in p.flags THEN p.type ELSE props.type,
         specific |-> IF n >= Field.specific THEN p.specific ELSE props.specific,
         actual   |-> IF n >= Field.actual THEN p.actual ELSE props.actual,
         start    |-> IF n >= Field.start THEN p.start ELSE props.start,
         stop     |-> IF n >= Field.stop THEN p.stop ELSE props.stop,
         stream   |-> IF n >= Field.stream THEN p.stream ELSE props.stream]

Assigned(p, n) ==
    LET type  == IF n >= Field.type /\ "type" \in p.flags THEN p.type ELSE props.type
        flags == IF n >= Field.flags THEN p.flags \cup (props.flags \cap {"media"}) ELSE props.flags
    IN  [flags    |-> IF type # NoType THEN flags \cup {"type"} ELSE flags \ {"type"},
         type     |-> type,
         specific |-> IF n >= Field.specific THEN p.specific ELSE props.specific,
         actual   |-> IF n >= Field.actual THEN p.actual ELSE props.actual,
         start    |-> IF n >= Field.start THEN p.start ELSE props.start,
         stop     |-> IF n >= Field.stop THEN p.stop ELSE props.stop,
         stream   |-> IF n >= Field.stream THEN p.stream ELSE props.stream]

(* A refused call, or one that has no memory for the type, changes nothing. *)
SetProperties(p, n) ==
    /\ inUse /\ Acceptable(p, n)
    /\ props' = Assigned(p, n)
    /\ LET copied == n >= Field.type /\ "type" \in p.flags
       IN  typeBlocks' = IF copied /\ props.type = NoType THEN typeBlocks + 1 ELSE typeBlocks
    /\ UNCHANGED inUse

Given ==
    [specific : {1}, flags : SUBSET (Flags \ {"media"}), actual : {0, Size + 1},
     start : {"given"}, stop : {"given"}, stream : {1}, type : {NoType, MediaType},
     buffer : {"own"}, size : {0, Size}]

SampleNext ==
    \/ Get \/ Release
    \/ \E on \in BOOLEAN : SetMark(on) \/ SetMediaTime(on)
    \/ SetNoTime \/ SetStart \/ SetTimes
    \/ SetActualDataLength(0) \/ SetActualDataLength(Size)
    \/ \E type \in {NoType, MediaType} : SetMediaType(type)
    \/ \E p \in Given, n \in 1 .. Field.size : SetProperties(p, n)

SampleSpec == Init /\ [][SampleNext]_sampleVars

---------------------------------------------------------------------------
(* However it is described, a sample says it has a media type exactly when *)
(* it has one (what Release and GetMediaType rely on: their ASSERTs), no    *)
(* type is leaked or deleted twice, a sample that is free has no flags and *)
(* no type left (its times stay, see TimesAreGiven), and giving            *)
(* a sample back its own properties, or any number of their first          *)
(* fields, changes nothing.                                                *)
SampleSafety ==
    /\ "type" \in props.flags <=> props.type # NoType
    /\ typeBlocks = IF props.type = NoType THEN 0 ELSE 1
    /\ ~inUse => props.flags = {} /\ props.type = NoType
    /\ \A n \in 1 .. Field.size :
          Acceptable(GetProperties, n) => Assigned(GetProperties, n) = props

(* "Check a flag isn't being set for a property not being provided"        *)
(* (amfilter.cpp 3764): the times a sample answers with are those it was   *)
(* given in this use.  SetProperties only asks this of the start.          *)
TimesAreGiven == inUse => GetTime \subseteq {"given"}

(* No sample says it holds more than its buffer can.                       *)
ActualFits == props.actual <= Size
=============================================================================
