--------------------------- MODULE Objects_proofs ---------------------------
(***************************************************************************)
(* Proofs about the objects MC_Objects puts side by side: the references   *)
(* and the agreement of PinConnection, for any media types and faults; that*)
(* RenderedPin completes once and FilterLinks refers to what is there; that*)
(* the enumerators of PinEnum and TypeEnum lose nothing but what a failing *)
(* call takes with it and a free MediaSample is blank; that VideoGraph     *)
(* decodes no frame with times in pieces, shows none before the key frame  *)
(* it waits for, never leaves the picture hanging and has real deviations. *)
(***************************************************************************)
EXTENDS MC_Objects, Lists_proofs, TLAPS, SequenceTheorems, FiniteSetTheorems

(***************************************************************************)
(* PinConnection                                                           *)
(***************************************************************************)

LinkRec ==
  [outConnected : BOOLEAN, outType : Types \union {NoType}, inputPin : BOOLEAN,
   outAllocator : Allocators \union {NoAllocator},
   inConnected : BOOLEAN, inType : Types \union {NoType},
   inAllocator : Allocators \union {NoAllocator},
   outRefs : Int, inRefs : Int, allocRefs : [Allocators -> Int]]

\* A link whose pointers have the types of the code and whose references
\* balance.
Good(k) == k \in LinkRec /\ Balanced(k)

LEMMA OneIsInt == \A b : One(b) \in Int
BY DEF One

LEMMA RefsTyped ==
  ASSUME NEW refs \in [Allocators -> Int], NEW a
  PROVE  /\ AddRef(refs, a) \in [Allocators -> Int]
         /\ Release(refs, a) \in [Allocators -> Int]
         /\ \A x \in Allocators : /\ AddRef(refs, a)[x] = refs[x] + One(x = a)
                                  /\ Release(refs, a)[x] = refs[x] - One(x = a)
BY DEF AddRef, Release, One

(***************************************************************************)
(* What each operation on a link leaves behind                             *)
(***************************************************************************)
LEMMA OutBreakConnectKeeps ==
  ASSUME NEW k, Good(k)
  PROVE  LET r == OutBreakConnect(k)
         IN /\ Good(r) /\ ~r.inputPin /\ r.outAllocator = NoAllocator
            /\ r.outConnected = k.outConnected
<1> USE DEF Good
<1> DEFINE r == OutBreakConnect(k)
<1>1. r \in LinkRec
  <2>1. Release(k.allocRefs, k.outAllocator) \in [Allocators -> Int]
    BY RefsTyped DEF LinkRec
  <2>2. k.inRefs - One(k.inputPin) \in Int
    BY OneIsInt DEF LinkRec
  <2> QED BY <2>1, <2>2 DEF OutBreakConnect, LinkRec
<1>2. Balanced(r)
  BY RefsTyped DEF OutBreakConnect, LinkRec, One, Balanced, Allocators, NoAllocator
<1>3. ~r.inputPin /\ r.outAllocator = NoAllocator /\ r.outConnected = k.outConnected
  BY DEF OutBreakConnect, LinkRec
<1> QED BY <1>1, <1>2, <1>3

\* The output pin after a disconnection or a failed attempt.
OutEmpty(k) == ~k.outConnected /\ ~k.inputPin /\ k.outAllocator = NoAllocator

LEMMA OutDisconnectEmpties ==
  ASSUME NEW k, Good(k)
  PROVE  Good(OutDisconnect(k)) /\ OutEmpty(OutDisconnect(k))
<1> DEFINE b == OutBreakConnect(k)
           r == OutDisconnect(k)
<1>1. /\ b \in LinkRec /\ Balanced(b) /\ ~b.inputPin /\ b.outAllocator = NoAllocator
      /\ b.outConnected = k.outConnected
  BY OutBreakConnectKeeps DEF Good
<1>2. r = [b EXCEPT !.outConnected = FALSE, !.inRefs = @ - One(k.outConnected)]
  BY DEF OutDisconnect
<1> HIDE DEF b, r
<1>3. r \in LinkRec
  <2>1. b.inRefs - One(k.outConnected) \in Int
    BY <1>1, OneIsInt DEF LinkRec
  <2> QED BY <1>1, <1>2, <2>1 DEF LinkRec
<1>4. Balanced(r)
  BY <1>1, <1>2 DEF LinkRec, One, Balanced
<1>5. OutEmpty(r)
  BY <1>1, <1>2 DEF LinkRec, OutEmpty
<1> QED BY <1>3, <1>4, <1>5 DEF Good, r

LEMMA InBreakConnectKeeps ==
  ASSUME NEW k, Good(k)
  PROVE  LET r == InBreakConnect(k)
         IN /\ Good(r) /\ r.inConnected = k.inConnected /\ r.inAllocator = NoAllocator
            /\ r.outAllocator = k.outAllocator
<1> USE DEF Good
<1> DEFINE r == InBreakConnect(k)
<1>1. r \in LinkRec
  BY RefsTyped DEF InBreakConnect, LinkRec
<1>2. Balanced(r)
  BY RefsTyped DEF InBreakConnect, LinkRec, One, Balanced, Allocators, NoAllocator
<1>3. /\ r.inConnected = k.inConnected /\ r.inAllocator = NoAllocator
      /\ r.outAllocator = k.outAllocator
  BY DEF InBreakConnect, LinkRec
<1> QED BY <1>1, <1>2, <1>3

LEMMA InDisconnectKeeps ==
  ASSUME NEW k, Good(k)
  PROVE  Good(InDisconnect(k)) /\ InDisconnect(k).outAllocator = k.outAllocator
<1> DEFINE b == InBreakConnect(k)
           r == InDisconnect(k)
<1>1. CASE ~k.inConnected
  BY <1>1 DEF InDisconnect
<1>2. CASE k.inConnected
  <2>1. /\ b \in LinkRec /\ Balanced(b) /\ b.inConnected
        /\ b.outAllocator = k.outAllocator
    BY <1>2, InBreakConnectKeeps DEF Good
  <2>2. r = [b EXCEPT !.inConnected = FALSE, !.outRefs = @ - 1]
    BY <1>2 DEF InDisconnect
  <2> HIDE DEF b, r
  <2>3. r \in LinkRec
    <3>1. PICK n \in Int : n = b.outRefs - 1
      BY <2>1 DEF LinkRec
    <3> QED BY <2>1, <2>2, <3>1 DEF LinkRec
  <2>4. Balanced(r)
    <3>1. r.outRefs = 0 /\ r.inConnected = FALSE
      <4>1. b.outRefs = 1
        BY <2>1 DEF Balanced, One
      <4> QED BY <2>1, <2>2, <4>1 DEF LinkRec
    <3>2. r.outRefs = One(r.inConnected)
      BY <3>1 DEF One
    <3>3. /\ r.inRefs = b.inRefs /\ r.outConnected = b.outConnected
          /\ r.inputPin = b.inputPin /\ r.allocRefs = b.allocRefs
          /\ r.outAllocator = b.outAllocator /\ r.inAllocator = b.inAllocator
      BY <2>1, <2>2 DEF LinkRec
    <3> QED BY <2>1, <3>2, <3>3 DEF Balanced
  <2>5. r.outAllocator = k.outAllocator
    BY <2>1, <2>2 DEF LinkRec
  <2> QED BY <2>3, <2>4, <2>5 DEF Good, r
<1> QED BY <1>1, <1>2 DEF Good, LinkRec

LEMMA InConnectKeeps ==
  ASSUME NEW k, Good(k), ~k.inConnected, NEW t \in Types \union {NoType}
  PROVE  /\ Good(InConnect(k, t)) /\ InConnect(k, t).outAllocator = k.outAllocator
         /\ InConnect(k, t).outConnected = k.outConnected
<1>1. InConnect(k, t) \in LinkRec
  <2>1. PICK n \in Int : n = k.outRefs + 1
    BY DEF Good, LinkRec
  <2>2. InConnect(k, t) = [k EXCEPT !.inConnected = TRUE, !.outRefs = n, !.inType = t]
    BY <2>1 DEF InConnect
  <2> QED BY <2>2 DEF Good, LinkRec
<1>2. Balanced(InConnect(k, t))
  <2> DEFINE r == InConnect(k, t)
  <2>1. r.outRefs = 1 /\ r.inConnected = TRUE
    <3>1. k.outRefs = 0
      BY DEF Good, Balanced, One
    <3> QED BY <3>1 DEF Good, InConnect, LinkRec
  <2>2. r.outRefs = One(r.inConnected)
    BY <2>1 DEF One
  <2>3. /\ r.inRefs = k.inRefs /\ r.outConnected = k.outConnected
        /\ r.inputPin = k.inputPin /\ r.allocRefs = k.allocRefs
        /\ r.outAllocator = k.outAllocator /\ r.inAllocator = k.inAllocator
    BY DEF Good, InConnect, LinkRec
  <2> QED BY <2>2, <2>3 DEF Good, Balanced
<1>3. /\ InConnect(k, t).outAllocator = k.outAllocator
      /\ InConnect(k, t).outConnected = k.outConnected
  BY DEF Good, InConnect, LinkRec
<1> QED BY <1>1, <1>2, <1>3 DEF Good

LEMMA NotifyAllocatorKeeps ==
  ASSUME NEW k, Good(k), k.outAllocator \in Allocators
  PROVE  Good(NotifyAllocator(k)) /\ NotifyAllocator(k).outConnected = k.outConnected
<1>1. NotifyAllocator(k) \in LinkRec
  BY RefsTyped DEF Good, NotifyAllocator, LinkRec
<1>2. Balanced(NotifyAllocator(k))
  BY RefsTyped DEF Good, NotifyAllocator, LinkRec, One, Balanced, Allocators, NoAllocator
<1>3. NotifyAllocator(k).outConnected = k.outConnected
  BY DEF Good, NotifyAllocator, LinkRec
<1> QED BY <1>1, <1>2, <1>3 DEF Good

LEMMA DropAllocatorKeeps ==
  ASSUME NEW k, Good(k)
  PROVE  /\ Good(DropAllocator(k)) /\ DropAllocator(k).outAllocator = NoAllocator
         /\ DropAllocator(k).outConnected = k.outConnected
<1>1. DropAllocator(k) \in LinkRec
  BY RefsTyped DEF Good, DropAllocator, LinkRec
<1>2. Balanced(DropAllocator(k))
  BY RefsTyped DEF Good, DropAllocator, LinkRec, One, Balanced, Allocators, NoAllocator
<1>3. /\ DropAllocator(k).outAllocator = NoAllocator
      /\ DropAllocator(k).outConnected = k.outConnected
  BY DEF Good, DropAllocator, LinkRec
<1> QED BY <1>1, <1>2, <1>3 DEF Good

LEMMA InitAllocatorKeeps ==
  ASSUME NEW k, Good(k), k.outAllocator = NoAllocator
  PROVE  /\ Good(InitAllocator(k)) /\ InitAllocator(k).outAllocator \in Allocators
         /\ InitAllocator(k).outConnected = k.outConnected
<1>1. InitAllocator(k) \in LinkRec
  BY RefsTyped DEF Good, InitAllocator, LinkRec, Allocators
<1>2. Balanced(InitAllocator(k))
  BY RefsTyped DEF Good, InitAllocator, LinkRec, One, Balanced, Allocators, NoAllocator
<1>3. /\ InitAllocator(k).outAllocator \in Allocators
      /\ InitAllocator(k).outConnected = k.outConnected
  BY DEF Good, InitAllocator, LinkRec, Allocators
<1> QED BY <1>1, <1>2, <1>3 DEF Good

LEMMA GetAllocatorKeeps ==
  ASSUME NEW k, Good(k), k.outAllocator = NoAllocator
  PROVE  /\ Good(GetAllocator(k)) /\ GetAllocator(k).outAllocator \in Allocators
         /\ GetAllocator(k).outConnected = k.outConnected
<1> DEFINE c == IF k.inAllocator = NoAllocator THEN CreateAllocator(k) ELSE k
<1>1. /\ c \in LinkRec /\ Balanced(c)
      /\ c.outAllocator = NoAllocator /\ c.inAllocator \in Allocators
      /\ c.outConnected = k.outConnected
  <2>1. CASE k.inAllocator = NoAllocator
    <3>1. CreateAllocator(k) \in LinkRec
      BY RefsTyped DEF Good, CreateAllocator, LinkRec, Allocators
    <3>2. Balanced(CreateAllocator(k))
      BY <2>1, RefsTyped
      DEF Good, CreateAllocator, LinkRec, One, Balanced, Allocators, NoAllocator
    <3>3. /\ CreateAllocator(k).outAllocator = NoAllocator
          /\ CreateAllocator(k).inAllocator \in Allocators
          /\ CreateAllocator(k).outConnected = k.outConnected
      BY DEF Good, CreateAllocator, LinkRec, Allocators
    <3> QED BY <2>1, <3>1, <3>2, <3>3
  <2>2. CASE k.inAllocator # NoAllocator
    BY <2>2 DEF Good, LinkRec
  <2> QED BY <2>1, <2>2
<1>2. GetAllocator(k) = LendAllocator(c)
  BY DEF GetAllocator
<1> HIDE DEF c
<1>3. LendAllocator(c) \in LinkRec
  BY <1>1, RefsTyped DEF LendAllocator, LinkRec
<1>4. Balanced(LendAllocator(c))
  BY <1>1, RefsTyped DEF LendAllocator, LinkRec, One, Balanced, Allocators, NoAllocator
<1>5. /\ LendAllocator(c).outAllocator \in Allocators
      /\ LendAllocator(c).outConnected = c.outConnected
  BY <1>1 DEF LendAllocator, LinkRec
<1> QED BY <1>1, <1>2, <1>3, <1>4, <1>5 DEF Good

(***************************************************************************)
(* The inductive invariant                                                 *)
(***************************************************************************)
CallRec ==
  [step : {"next", "receive", "input", "own"}, link : Links, match : SUBSET Types,
   todo : Seq(Types \union {NoType}), round : 0..2, was : LinkRec]

CallOK == call = Idle \/ (call \in CallRec /\ (call.step = "next" \/ call.todo # <<>>))

\* What the output pin of link l holds: nothing between two attempts, no
\* allocator yet in an attempt, and otherwise nothing unless it is connected.
OutState(l) ==
  /\ call = Idle \/ call.link # l => link[l].outConnected \/ OutEmpty(link[l])
  /\ call # Idle /\ call.link = l /\ call.step = "next" => OutEmpty(link[l])
  /\ call # Idle /\ call.link = l /\ call.step # "next" =>
        link[l].outConnected /\ link[l].outAllocator = NoAllocator

LinksOK == link \in [Links -> LinkRec] /\ \A l \in Links : Balanced(link[l])

IInv == LinksOK /\ CallOK /\ (\A l \in Links : OutState(l)) /\ active \subseteq Filters

LEMMA IdleIsNoCall == \A r \in CallRec : r # Idle /\ r.step # "idle"
BY DEF CallRec, Idle

LEMMA TailTyped ==
  ASSUME NEW S, NEW seq \in Seq(S), seq # <<>>
  PROVE  Tail(seq) \in Seq(S) /\ Head(seq) \in S
OBVIOUS

LEMMA LinkIsGood ==
  ASSUME IInv, NEW l \in Links
  PROVE  Good(link[l])
BY DEF IInv, LinksOK, Good

LEMMA InitHolds == ASSUME TypesAreKnown, Init PROVE IInv
<1>1. Unconnected \in LinkRec
  BY DEF Unconnected, LinkRec, Allocators, NoAllocator, NoType
<1>2. Balanced(Unconnected)
  BY DEF Unconnected, Balanced, One, Allocators, NoAllocator
<1>3. OutEmpty(Unconnected)
  BY DEF Unconnected, OutEmpty
<1> QED BY <1>1, <1>2, <1>3 DEF Init, IInv, LinksOK, CallOK, OutState

\* One link is given a new value: what is left to show is the call.
LEMMA SetLink ==
  ASSUME IInv, NEW l \in Links, NEW k, Good(k), link' = [link EXCEPT ![l] = k]
  PROVE  LinksOK' /\ link'[l] = k /\ \A m \in Links \ {l} : link'[m] = link[m]
BY DEF IInv, LinksOK, Good

\* An attempt is undone and the next type is tried.
LEMMA AttemptFailsKeeps ==
  ASSUME IInv, call # Idle, call.todo # <<>>, NEW k, Good(k), AttemptFails(k)
  PROVE  IInv'
<1> DEFINE l == call.link
           d == OutDisconnect(k)
<1>1. call \in CallRec /\ l \in Links
  BY DEF IInv, CallOK, CallRec
<1>2. Good(d) /\ OutEmpty(d)
  BY OutDisconnectEmpties
<1>3. link' = [link EXCEPT ![l] = d] /\ active' = active
  BY DEF AttemptFails
<1>4. LinksOK' /\ link'[l] = d /\ \A m \in Links \ {l} : link'[m] = link[m]
  <2> HIDE DEF l, d
  <2> QED BY <1>1, <1>2, <1>3, SetLink
<1>5. call' \in CallRec /\ call'.step = "next" /\ call'.link = l
  <2>1. PICK rest \in Seq(Types \union {NoType}) : rest = Tail(call.todo)
    BY <1>1, TailTyped DEF CallRec
  <2>2. call' = [call EXCEPT !.step = "next", !.todo = rest]
    BY <2>1 DEF AttemptFails
  <2> QED BY <1>1, <2>2 DEF CallRec
<1>6. CallOK'
  BY <1>5 DEF CallOK
<1>7. ASSUME NEW m \in Links PROVE OutState(m)'
  <2>1. CASE m = l
    BY <1>2, <1>4, <1>5, <2>1, IdleIsNoCall DEF OutState
  <2>2. CASE m # l
    <3>1. link[m].outConnected \/ OutEmpty(link[m])
      BY <2>2 DEF IInv, OutState
    <3> QED BY <1>4, <1>5, <2>2, <3>1, IdleIsNoCall DEF OutState
  <2> QED BY <2>1, <2>2
<1> QED BY <1>3, <1>4, <1>6, <1>7 DEF IInv

\* The link in hand gets a new value and the attempt goes on.
LEMMA AttemptGoesOn ==
  ASSUME IInv, call # Idle, call.todo # <<>>, NEW k, Good(k),
         k.outConnected, k.outAllocator = NoAllocator,
         link' = [link EXCEPT ![call.link] = k],
         NEW s \in {"receive", "input", "own"}, call' = [call EXCEPT !.step = s],
         active' = active
  PROVE  IInv'
<1> DEFINE l == call.link
<1>1. call \in CallRec /\ l \in Links
  BY DEF IInv, CallOK, CallRec
<1>2. LinksOK' /\ link'[l] = k /\ \A m \in Links \ {l} : link'[m] = link[m]
  <2> HIDE DEF l
  <2>1. link' = [link EXCEPT ![l] = k]
    BY DEF l
  <2> QED BY <1>1, <2>1, SetLink
<1>3. /\ call' \in CallRec /\ call'.step = s /\ call'.link = l /\ call'.todo = call.todo
  BY <1>1 DEF CallRec
<1>4. CallOK'
  BY <1>3 DEF CallOK
<1>5. ASSUME NEW m \in Links PROVE OutState(m)'
  <2>1. CASE m = l
    BY <1>2, <1>3, <2>1, IdleIsNoCall DEF OutState
  <2>2. CASE m # l
    <3>1. link[m].outConnected \/ OutEmpty(link[m])
      BY <2>2 DEF IInv, OutState
    <3> QED BY <1>2, <1>3, <2>2, <3>1, IdleIsNoCall DEF OutState
  <2> QED BY <2>1, <2>2
<1> QED BY <1>2, <1>4, <1>5 DEF IInv

\* The link gets its final value and no call is in progress any more.
LEMMA EndsIdle ==
  ASSUME IInv, NEW l \in Links, call = Idle \/ call.link = l, NEW k, Good(k),
         k.outConnected \/ OutEmpty(k),
         link' = [link EXCEPT ![l] = k], call' = Idle, active' = active
  PROVE  IInv'
<1>1. LinksOK' /\ link'[l] = k /\ \A m \in Links \ {l} : link'[m] = link[m]
  BY SetLink
<1>2. ASSUME NEW m \in Links PROVE OutState(m)'
  <2>1. CASE m = l
    BY <1>1, <2>1 DEF OutState
  <2>2. CASE m # l
    <3>1. link[m].outConnected \/ OutEmpty(link[m])
      BY <2>2 DEF IInv, OutState
    <3> QED BY <1>1, <2>2, <3>1 DEF OutState
  <2> QED BY <2>1, <2>2
<1> QED BY <1>1, <1>2 DEF IInv, CallOK

(***************************************************************************)
(* One lemma per action                                                    *)
(***************************************************************************)
LEMMA InProgress ==
  ASSUME IInv, NEW s \in {"next", "receive", "input", "own"}, call.step = s
  PROVE  call # Idle /\ call \in CallRec /\ call.link \in Links /\ Good(link[call.link])
<1>1. call # Idle
  BY DEF Idle
<1>2. call \in CallRec /\ call.link \in Links
  BY <1>1 DEF IInv, CallOK, CallRec
<1> QED BY <1>1, <1>2, LinkIsGood

LEMMA ConnectKeeps ==
  ASSUME IInv, NEW l \in Links, NEW match \in SUBSET Types,
         NEW todo \in Seq(Types \union {NoType}), NEW round \in 0..2,
         Connect(l, match, todo, round)
  PROVE  IInv'
<1>1. call' \in CallRec /\ call'.step = "next" /\ call'.link = l
  BY DEF Connect, CallRec, IInv, LinksOK
<1>2. ASSUME NEW m \in Links PROVE OutState(m)'
  <2>1. link[m].outConnected \/ OutEmpty(link[m])
    BY DEF IInv, OutState, Connect
  <2>2. m = l => OutEmpty(link[m])
    BY <2>1 DEF Connect
  <2> QED BY <1>1, <2>1, <2>2, IdleIsNoCall DEF OutState, Connect
<1> QED BY <1>1, <1>2 DEF IInv, LinksOK, CallOK, Connect

LEMMA ListKeeps ==
  ASSUME IInv, call.step = "next", UNCHANGED <<link, active>>,
         call' \in CallRec, call'.step = "next", call'.link = call.link
  PROVE  IInv'
<1>1. call # Idle /\ call' # Idle
  BY InProgress, IdleIsNoCall
<1>2. ASSUME NEW m \in Links PROVE OutState(m)'
  BY <1>1 DEF IInv, OutState
<1> QED BY <1>2 DEF IInv, LinksOK, CallOK

LEMMA NextEnumeratorKeeps == ASSUME IInv, TypesAreKnown, NextEnumerator PROVE IInv'
<1>1. call \in CallRec /\ call.step = "next" /\ call.round < 2 /\ call.link \in Links
  BY InProgress DEF NextEnumerator
<1>2. PICK offers : call' = [call EXCEPT !.todo = offers, !.round = @ + 1]
                    /\ \/ offers = InOffers(call.link) \/ offers = OutOffers(call.link)
                       \/ offers = <<>>
  BY DEF NextEnumerator
<1>3. offers \in Seq(Types \union {NoType})
  <2>1. SourceOffers \in Seq(Types \union {NoType}) /\ SinkOffers \in Seq(Types \union {NoType})
    BY DEF TypesAreKnown
  <2>2. link["up"].inType \in Types \union {NoType}
    BY DEF IInv, LinksOK, LinkRec, Links
  <2>3. /\ <<link["up"].inType>> \in Seq(Types \union {NoType})
        /\ <<>> \in Seq(Types \union {NoType})
    BY <2>2
  <2>4. /\ InOffers(call.link) \in {<<>>, SinkOffers}
        /\ OutOffers(call.link) \in {<<>>, SourceOffers, <<link["up"].inType>>}
    BY DEF InOffers, OutOffers
  <2> QED BY <1>2, <2>1, <2>3, <2>4
<1>4. PICK n \in 0..2 : n = call.round + 1
  BY <1>1 DEF CallRec
<1>5. call' \in CallRec /\ call'.step = "next" /\ call'.link = call.link
  BY <1>1, <1>2, <1>3, <1>4 DEF CallRec
<1> QED BY <1>1, <1>5, ListKeeps DEF NextEnumerator

LEMMA SkipTypeKeeps == ASSUME IInv, SkipType PROVE IInv'
<1>1. call \in CallRec /\ call.step = "next" /\ call.todo # <<>>
  BY InProgress DEF SkipType
<1>2. PICK rest \in Seq(Types \union {NoType}) : rest = Tail(call.todo)
  BY <1>1, TailTyped DEF CallRec
<1>3. call' = [call EXCEPT !.todo = rest]
  BY <1>2 DEF SkipType
<1>4. call' \in CallRec /\ call'.step = "next" /\ call'.link = call.link
  BY <1>1, <1>3 DEF CallRec
<1> QED BY <1>1, <1>4, ListKeeps DEF SkipType

LEMMA ConnectFailsKeeps == ASSUME IInv, ConnectFails PROVE IInv'
<1> DEFINE l == call.link
           r == OutBreakConnect(link[l])
<1>1. call.step = "next" /\ call # Idle /\ l \in Links /\ Good(link[l])
  BY InProgress DEF ConnectFails
<1>2. OutEmpty(link[l])
  BY <1>1 DEF IInv, OutState
<1>3. Good(r) /\ OutEmpty(r)
  BY <1>1, <1>2, OutBreakConnectKeeps DEF OutEmpty
<1>4. link' = [link EXCEPT ![l] = r] /\ call' = Idle /\ active' = active
  BY DEF ConnectFails
<1> HIDE DEF r
<1> QED BY <1>1, <1>3, <1>4, EndsIdle

\* The link in an AttemptConnection: CheckConnect of the base class takes
\* the connected pin's interface, then the pin is set connected with a type.
Checked(k, ok) ==
  IF ok THEN [k EXCEPT !.inputPin = TRUE, !.inRefs = @ + 1] ELSE k
SetType(k, t) == [k EXCEPT !.outConnected = TRUE, !.inRefs = @ + 1, !.outType = t]

LEMMA CheckedKeeps ==
  ASSUME NEW k, Good(k), OutEmpty(k), NEW ok
  PROVE  LET r == Checked(k, ok)
         IN /\ Good(r) /\ ~r.outConnected /\ r.outAllocator = NoAllocator
            /\ r.inConnected = k.inConnected /\ r.inType = k.inType
            /\ r.inAllocator = k.inAllocator
            /\ ok => r.inputPin
<1>1. CASE ~ok
  BY <1>1 DEF Good, OutEmpty, LinkRec, Checked
<1>2. CASE ok
  <2> DEFINE r == Checked(k, ok)
  <2>1. PICK n \in Int : n = k.inRefs + 1
    BY DEF Good, LinkRec
  <2>2. r = [k EXCEPT !.inputPin = TRUE, !.inRefs = n]
    BY <1>2, <2>1 DEF Checked
  <2>3. k.inRefs = 0
    BY DEF Good, Balanced, OutEmpty, One
  <2> HIDE DEF r
  <2>4. /\ r \in LinkRec /\ r.inputPin = TRUE /\ r.inRefs = n
        /\ r.outConnected = k.outConnected /\ r.outAllocator = k.outAllocator
        /\ r.inConnected = k.inConnected /\ r.inAllocator = k.inAllocator
        /\ r.outRefs = k.outRefs /\ r.allocRefs = k.allocRefs /\ r.inType = k.inType
    BY <2>2 DEF Good, LinkRec
  <2>5. k.outConnected = FALSE /\ k.outAllocator = NoAllocator
    BY DEF Good, LinkRec, OutEmpty
  <2>6. One(r.outConnected) = 0 /\ One(r.inputPin) = 1
    BY <2>4, <2>5 DEF One
  <2>7. n = 1
    BY <2>1, <2>3
  <2>8. Good(r)
    BY <2>4, <2>5, <2>6, <2>7 DEF Good, Balanced
  <2> QED BY <2>4, <2>5, <2>8 DEF r
<1> QED BY <1>1, <1>2

LEMMA SetTypeKeeps ==
  ASSUME NEW k, Good(k), ~k.outConnected, k.outAllocator = NoAllocator,
         NEW t \in Types \union {NoType}
  PROVE  LET r == SetType(k, t)
         IN /\ Good(r) /\ r.outConnected /\ r.outType = t /\ r.outAllocator = NoAllocator
            /\ r.inConnected = k.inConnected /\ r.inType = k.inType
            /\ r.inAllocator = k.inAllocator /\ r.inputPin = k.inputPin
<1> DEFINE r == SetType(k, t)
<1>1. PICK n \in Int : n = k.inRefs + 1
  BY DEF Good, LinkRec
<1>2. r = [k EXCEPT !.outConnected = TRUE, !.inRefs = n, !.outType = t]
  BY <1>1 DEF SetType
<1> HIDE DEF r
<1>3. /\ r \in LinkRec /\ r.outConnected = TRUE /\ r.inRefs = n /\ r.outType = t
      /\ r.inputPin = k.inputPin /\ r.outAllocator = k.outAllocator
      /\ r.inConnected = k.inConnected /\ r.inAllocator = k.inAllocator
      /\ r.outRefs = k.outRefs /\ r.allocRefs = k.allocRefs /\ r.inType = k.inType
  BY <1>2 DEF Good, LinkRec
<1>4. One(k.outConnected) = 0 /\ One(r.outConnected) = 1
  BY <1>3 DEF One, Good, LinkRec
<1>5. n = One(r.outConnected) + One(r.inputPin)
  BY <1>1, <1>3, <1>4, OneIsInt DEF Good, Balanced
<1>6. Good(r)
  BY <1>3, <1>5 DEF Good, Balanced
<1> QED BY <1>3, <1>6 DEF r

LEMMA AttemptShape ==
  ASSUME IInv, AttemptConnection
  PROVE  \E l \in Links, k \in LinkRec, t \in Types \union {NoType}, ok \in BOOLEAN :
           LET c == Checked(k, ok)
           IN /\ l = call.link /\ k = link[l] /\ t = Head(call.todo) /\ Good(k) /\ OutEmpty(k)
              /\ call # Idle /\ call \in CallRec /\ call.step = "next"
              /\ call.todo # <<>> /\ t \in call.match
              /\ \/ AttemptFails(c) \/ AttemptFails(SetType(c, NoType))
                 \/ AttemptFails(SetType(c, t))
                 \/ /\ ok /\ OutCheckMediaType(l, t)
                    /\ link' = [link EXCEPT ![l] = SetType(c, t)]
                    /\ call' = [call EXCEPT !.step = "receive"] /\ active' = active
<1>1. /\ call # Idle /\ call \in CallRec /\ call.link \in Links /\ Good(link[call.link])
      /\ call.todo # <<>> /\ call.step = "next" /\ Head(call.todo) \in call.match
  BY InProgress DEF AttemptConnection
<1>2. OutEmpty(link[call.link])
  BY <1>1 DEF IInv, OutState
<1>3. PICK l \in Links : l = call.link
  BY <1>1
<1>4. PICK k \in LinkRec : k = link[l]
  BY <1>1, <1>3 DEF Good
<1>5. PICK t \in Types \union {NoType} : t = Head(call.todo)
  BY <1>1, TailTyped DEF CallRec
<1>6. PICK ok \in BOOLEAN : ok = CheckConnect(l)
  BY DEF CheckConnect
<1> DEFINE c == Checked(k, ok)
<1>7. \/ AttemptFails(c) \/ AttemptFails(SetType(c, NoType)) \/ AttemptFails(SetType(c, t))
      \/ /\ ok /\ OutCheckMediaType(l, t)
         /\ link' = [link EXCEPT ![l] = SetType(c, t)]
         /\ call' = [call EXCEPT !.step = "receive"] /\ active' = active
  BY <1>3, <1>4, <1>5, <1>6 DEF AttemptConnection, Checked, SetType
<1> WITNESS l \in Links, k \in LinkRec, t \in Types \union {NoType}, ok \in BOOLEAN
<1>8. l = call.link /\ k = link[l] /\ t = Head(call.todo) /\ Good(k) /\ OutEmpty(k)
  BY <1>1, <1>2, <1>3, <1>4, <1>5
<1>9. t \in call.match
  BY <1>1, <1>5
<1> HIDE DEF c
<1> QED BY <1>1, <1>7, <1>8, <1>9, Zenon DEF c

LEMMA AttemptConnectionKeeps == ASSUME IInv, AttemptConnection PROVE IInv'
<1>1. PICK l \in Links, k \in LinkRec, t \in Types \union {NoType}, ok \in BOOLEAN :
        LET c == Checked(k, ok)
        IN /\ l = call.link /\ call # Idle /\ call.todo # <<>> /\ Good(k) /\ OutEmpty(k)
           /\ \/ AttemptFails(c) \/ AttemptFails(SetType(c, NoType))
              \/ AttemptFails(SetType(c, t))
              \/ /\ link' = [link EXCEPT ![l] = SetType(c, t)]
                 /\ call' = [call EXCEPT !.step = "receive"] /\ active' = active
  BY AttemptShape, SMTT(30)
<1> DEFINE c == Checked(k, ok)
           n == SetType(c, NoType)
           r == SetType(c, t)
<1>2. Good(c) /\ ~c.outConnected /\ c.outAllocator = NoAllocator
  BY <1>1, CheckedKeeps
<1> HIDE DEF c
<1>3. Good(n) /\ Good(r) /\ r.outConnected /\ r.outAllocator = NoAllocator
  BY <1>2, SetTypeKeeps
<1>4. \/ AttemptFails(c) \/ AttemptFails(n) \/ AttemptFails(r)
      \/ /\ link' = [link EXCEPT ![l] = r]
         /\ call' = [call EXCEPT !.step = "receive"] /\ active' = active
  BY <1>1 DEF c
<1> HIDE DEF n, r
<1>5. CASE AttemptFails(c) \/ AttemptFails(n) \/ AttemptFails(r)
  BY <1>1, <1>2, <1>3, <1>5, AttemptFailsKeeps
<1>6. CASE /\ link' = [link EXCEPT ![l] = r]
           /\ call' = [call EXCEPT !.step = "receive"] /\ active' = active
  BY <1>1, <1>3, <1>6, AttemptGoesOn
<1> QED BY <1>4, <1>5, <1>6

LEMMA ReceiveConnectionKeeps == ASSUME IInv, ReceiveConnection PROVE IInv'
<1> DEFINE l == call.link
           t == Head(call.todo)
           k == link[l]
<1>1. call # Idle /\ call \in CallRec /\ l \in Links /\ Good(k) /\ call.todo # <<>>
  BY InProgress DEF ReceiveConnection, IInv, CallOK
<1>2. k.outConnected /\ k.outAllocator = NoAllocator
  BY <1>1 DEF IInv, OutState, ReceiveConnection
<1>3. t \in Types \union {NoType}
  BY <1>1, TailTyped DEF CallRec
<1>4. CASE ~CanReceive(l) /\ AttemptFails(k)
  BY <1>1, <1>4, AttemptFailsKeeps
<1>5. CASE CanReceive(l) /\ ~InCheckMediaType(l, t) /\ AttemptFails(InBreakConnect(k))
  BY <1>1, <1>5, AttemptFailsKeeps, InBreakConnectKeeps
<1>6. ASSUME NEW ty \in Types \union {NoType}, CanReceive(l), ReceiveFails(k, ty)
      PROVE  IInv'
  <2> HIDE DEF k, l
  <2>1. Good(InConnect(k, ty))
    BY <1>1, <1>6, InConnectKeeps DEF CanReceive, k
  <2>2. Good(InBreakConnect(InDisconnect(InConnect(k, ty))))
    BY <2>1, InDisconnectKeeps, InBreakConnectKeeps
  <2> QED BY <1>1, <1>6, <2>2, AttemptFailsKeeps DEF ReceiveFails
<1>7. CASE /\ CanReceive(l)
           /\ link' = [link EXCEPT ![l] = InConnect(k, t)]
           /\ call' = [call EXCEPT !.step = "input"] /\ active' = active
  <2> HIDE DEF t
  <2>1. /\ Good(InConnect(k, t)) /\ InConnect(k, t).outConnected
        /\ InConnect(k, t).outAllocator = NoAllocator
    BY <1>1, <1>2, <1>3, <1>7, InConnectKeeps DEF CanReceive
  <2> QED BY <1>1, <1>7, <2>1, AttemptGoesOn
<1> QED BY <1>3, <1>4, <1>5, <1>6, <1>7 DEF ReceiveConnection

\* The connection is complete.
LEMMA ConnectSucceedsKeeps ==
  ASSUME IInv, call # Idle, call.link \in Links, NEW k, Good(k),
         k.outConnected, k.outAllocator \in Allocators,
         ConnectSucceeds(NotifyAllocator(k))
  PROVE  IInv'
<1> DEFINE l == call.link
           r == NotifyAllocator(k)
<1>1. Good(r) /\ r.outConnected
  BY NotifyAllocatorKeeps
<1>2. link' = [link EXCEPT ![l] = r] /\ call' = Idle /\ active' = active
  BY DEF ConnectSucceeds
<1> HIDE DEF r
<1> QED BY <1>1, <1>2, EndsIdle

LEMMA CompleteFailsKeeps ==
  ASSUME IInv, call # Idle, call.todo # <<>>, NEW k, Good(k), CompleteFails(k)
  PROVE  IInv'
BY InDisconnectKeeps, AttemptFailsKeeps DEF CompleteFails

LEMMA TryInputAllocatorKeeps == ASSUME IInv, TryInputAllocator PROVE IInv'
<1> DEFINE l == call.link
           k == link[l]
           g == GetAllocator(k)
<1>1. call # Idle /\ call \in CallRec /\ l \in Links /\ Good(k) /\ call.todo # <<>>
  BY InProgress DEF TryInputAllocator, IInv, CallOK
<1>2. k.outConnected /\ k.outAllocator = NoAllocator
  BY <1>1 DEF IInv, OutState, TryInputAllocator
<1>3. Good(g) /\ g.outAllocator \in Allocators /\ g.outConnected
  BY <1>1, <1>2, GetAllocatorKeeps
<1>4. \/ CompleteFails(k)
      \/ ConnectSucceeds(NotifyAllocator(g))
      \/ /\ link' = link \/ link' = [link EXCEPT ![l] = DropAllocator(g)]
         /\ call' = [call EXCEPT !.step = "own"] /\ active' = active
  BY DEF TryInputAllocator
<1> HIDE DEF g
<1>5. CASE CompleteFails(k)
  BY <1>1, <1>5, CompleteFailsKeeps
<1>6. CASE ConnectSucceeds(NotifyAllocator(g))
  BY <1>1, <1>3, <1>6, ConnectSucceedsKeeps
<1>7. CASE /\ link' = link
           /\ call' = [call EXCEPT !.step = "own"] /\ active' = active
  <2>1. link' = [link EXCEPT ![l] = k]
    BY <1>1, <1>7 DEF IInv, LinksOK
  <2> QED BY <1>1, <1>2, <1>7, <2>1, AttemptGoesOn
<1>8. CASE /\ link' = [link EXCEPT ![l] = DropAllocator(g)]
           /\ call' = [call EXCEPT !.step = "own"] /\ active' = active
  <2>1. /\ Good(DropAllocator(g)) /\ DropAllocator(g).outConnected
        /\ DropAllocator(g).outAllocator = NoAllocator
    BY <1>3, DropAllocatorKeeps
  <2> QED BY <1>1, <1>8, <2>1, AttemptGoesOn
<1> QED BY <1>4, <1>5, <1>6, <1>7, <1>8

LEMMA TryOwnAllocatorKeeps == ASSUME IInv, TryOwnAllocator PROVE IInv'
<1> DEFINE l == call.link
           k == link[l]
           g == InitAllocator(k)
<1>1. call # Idle /\ call \in CallRec /\ l \in Links /\ Good(k) /\ call.todo # <<>>
  BY InProgress DEF TryOwnAllocator, IInv, CallOK
<1>2. k.outConnected /\ k.outAllocator = NoAllocator
  BY <1>1 DEF IInv, OutState, TryOwnAllocator
<1>3. Good(g) /\ g.outAllocator \in Allocators /\ g.outConnected
  BY <1>1, <1>2, InitAllocatorKeeps
<1>4. \/ CompleteFails(k) \/ CompleteFails(DropAllocator(g))
      \/ ConnectSucceeds(NotifyAllocator(g))
  BY DEF TryOwnAllocator
<1> HIDE DEF g
<1>5. CASE CompleteFails(k)
  BY <1>1, <1>5, CompleteFailsKeeps
<1>6. CASE CompleteFails(DropAllocator(g))
  BY <1>1, <1>3, <1>6, DropAllocatorKeeps, CompleteFailsKeeps
<1>7. CASE ConnectSucceeds(NotifyAllocator(g))
  BY <1>1, <1>3, <1>7, ConnectSucceedsKeeps
<1> QED BY <1>4, <1>5, <1>6, <1>7

LEMMA DisconnectOutKeeps ==
  ASSUME IInv, NEW l \in Links, DisconnectOut(l)
  PROVE  IInv'
<1> DEFINE r == OutDisconnect(link[l])
<1>1. Good(r) /\ OutEmpty(r)
  BY LinkIsGood, OutDisconnectEmpties
<1>2. call = Idle /\ link' = [link EXCEPT ![l] = r] /\ call' = Idle /\ active' = active
  BY DEF DisconnectOut
<1> HIDE DEF r
<1> QED BY <1>1, <1>2, EndsIdle

LEMMA DisconnectInKeeps ==
  ASSUME IInv, NEW l \in Links, DisconnectIn(l)
  PROVE  IInv'
<1> DEFINE k == link[l]
           r == InDisconnect(k)
<1>1. Good(k) /\ Good(r)
  BY LinkIsGood, InDisconnectKeeps
<1>2. /\ r.outConnected = k.outConnected /\ r.inputPin = k.inputPin
      /\ r.outAllocator = k.outAllocator
  BY <1>1 DEF Good, LinkRec, InDisconnect, InBreakConnect
<1>3. k.outConnected \/ OutEmpty(k)
  BY DEF IInv, OutState, DisconnectIn
<1>4. r.outConnected \/ OutEmpty(r)
  BY <1>2, <1>3 DEF OutEmpty
<1>5. call = Idle /\ link' = [link EXCEPT ![l] = r] /\ call' = Idle /\ active' = active
  BY DEF DisconnectIn
<1> HIDE DEF r
<1> QED BY <1>1, <1>4, <1>5, EndsIdle

LEMMA UnchangedKeeps == ASSUME IInv, UNCHANGED <<link, call>>, active' \subseteq Filters PROVE IInv'
BY DEF IInv, LinksOK, CallOK, OutState

LEMMA NextKeeps == ASSUME IInv, TypesAreKnown, [Next]_vars PROVE IInv'
<1>1. ASSUME NEW l \in Links, NEW t \in Types, ConnectWithType(l, t) PROVE IInv'
  <2>1. {t} \in SUBSET Types /\ <<t>> \in Seq(Types \union {NoType})
    OBVIOUS
  <2>2. Connect(l, {t}, <<t>>, 2) /\ 2 \in 0..2
    BY <1>1 DEF ConnectWithType
  <2> QED BY <2>1, <2>2, ConnectKeeps
<1>2. ASSUME NEW l \in Links, NEW match \in SUBSET Types, ConnectMatching(l, match) PROVE IInv'
  <2>1. <<>> \in Seq(Types \union {NoType})
    OBVIOUS
  <2>2. Connect(l, match, <<>>, 0) /\ 0 \in 0..2
    BY <1>2 DEF ConnectMatching
  <2> QED BY <2>1, <2>2, ConnectKeeps
<1>3. ASSUME NEW l \in Links, DisconnectOut(l) \/ DisconnectIn(l) PROVE IInv'
  BY <1>3, DisconnectOutKeeps, DisconnectInKeeps
<1>4. ASSUME NEW f \in Filters, ChangeState(f) PROVE IInv'
  <2>1. active' \subseteq Filters
    BY <1>4 DEF ChangeState, IInv
  <2> QED BY <1>4, <2>1, UnchangedKeeps DEF ChangeState
<1>5. CASE NextEnumerator \/ SkipType \/ ConnectFails
  BY <1>5, NextEnumeratorKeeps, SkipTypeKeeps, ConnectFailsKeeps
<1>6. CASE AttemptConnection \/ ReceiveConnection
  BY <1>6, AttemptConnectionKeeps, ReceiveConnectionKeeps
<1>7. CASE TryInputAllocator \/ TryOwnAllocator
  BY <1>7, TryInputAllocatorKeeps, TryOwnAllocatorKeeps
<1>8. CASE UNCHANGED vars
  BY <1>8, UnchangedKeeps DEF vars, IInv
<1> QED BY <1>1, <1>2, <1>3, <1>4, <1>5, <1>6, <1>7, <1>8 DEF Next, ConnectStep

LEMMA Invariance == Spec => []IInv
<1>1. Init => IInv
  BY TypesAreKnown, InitHolds
<1>2. IInv /\ [Next]_vars => IInv'
  BY TypesAreKnown, NextKeeps
<1> QED BY <1>1, <1>2, PTL DEF Spec

\* Every reference on a pin or on an allocator belongs to one pointer, and
\* every pointer holds one, at every step of every connection and roll-back
\* (AttemptConnection, ReceiveConnection, DecideAllocator, Disconnect).
THEOREM ReferencesAlwaysBalance == Spec => []ReferencesBalance
<1>1. IInv => ReferencesBalance
  BY DEF IInv, LinksOK, ReferencesBalance
<1> QED BY <1>1, Invariance, PTL

LEMMA TwoSmall == \A m \in 0..1, n \in 0..1 : m + n \in 0..2
OBVIOUS

LEMMA SmallCounts ==
  ASSUME NEW k, Good(k)
  PROVE  k.outRefs \in 0..1 /\ k.inRefs \in 0..2 /\ k.allocRefs \in [Allocators -> 0..2]
<1>1. \A b : One(b) \in 0..1
  BY DEF One
<1>2. k.outRefs \in 0..1
  BY <1>1 DEF Good, Balanced
<1>3. k.inRefs \in 0..2
  <2>1. k.inRefs = One(k.outConnected) + One(k.inputPin)
    BY DEF Good, Balanced
  <2> QED BY <1>1, <2>1, TwoSmall
<1>4. ASSUME NEW a \in Allocators PROVE k.allocRefs[a] \in 0..2
  <2>1. k.allocRefs[a] = One(k.outAllocator = a) + One(k.inAllocator = a)
    BY DEF Good, Balanced
  <2> QED BY <1>1, <2>1, TwoSmall
<1>5. k.allocRefs \in [Allocators -> Int]
  BY DEF Good, LinkRec
<1> QED BY <1>2, <1>3, <1>4, <1>5

\* The variables have their types; in particular no count falls below zero
\* or above the number of pointers there are.
THEOREM TypeCorrect == Spec => []TypeOK
<1>1. ASSUME IInv PROVE TypeOK
  <2>1. ASSUME NEW l \in Links
        PROVE  link[l] \in
          [outConnected : BOOLEAN, outType : Types \union {NoType}, inputPin : BOOLEAN,
           outAllocator : Allocators \union {NoAllocator},
           inConnected : BOOLEAN, inType : Types \union {NoType},
           inAllocator : Allocators \union {NoAllocator},
           outRefs : 0..1, inRefs : 0..2, allocRefs : [Allocators -> 0..2]]
    <3>1. /\ link[l] \in LinkRec
          /\ link[l].outRefs \in 0..1 /\ link[l].inRefs \in 0..2
          /\ link[l].allocRefs \in [Allocators -> 0..2]
      BY <1>1, LinkIsGood, SmallCounts DEF Good
    <3> QED BY <3>1 DEF LinkRec
  <2>2. link = [l \in Links |-> link[l]]
    BY <1>1 DEF IInv, LinksOK
  <2>3. CASE call = Idle
    BY <1>1, <2>1, <2>2, <2>3 DEF TypeOK, IInv
  <2>4. CASE call \in CallRec
    BY <1>1, <2>1, <2>2, <2>4 DEF TypeOK, IInv, CallRec
  <2> QED BY <1>1, <2>3, <2>4 DEF IInv, CallOK
<1> QED BY <1>1, Invariance, PTL

(***************************************************************************)
(* The formats agree                                                       *)
(***************************************************************************)
LEMMA OutDisconnectEnds ==
  ASSUME NEW k \in LinkRec
  PROVE  LET r == OutDisconnect(k)
         IN ~r.outConnected /\ r.inConnected = k.inConnected /\ r.inType = k.inType
BY DEF OutDisconnect, OutBreakConnect, LinkRec

LEMMA InBreakConnectEnds ==
  ASSUME NEW k \in LinkRec
  PROVE  LET r == InBreakConnect(k)
         IN /\ r.outConnected = k.outConnected /\ r.outType = k.outType
            /\ r.inConnected = k.inConnected /\ r.inType = k.inType
BY DEF InBreakConnect, LinkRec

LEMMA InDisconnectEnds ==
  ASSUME NEW k \in LinkRec
  PROVE  LET r == InDisconnect(k)
         IN ~r.inConnected /\ r.outConnected = k.outConnected /\ r.outType = k.outType
BY DEF InDisconnect, InBreakConnect, LinkRec

LEMMA AllocatorEnds ==
  ASSUME NEW k \in LinkRec, NEW r,
         r \in {NotifyAllocator(k), GetAllocator(k), InitAllocator(k), DropAllocator(k)}
  PROVE  /\ r.outConnected = k.outConnected /\ r.outType = k.outType
         /\ r.inConnected = k.inConnected /\ r.inType = k.inType
         /\ r = NotifyAllocator(k) => r.inAllocator = r.outAllocator
<1> DEFINE SameEnds == /\ r.outConnected = k.outConnected /\ r.outType = k.outType
                       /\ r.inConnected = k.inConnected /\ r.inType = k.inType
<1>1. CASE r = NotifyAllocator(k)
  BY <1>1 DEF NotifyAllocator, LinkRec
<1>2. CASE r = GetAllocator(k)
  <2>1. SameEnds
    BY <1>2 DEF GetAllocator, LendAllocator, CreateAllocator, LinkRec
  <2> QED BY <1>1, <2>1
<1>3. CASE r = InitAllocator(k) \/ r = DropAllocator(k)
  <2>1. SameEnds
    BY <1>3 DEF InitAllocator, DropAllocator, LinkRec
  <2> QED BY <1>1, <2>1
<1> QED BY <1>1, <1>2, <1>3

Attempting(l, steps) == call # Idle /\ call.link = l /\ call.step \in steps

\* The two pins of a link agree, but while the input pin has not been asked
\* yet or the allocator not been chosen.
LinkAgrees(l) ==
  /\ Attempting(l, {"receive"}) => link[l].outType = Head(call.todo)
  /\ link[l].outConnected /\ link[l].inConnected =>
       /\ ~Attempting(l, {"receive"}) => link[l].outType = link[l].inType
       /\ ~Attempting(l, {"receive", "input", "own"}) =>
            link[l].outAllocator = link[l].inAllocator

\* The transform agrees with itself, also in the midst of a Connect.
TransformAgrees ==
  link["up"].inConnected /\ link["down"].outConnected =>
    link["up"].inType = link["down"].outType

AgreeInv == TransformAgrees /\ \A l \in Links : LinkAgrees(l)

\* What a pin of the transform on link l may become in link k.
FitsTransform(l, k) ==
  /\ l = "up" /\ k.inConnected =>
       \/ link["up"].inConnected /\ k.inType = link["up"].inType
       \/ link["down"].outConnected => k.inType = link["down"].outType
  /\ l = "down" /\ k.outConnected =>
       \/ link["down"].outConnected /\ k.outType = link["down"].outType
       \/ link["up"].inConnected => k.outType = link["up"].inType

LEMMA OneLinkAgrees ==
  ASSUME IInv, AgreeInv, NEW l \in Links, NEW k, link' = [link EXCEPT ![l] = k],
         call = Idle \/ call.link = l, call' = Idle \/ call'.link = l,
         LinkAgrees(l)', FitsTransform(l, k)
  PROVE  AgreeInv'
<1>1. link'[l] = k /\ \A m \in Links \ {l} : link'[m] = link[m]
  BY DEF IInv, LinksOK
<1>2. TransformAgrees'
  BY <1>1 DEF AgreeInv, TransformAgrees, FitsTransform, Links
<1>3. ASSUME NEW m \in Links, m # l PROVE LinkAgrees(m)'
  BY <1>1, <1>3 DEF AgreeInv, LinkAgrees, Attempting
<1> QED BY <1>2, <1>3 DEF AgreeInv

\* An attempt that is undone leaves the output pin disconnected and the
\* input pin no more connected than it was.
LEMMA AttemptFailsAgrees ==
  ASSUME IInv, AgreeInv, call # Idle, call.step # "idle", call.link \in Links, call \in CallRec,
         NEW k \in LinkRec, AttemptFails(k),
         k.inConnected => /\ link[call.link].inConnected
                          /\ k.inType = link[call.link].inType
  PROVE  AgreeInv'
<1> DEFINE l == call.link
           d == OutDisconnect(k)
<1>1. ~d.outConnected /\ d.inConnected = k.inConnected /\ d.inType = k.inType
  BY OutDisconnectEnds
<1>2. link' = [link EXCEPT ![l] = d] /\ call' = [call EXCEPT !.step = "next", !.todo = Tail(@)]
  BY DEF AttemptFails
<1>3. call'.link = l /\ call'.step = "next"
  BY <1>2 DEF CallRec
<1> HIDE DEF d
<1>4. link'[l] = d
  BY <1>2 DEF IInv, LinksOK
<1>5. LinkAgrees(l)'
  BY <1>1, <1>3, <1>4 DEF LinkAgrees, Attempting
<1>6. FitsTransform(l, d)
  BY <1>1 DEF FitsTransform
<1> QED BY <1>2, <1>3, <1>5, <1>6, OneLinkAgrees

LEMMA AttemptConnectionAgrees == ASSUME IInv, AgreeInv, AttemptConnection PROVE AgreeInv'
<1>1. PICK l \in Links, k \in LinkRec, t \in Types \union {NoType}, ok \in BOOLEAN :
        LET c == Checked(k, ok)
        IN /\ l = call.link /\ k = link[l] /\ t = Head(call.todo) /\ Good(k) /\ OutEmpty(k)
           /\ call # Idle /\ call \in CallRec /\ call.step = "next"
           /\ \/ AttemptFails(c) \/ AttemptFails(SetType(c, NoType))
              \/ AttemptFails(SetType(c, t))
              \/ /\ OutCheckMediaType(l, t)
                 /\ link' = [link EXCEPT ![l] = SetType(c, t)]
                 /\ call' = [call EXCEPT !.step = "receive"]
  BY AttemptShape
<1> DEFINE c == Checked(k, ok)
           n == SetType(c, NoType)
           r == SetType(c, t)
<1>2. /\ Good(c) /\ c.inConnected = k.inConnected /\ c.inType = k.inType
      /\ ~c.outConnected /\ c.outAllocator = NoAllocator
  BY <1>1, CheckedKeeps
<1> HIDE DEF c
<1>3. /\ Good(r) /\ r.inConnected = k.inConnected /\ r.inType = k.inType /\ r.outType = t
      /\ Good(n) /\ n.inConnected = k.inConnected /\ n.inType = k.inType
  BY <1>2, SetTypeKeeps
<1>4. \/ AttemptFails(c) \/ AttemptFails(n) \/ AttemptFails(r)
      \/ /\ OutCheckMediaType(l, t) /\ link' = [link EXCEPT ![l] = r]
         /\ call' = [call EXCEPT !.step = "receive"]
  BY <1>1 DEF c
<1> HIDE DEF r, n
<1>5. CASE AttemptFails(c) \/ AttemptFails(n) \/ AttemptFails(r)
  BY <1>1, <1>2, <1>3, <1>5, AttemptFailsAgrees DEF Good
<1>6. CASE /\ OutCheckMediaType(l, t) /\ link' = [link EXCEPT ![l] = r]
           /\ call' = [call EXCEPT !.step = "receive"]
  <2>1. call'.link = l /\ call'.step = "receive" /\ Head(call'.todo) = t
    BY <1>1, <1>6 DEF CallRec
  <2>2. link'[l] = r
    BY <1>1, <1>6 DEF IInv, LinksOK
  <2>3. LinkAgrees(l)'
    BY <1>3, <2>1, <2>2 DEF LinkAgrees, Attempting, Idle
  <2>4. FitsTransform(l, r)
    BY <1>1, <1>3, <1>6 DEF FitsTransform, OutCheckMediaType, CheckTransform
  <2> QED BY <1>1, <1>6, <2>1, <2>3, <2>4, OneLinkAgrees
<1> QED BY <1>4, <1>5, <1>6

LEMMA ReceiveConnectionAgrees == ASSUME IInv, AgreeInv, ReceiveConnection PROVE AgreeInv'
<1>0. PICK l \in Links : l = call.link
  BY InProgress DEF ReceiveConnection
<1> USE <1>0
<1> DEFINE t == Head(call.todo)
           k == link[l]
<1>1. call # Idle /\ call \in CallRec /\ l \in Links /\ Good(k) /\ k \in LinkRec
      /\ call.todo # <<>> /\ call.step = "receive"
  BY InProgress DEF ReceiveConnection, IInv, CallOK, Good
<1>2. t \in Types \union {NoType}
  BY <1>1, TailTyped DEF CallRec
<1>3. CASE AttemptFails(k)
  BY <1>1, <1>3, AttemptFailsAgrees
<1>4. CASE AttemptFails(InBreakConnect(k))
  BY <1>1, <1>4, AttemptFailsAgrees, InBreakConnectEnds, InBreakConnectKeeps DEF Good
<1>5. ASSUME NEW ty \in Types \union {NoType}, CanReceive(l), ReceiveFails(k, ty)
      PROVE  AgreeInv'
  <2> DEFINE c == InConnect(k, ty)
             d == InDisconnect(c)
             b == InBreakConnect(d)
  <2> HIDE DEF k
  <2>1. Good(c)
    BY <1>1, <1>5, InConnectKeeps DEF CanReceive, k
  <2> HIDE DEF c
  <2>2. Good(d) /\ ~d.inConnected
    BY <2>1, InDisconnectKeeps, InDisconnectEnds DEF Good
  <2> HIDE DEF d
  <2>3. Good(b) /\ ~b.inConnected
    BY <2>2, InBreakConnectKeeps, InBreakConnectEnds DEF Good
  <2>4. AttemptFails(b)
    BY <1>5 DEF ReceiveFails, b, c, d
  <2> QED BY <1>1, <2>3, <2>4, AttemptFailsAgrees DEF Good
<1>6. CASE /\ CanReceive(l) /\ InCheckMediaType(l, t)
           /\ link' = [link EXCEPT ![l] = InConnect(k, t)]
           /\ call' = [call EXCEPT !.step = "input"]
  <2> DEFINE c == InConnect(k, t)
  <2>1. /\ c.inConnected /\ c.inType = t /\ c.outConnected = k.outConnected
        /\ c.outType = k.outType
    BY <1>1 DEF InConnect, LinkRec
  <2>2. k.outType = t
    BY <1>1 DEF AgreeInv, LinkAgrees, Attempting
  <2>3. call'.link = l /\ call'.step = "input"
    BY <1>1, <1>6 DEF CallRec
  <2> HIDE DEF c
  <2>4. link'[l] = c
    BY <1>1, <1>6 DEF IInv, LinksOK, c
  <2> HIDE DEF t
  <2>5. LinkAgrees(l)'
    BY <2>1, <2>2, <2>3, <2>4 DEF LinkAgrees, Attempting, Idle
  <2>6. FitsTransform(l, c)
    BY <1>1, <1>6, <2>1, <2>2 DEF FitsTransform, InCheckMediaType, CheckTransform
  <2>7. link' = [link EXCEPT ![l] = c]
    BY <1>6 DEF c
  <2> QED BY <1>1, <2>3, <2>5, <2>6, <2>7, OneLinkAgrees
<1> QED BY <1>2, <1>3, <1>4, <1>5, <1>6 DEF ReceiveConnection

\* The allocator is chosen, and the connection complete.
LEMMA ConnectSucceedsAgrees ==
  ASSUME IInv, AgreeInv, call # Idle, call.step \in {"input", "own"}, call.link \in Links,
         NEW k \in LinkRec, ConnectSucceeds(NotifyAllocator(k)),
         k.outConnected = link[call.link].outConnected, k.outType = link[call.link].outType,
         k.inConnected = link[call.link].inConnected, k.inType = link[call.link].inType
  PROVE  AgreeInv'
<1>0. PICK l \in Links : l = call.link
  OBVIOUS
<1> USE <1>0
<1> DEFINE r == NotifyAllocator(k)
<1>1. /\ r.outConnected = k.outConnected /\ r.outType = k.outType
      /\ r.inConnected = k.inConnected /\ r.inType = k.inType
      /\ r.inAllocator = r.outAllocator
  BY AllocatorEnds
<1> HIDE DEF r
<1>2. link' = [link EXCEPT ![l] = r] /\ call' = Idle
  BY DEF ConnectSucceeds, r
<1>3. link'[l] = r
  BY <1>2 DEF IInv, LinksOK
<1>4. LinkAgrees(l)'
  BY <1>1, <1>2, <1>3 DEF LinkAgrees, Attempting, AgreeInv
<1>5. FitsTransform(l, r)
  BY <1>1 DEF FitsTransform, AgreeInv, TransformAgrees
<1> QED BY <1>2, <1>4, <1>5, OneLinkAgrees

LEMMA AllocatorAgrees ==
  ASSUME IInv, AgreeInv, TryInputAllocator \/ TryOwnAllocator PROVE AgreeInv'
<1>0. PICK l \in Links : l = call.link
  BY InProgress DEF TryInputAllocator, TryOwnAllocator
<1> USE <1>0
<1> DEFINE k == link[l]
<1>1. /\ call # Idle /\ call \in CallRec /\ l \in Links /\ Good(k) /\ k \in LinkRec
      /\ call.todo # <<>> /\ call.step \in {"input", "own"}
  BY InProgress DEF TryInputAllocator, TryOwnAllocator, IInv, CallOK, Good
<1>2. k.outAllocator = NoAllocator
  BY <1>1 DEF IInv, OutState
<1>3. ASSUME NEW j \in LinkRec, CompleteFails(j) PROVE AgreeInv'
  <2> DEFINE d == InDisconnect(j)
  <2>1. ~d.inConnected /\ d.outConnected = j.outConnected
    BY <1>3, InDisconnectEnds
  <2>2. d \in LinkRec
    <3> DEFINE b == InBreakConnect(j)
    <3>1. b \in LinkRec
      BY <1>3, RefsTyped DEF InBreakConnect, LinkRec
    <3>2. PICK n \in Int : n = b.outRefs - 1
      BY <3>1 DEF LinkRec
    <3>3. d = j \/ d = [b EXCEPT !.inConnected = FALSE, !.outRefs = n]
      BY <3>2 DEF InDisconnect
    <3> HIDE DEF b, d
    <3> QED BY <1>3, <3>1, <3>3 DEF LinkRec
  <2> HIDE DEF d
  <2>3. AttemptFails(d)
    BY <1>3 DEF CompleteFails, d
  <2> QED BY <1>1, <2>1, <2>2, <2>3, AttemptFailsAgrees
<1>4. PICK g : /\ g \in {GetAllocator(k), InitAllocator(k)}
               /\ \/ CompleteFails(k) \/ CompleteFails(DropAllocator(g))
                  \/ ConnectSucceeds(NotifyAllocator(g))
                  \/ /\ link' = link \/ link' = [link EXCEPT ![l] = DropAllocator(g)]
                     /\ call' = [call EXCEPT !.step = "own"]
  BY DEF TryInputAllocator, TryOwnAllocator
<1>5. Good(g)
  BY <1>1, <1>2, <1>4, GetAllocatorKeeps, InitAllocatorKeeps
<1>6. /\ g.outConnected = k.outConnected /\ g.outType = k.outType
      /\ g.inConnected = k.inConnected /\ g.inType = k.inType
  BY <1>1, <1>4, AllocatorEnds
<1> DEFINE d == DropAllocator(g)
<1>7. /\ Good(d) /\ d.outConnected = k.outConnected /\ d.outType = k.outType
      /\ d.inConnected = k.inConnected /\ d.inType = k.inType
  BY <1>5, <1>6, AllocatorEnds, DropAllocatorKeeps DEF Good
<1> HIDE DEF d
<1>8. CASE CompleteFails(k) \/ CompleteFails(d)
  BY <1>1, <1>3, <1>7, <1>8 DEF Good
<1>9. CASE ConnectSucceeds(NotifyAllocator(g))
  BY <1>1, <1>5, <1>6, <1>9, ConnectSucceedsAgrees DEF Good
<1>10. ASSUME call' = [call EXCEPT !.step = "own"],
              NEW j, j \in {k, d}, link' = [link EXCEPT ![l] = j]
       PROVE  AgreeInv'
  <2>1. call'.link = l /\ call'.step = "own"
    BY <1>1, <1>10 DEF CallRec
  <2>2. link'[l] = j
    BY <1>1, <1>10 DEF IInv, LinksOK
  <2>3. /\ j.outConnected = k.outConnected /\ j.outType = k.outType
        /\ j.inConnected = k.inConnected /\ j.inType = k.inType
    BY <1>7, <1>10
  <2>4. LinkAgrees(l)'
    BY <1>1, <2>1, <2>2, <2>3 DEF LinkAgrees, Attempting, AgreeInv, Idle
  <2>5. FitsTransform(l, j)
    BY <2>3 DEF FitsTransform, AgreeInv, TransformAgrees
  <2> QED BY <1>1, <1>10, <2>1, <2>4, <2>5, OneLinkAgrees
<1>11. link = [link EXCEPT ![l] = k]
  BY <1>1 DEF IInv, LinksOK
<1> QED BY <1>4, <1>8, <1>9, <1>10, <1>11 DEF d

LEMMA DisconnectAgrees ==
  ASSUME IInv, AgreeInv, NEW l \in Links, DisconnectOut(l) \/ DisconnectIn(l)
  PROVE  AgreeInv'
<1>1. link[l] \in LinkRec
  BY LinkIsGood DEF Good
<1>2. PICK r : /\ link' = [link EXCEPT ![l] = r] /\ call = Idle /\ call' = Idle
               /\ r = OutDisconnect(link[l]) \/ r = InDisconnect(link[l])
  BY DEF DisconnectOut, DisconnectIn
<1>3. \/ ~r.outConnected /\ r.inConnected = link[l].inConnected /\ r.inType = link[l].inType
      \/ ~r.inConnected /\ r.outConnected = link[l].outConnected /\ r.outType = link[l].outType
  BY <1>1, <1>2, OutDisconnectEnds, InDisconnectEnds
<1>4. link'[l] = r
  BY <1>2 DEF IInv, LinksOK
<1>5. LinkAgrees(l)'
  BY <1>2, <1>3, <1>4 DEF LinkAgrees, Attempting
<1>6. FitsTransform(l, r)
  BY <1>3 DEF FitsTransform
<1> QED BY <1>2, <1>5, <1>6, OneLinkAgrees

LEMMA NextAgrees == ASSUME IInv, AgreeInv, [Next]_vars PROVE AgreeInv'
<1>1. ASSUME NEW l \in Links, NEW match, NEW todo, NEW round, Connect(l, match, todo, round)
      PROVE  AgreeInv'
  BY <1>1 DEF Connect, AgreeInv, LinkAgrees, TransformAgrees, Attempting
<1>2. CASE NextEnumerator \/ SkipType
  <2>1. /\ call # Idle /\ call \in CallRec /\ call.step = "next" /\ call.link \in Links
        /\ OutEmpty(link[call.link])
    BY <1>2, InProgress DEF NextEnumerator, SkipType, IInv, OutState
  <2>2. link' = link /\ call'.link = call.link /\ call'.step = "next"
    BY <1>2, <2>1 DEF NextEnumerator, SkipType, CallRec
  <2> QED BY <2>1, <2>2 DEF AgreeInv, LinkAgrees, TransformAgrees, Attempting
<1>3. CASE ConnectFails
  <2>0. PICK l \in Links : l = call.link
    BY <1>3, InProgress DEF ConnectFails
  <2> USE <2>0
  <2> DEFINE r == OutBreakConnect(link[l])
  <2>1. call # Idle /\ l \in Links /\ link[l] \in LinkRec /\ OutEmpty(link[l])
    BY <1>3, InProgress DEF ConnectFails, IInv, OutState, Good
  <2>2. ~r.outConnected /\ r.inConnected = link[l].inConnected /\ r.inType = link[l].inType
    BY <2>1 DEF OutBreakConnect, LinkRec, OutEmpty
  <2> HIDE DEF r
  <2>3. link' = [link EXCEPT ![l] = r] /\ call' = Idle
    BY <1>3 DEF ConnectFails, r
  <2>4. link'[l] = r
    BY <2>1, <2>3 DEF IInv, LinksOK
  <2>5. LinkAgrees(l)' /\ FitsTransform(l, r)
    BY <2>2, <2>3, <2>4 DEF LinkAgrees, Attempting, FitsTransform
  <2> QED BY <2>1, <2>3, <2>5, OneLinkAgrees
<1>4. CASE UNCHANGED <<link, call>>
  BY <1>4 DEF AgreeInv, LinkAgrees, TransformAgrees, Attempting
<1> QED
  BY <1>1, <1>2, <1>3, <1>4, AttemptConnectionAgrees, ReceiveConnectionAgrees, AllocatorAgrees,
        DisconnectAgrees DEF Next, ConnectStep, ConnectWithType, ConnectMatching, ChangeState, vars

\* Between calls the formats agree along the chain, in whatever order its
\* pins were connected and disconnected, whichever attempts failed: a link
\* connected at both ends has one type and one allocator, and the transform
\* connected on both sides has one format (CTransformInputPin's and
\* CTransformOutputPin's CheckMediaType, CBaseOutputPin::DecideAllocator).
THEOREM ChainAlwaysAgrees == Spec => []ChainAgrees
<1>1. Init => AgreeInv
  BY DEF Init, AgreeInv, LinkAgrees, TransformAgrees, Attempting, Unconnected, Links
<1>2. IInv /\ AgreeInv /\ [Next]_vars => AgreeInv'
  BY NextAgrees
<1>3. AgreeInv => ChainAgrees
  BY DEF AgreeInv, LinkAgrees, TransformAgrees, Attempting, ChainAgrees
<1> QED BY <1>1, <1>2, <1>3, Invariance, PTL DEF Spec
\* The types agree and so do formats: the invariant the run checks.
THEOREM ConnectionsAlwaysAgree == Spec => []ConnectionsAgree
<1>1. TypeOK /\ ChainAgrees => ConnectionsAgree
  BY DEF ConnectionsAgree
<1> QED BY <1>1, TypeCorrect, ChainAlwaysAgrees, PTL

(***************************************************************************)
(* Connect does all or nothing, and leaves active filters alone            *)
(***************************************************************************)
\* An input pin that is not connected holds no allocator.
Tidy(k) == ~k.inConnected => k.inAllocator = NoAllocator

\* The input pins of links k and w hold the same.
SameIn(k, w) == /\ k.inConnected = w.inConnected /\ k.inAllocator = w.inAllocator
                /\ k.inConnected => k.inType = w.inType

\* What a Connect has done so far: nothing to the input pin until that has
\* accepted the connection, and then it was not connected before and its
\* filter is stopped.
SoFar ==
  /\ call.step \in {"next", "receive"} => SameIn(link[call.link], call.was)
  /\ call.step # "next" =>
       link[call.link].inputPin /\ link[call.link].outType \in call.match
  /\ call.step \in {"input", "own"} =>
       /\ ~call.was.inConnected /\ link[call.link].inConnected
       /\ link[call.link].inType = link[call.link].outType
       /\ Receiver[call.link] \notin active

CanRollBack ==
  call # Idle =>
    /\ Good(call.was) /\ OutEmpty(call.was) /\ Tidy(call.was)
    /\ Sender[call.link] \notin active
    /\ SoFar

AtomicInv == CanRollBack /\ \A l \in Links : Tidy(link[l])

\* The references of a link follow from its pointers.
LEMMA PointersDecide ==
  ASSUME NEW k, NEW w, Good(k), Good(w), OutEmpty(k), OutEmpty(w),
         k.inConnected = w.inConnected, k.inAllocator = w.inAllocator
  PROVE  k = [w EXCEPT !.outType = k.outType, !.inType = k.inType]
<1> DEFINE r == [w EXCEPT !.outType = k.outType, !.inType = k.inType]
<1>1. k \in LinkRec /\ w \in LinkRec
  BY DEF Good
<1>2. /\ k.outConnected = FALSE /\ w.outConnected = FALSE
      /\ k.inputPin = FALSE /\ w.inputPin = FALSE
  BY <1>1 DEF OutEmpty, LinkRec
<1>3. k.inRefs = w.inRefs /\ k.outRefs = w.outRefs
  <2>1. /\ k.inRefs = One(FALSE) + One(FALSE) /\ w.inRefs = One(FALSE) + One(FALSE)
        /\ k.outRefs = One(k.inConnected) /\ w.outRefs = One(k.inConnected)
    BY <1>2, Zenon DEF Good, Balanced
  <2> QED BY <2>1
<1>4. ASSUME NEW a \in Allocators PROVE k.allocRefs[a] = w.allocRefs[a]
  BY DEF Good, Balanced, OutEmpty
<1>5. k.allocRefs = w.allocRefs
  BY <1>1, <1>4 DEF LinkRec
<1>6. k.outAllocator = w.outAllocator
  BY DEF OutEmpty
<1>7. r \in LinkRec
  BY <1>1 DEF LinkRec
<1>8. /\ r.outConnected = w.outConnected /\ r.outType = k.outType /\ r.inputPin = w.inputPin
      /\ r.outAllocator = w.outAllocator /\ r.inConnected = w.inConnected
      /\ r.inType = k.inType /\ r.inAllocator = w.inAllocator /\ r.outRefs = w.outRefs
      /\ r.inRefs = w.inRefs /\ r.allocRefs = w.allocRefs
  BY <1>1 DEF LinkRec
<1> HIDE DEF r
<1>9. k = r
  BY <1>1, <1>2, <1>3, <1>5, <1>6, <1>7, <1>8 DEF LinkRec
<1> QED BY <1>9 DEF r

LEMMA OutBreakLeavesIn ==
  ASSUME NEW k \in LinkRec, NEW r, r \in {OutDisconnect(k), OutBreakConnect(k)}
  PROVE  /\ r.inConnected = k.inConnected /\ r.inType = k.inType
         /\ r.inAllocator = k.inAllocator
BY DEF OutDisconnect, OutBreakConnect, LinkRec

LEMMA InBreakLeavesOut ==
  ASSUME NEW k \in LinkRec, NEW r, r \in {InDisconnect(k), InBreakConnect(k)}
  PROVE  /\ r.outConnected = k.outConnected /\ r.outType = k.outType
         /\ r.inputPin = k.inputPin /\ r.outAllocator = k.outAllocator
         /\ r = InDisconnect(k) /\ (k.inConnected \/ Tidy(k)) =>
              ~r.inConnected /\ r.inAllocator = NoAllocator
<1>1. /\ r.outConnected = k.outConnected /\ r.outType = k.outType
      /\ r.inputPin = k.inputPin /\ r.outAllocator = k.outAllocator
  BY DEF InDisconnect, InBreakConnect, LinkRec
<1>2. ASSUME r = InDisconnect(k), k.inConnected \/ Tidy(k)
      PROVE  ~r.inConnected /\ r.inAllocator = NoAllocator
  BY <1>2 DEF InDisconnect, InBreakConnect, LinkRec, Tidy
<1> QED BY <1>1, <1>2

LEMMA ActiveLeft ==
  ASSUME IInv, NEW l \in Links, NEW k, link' = [link EXCEPT ![l] = k],
         Sender[l] \in active =>
           /\ k.outConnected = link[l].outConnected /\ k.outType = link[l].outType
           /\ k.outAllocator = link[l].outAllocator /\ k.inputPin = link[l].inputPin,
         Receiver[l] \in active =>
           /\ k.inConnected = link[l].inConnected /\ k.inType = link[l].inType
           /\ k.inAllocator = link[l].inAllocator
  PROVE  LeavesActiveFilters
<1>1. link'[l] = k /\ \A m \in Links \ {l} : link'[m] = link[m]
  BY DEF IInv, LinksOK
<1> QED BY <1>1 DEF LeavesActiveFilters

\* An attempt that is undone leaves the link as the call found it, but for
\* the type of a pin that is not connected.
LEMMA AttemptFailsAtomic ==
  ASSUME IInv, AtomicInv, call # Idle, call \in CallRec, call.link \in Links,
         NEW k, Good(k), AttemptFails(k), SameIn(k, call.was),
         Receiver[call.link] \in active =>
           /\ k.inConnected = link[call.link].inConnected
           /\ k.inType = link[call.link].inType
           /\ k.inAllocator = link[call.link].inAllocator
  PROVE  AtomicInv' /\ EndsCleanly /\ LeavesActiveFilters
<1>0. PICK l \in Links : l = call.link
  OBVIOUS
<1> DEFINE d == OutDisconnect(k)
<1>1. /\ d.inConnected = k.inConnected /\ d.inType = k.inType
      /\ d.inAllocator = k.inAllocator
  BY OutBreakLeavesIn DEF Good
<1>2. link' = [link EXCEPT ![l] = d] /\ active' = active
  BY <1>0 DEF AttemptFails
<1>3. /\ call'.link = l /\ call'.step = "next" /\ call'.was = call.was
  BY <1>0 DEF CallRec, AttemptFails
<1>4. call' # Idle
  BY <1>3 DEF Idle
<1> HIDE DEF d
<1>5. link'[l] = d /\ \A m \in Links \ {l} : link'[m] = link[m]
  BY <1>2 DEF IInv, LinksOK
<1>6. /\ Good(call.was) /\ OutEmpty(call.was) /\ Tidy(call.was)
      /\ Sender[l] \notin active
  BY <1>0 DEF AtomicInv, CanRollBack
<1>7. SameIn(d, call.was)
  BY <1>1 DEF SameIn
<1>8. CanRollBack'
  BY <1>2, <1>3, <1>5, <1>6, <1>7 DEF CanRollBack, SoFar
<1>9. ASSUME NEW m \in Links PROVE Tidy(link[m])'
  BY <1>5, <1>6, <1>7 DEF Tidy, SameIn, AtomicInv
<1>10. LeavesActiveFilters
  BY <1>0, <1>1, <1>2, <1>6, ActiveLeft
<1> QED BY <1>4, <1>8, <1>9, <1>10 DEF AtomicInv, EndsCleanly

\* A link that a Connect has got as far as, while it goes on.
LEMMA GoesOnAtomic ==
  ASSUME IInv, AtomicInv, call # Idle, call \in CallRec, call.link \in Links,
         NEW k, link' = [link EXCEPT ![call.link] = k], active' = active,
         NEW s \in {"receive", "input", "own"}, call' = [call EXCEPT !.step = s],
         SoFar',
         Tidy(k),
         Receiver[call.link] \in active =>
           /\ k.inConnected = link[call.link].inConnected
           /\ k.inType = link[call.link].inType
           /\ k.inAllocator = link[call.link].inAllocator
  PROVE  AtomicInv' /\ EndsCleanly /\ LeavesActiveFilters
<1>0. PICK l \in Links : l = call.link
  OBVIOUS
<1>1. call'.link = l /\ call'.step = s /\ call'.was = call.was
  BY <1>0 DEF CallRec
<1>2. call' # Idle
  BY <1>1 DEF Idle
<1>3. link'[l] = k /\ \A m \in Links \ {l} : link'[m] = link[m]
  BY <1>0 DEF IInv, LinksOK
<1>4. /\ Good(call.was) /\ OutEmpty(call.was) /\ Tidy(call.was)
      /\ Sender[l] \notin active
  BY <1>0 DEF AtomicInv, CanRollBack
<1>6. CanRollBack'
  BY <1>1, <1>4 DEF CanRollBack
<1>7. ASSUME NEW m \in Links PROVE Tidy(link[m])'
  BY <1>3 DEF Tidy, AtomicInv
<1>8. LeavesActiveFilters
  BY <1>0, <1>4, ActiveLeft
<1> QED BY <1>2, <1>6, <1>7, <1>8 DEF AtomicInv, EndsCleanly

LEMMA AttemptConnectionAtomic ==
  ASSUME IInv, AtomicInv, AttemptConnection
  PROVE  AtomicInv' /\ EndsCleanly /\ LeavesActiveFilters
<1>1. PICK l \in Links, k \in LinkRec, t \in Types \union {NoType}, ok \in BOOLEAN :
        LET c == Checked(k, ok)
        IN /\ l = call.link /\ k = link[l] /\ t = Head(call.todo) /\ Good(k) /\ OutEmpty(k)
           /\ call # Idle /\ call \in CallRec /\ call.step = "next" /\ t \in call.match
           /\ \/ AttemptFails(c) \/ AttemptFails(SetType(c, NoType))
              \/ AttemptFails(SetType(c, t))
              \/ /\ ok /\ link' = [link EXCEPT ![l] = SetType(c, t)]
                 /\ call' = [call EXCEPT !.step = "receive"] /\ active' = active
  BY AttemptShape
<1> DEFINE c == Checked(k, ok)
           n == SetType(c, NoType)
           r == SetType(c, t)
<1>2. /\ Good(c) /\ c.inConnected = k.inConnected /\ c.inType = k.inType
      /\ c.inAllocator = k.inAllocator /\ (ok => c.inputPin)
      /\ ~c.outConnected /\ c.outAllocator = NoAllocator
  BY <1>1, CheckedKeeps
<1> HIDE DEF c
<1>3. /\ Good(r) /\ r.inConnected = k.inConnected /\ r.inType = k.inType /\ r.outType = t
      /\ r.inAllocator = k.inAllocator /\ (ok => r.inputPin)
      /\ Good(n) /\ n.inConnected = k.inConnected /\ n.inType = k.inType
      /\ n.inAllocator = k.inAllocator
  BY <1>2, SetTypeKeeps
<1>4. \/ AttemptFails(c) \/ AttemptFails(n) \/ AttemptFails(r)
      \/ /\ ok /\ link' = [link EXCEPT ![l] = r]
         /\ call' = [call EXCEPT !.step = "receive"] /\ active' = active
  BY <1>1 DEF c
<1> HIDE DEF r, n
<1>5. SameIn(k, call.was) /\ Tidy(k)
  BY <1>1 DEF AtomicInv, CanRollBack, SoFar
<1>6. CASE AttemptFails(c) \/ AttemptFails(n) \/ AttemptFails(r)
  <2>1. SameIn(c, call.was) /\ SameIn(n, call.was) /\ SameIn(r, call.was)
    BY <1>2, <1>3, <1>5 DEF SameIn
  <2> QED BY <1>1, <1>2, <1>3, <1>6, <2>1, AttemptFailsAtomic
<1>7. CASE /\ ok /\ link' = [link EXCEPT ![l] = r]
           /\ call' = [call EXCEPT !.step = "receive"] /\ active' = active
  <2>1. call'.link = l /\ call'.step = "receive" /\ call'.was = call.was
        /\ call'.match = call.match
    BY <1>1, <1>7 DEF CallRec
  <2>2. link'[l] = r
    BY <1>1, <1>7 DEF IInv, LinksOK
  <2>3. SameIn(r, call.was) /\ Tidy(r)
    BY <1>3, <1>5 DEF SameIn, Tidy
  <2>4. SoFar'
    BY <1>1, <1>3, <1>7, <2>1, <2>2, <2>3 DEF SoFar
  <2> QED BY <1>1, <1>3, <1>7, <2>3, <2>4, GoesOnAtomic
<1> QED BY <1>4, <1>6, <1>7

LEMMA ReceiveConnectionAtomic ==
  ASSUME IInv, AgreeInv, AtomicInv, ReceiveConnection
  PROVE  AtomicInv' /\ EndsCleanly /\ LeavesActiveFilters
<1>1. /\ call # Idle /\ call \in CallRec /\ call.link \in Links /\ Good(link[call.link])
      /\ call.todo # <<>> /\ call.step = "receive"
  BY InProgress DEF ReceiveConnection, IInv, CallOK
<1>2. PICK l \in Links : l = call.link
  BY <1>1
<1>3. PICK k \in LinkRec : k = link[l]
  BY <1>1, <1>2 DEF Good
<1>4. PICK t \in Types \union {NoType} : t = Head(call.todo)
  BY <1>1, TailTyped DEF CallRec
<1>5. /\ SameIn(k, call.was) /\ Tidy(k) /\ Tidy(call.was) /\ k.inputPin
      /\ k.outType \in call.match
  BY <1>1, <1>2, <1>3 DEF AtomicInv, CanRollBack, SoFar
<1>6. k.outType = t /\ Good(k)
  BY <1>1, <1>2, <1>3, <1>4 DEF AgreeInv, LinkAgrees, Attempting
<1>7. CASE AttemptFails(k)
  BY <1>1, <1>2, <1>3, <1>5, <1>7, AttemptFailsAtomic
<1>8. ASSUME NEW j, Good(j), AttemptFails(j), CanReceive(l),
             ~j.inConnected, j.inAllocator = NoAllocator
      PROVE  AtomicInv' /\ EndsCleanly /\ LeavesActiveFilters
  <2>1. ~k.inConnected /\ Receiver[l] \notin active
    BY <1>3, <1>8 DEF CanReceive
  <2>2. SameIn(j, call.was)
    <3>1. j.inConnected \in BOOLEAN /\ call.was.inConnected \in BOOLEAN
      BY <1>1, <1>8 DEF Good, LinkRec, CallRec
    <3>2. ~call.was.inConnected /\ call.was.inAllocator = NoAllocator
      BY <1>5, <2>1 DEF SameIn, Tidy
    <3> QED BY <1>8, <3>1, <3>2 DEF SameIn
  <2> QED BY <1>1, <1>2, <1>8, <2>1, <2>2, AttemptFailsAtomic
<1>9. CASE CanReceive(l) /\ AttemptFails(InBreakConnect(k))
  <2> DEFINE j == InBreakConnect(k)
  <2>1. Good(j) /\ ~j.inConnected /\ j.inAllocator = NoAllocator
    BY <1>3, <1>6, <1>9, InBreakConnectKeeps DEF CanReceive
  <2> HIDE DEF j
  <2> QED BY <1>8, <1>9, <2>1 DEF j
<1>10. ASSUME NEW ty \in Types \union {NoType}, CanReceive(l), ReceiveFails(k, ty)
       PROVE  AtomicInv' /\ EndsCleanly /\ LeavesActiveFilters
  <2> DEFINE c == InConnect(k, ty)
             d == InDisconnect(c)
             b == InBreakConnect(d)
  <2>1. Good(c)
    BY <1>3, <1>6, <1>10, InConnectKeeps DEF CanReceive
  <2> HIDE DEF c
  <2>2. Good(d) /\ ~d.inConnected
    BY <2>1, InDisconnectKeeps, InDisconnectEnds DEF Good
  <2> HIDE DEF d
  <2>3. Good(b) /\ ~b.inConnected /\ b.inAllocator = NoAllocator
    BY <2>2, InBreakConnectKeeps
  <2>4. AttemptFails(b)
    BY <1>10 DEF ReceiveFails, b, c, d
  <2> HIDE DEF b
  <2> QED BY <1>8, <1>10, <2>3, <2>4
<1>11. CASE /\ CanReceive(l) /\ link' = [link EXCEPT ![l] = InConnect(k, t)]
            /\ call' = [call EXCEPT !.step = "input"] /\ active' = active
  <2> DEFINE c == InConnect(k, t)
  <2>1. /\ c.inConnected /\ c.inType = t /\ c.outType = t /\ c.inputPin
    BY <1>5, <1>6 DEF InConnect, LinkRec
  <2> HIDE DEF c
  <2>2. call'.link = l /\ call'.step = "input" /\ call'.was = call.was
        /\ call'.match = call.match
    BY <1>1, <1>2, <1>11 DEF CallRec
  <2>3. link'[l] = c
    BY <1>11 DEF IInv, LinksOK, c
  <2>4. ~k.inConnected /\ ~call.was.inConnected /\ Receiver[l] \notin active
    BY <1>3, <1>5, <1>11 DEF SameIn, CanReceive
  <2>5. SoFar'
    BY <1>5, <1>6, <1>11, <2>1, <2>2, <2>3, <2>4 DEF SoFar
  <2>6. Tidy(c) /\ link' = [link EXCEPT ![l] = c]
    BY <1>11, <2>1 DEF Tidy, c
  <2> QED BY <1>1, <1>2, <1>11, <2>4, <2>5, <2>6, GoesOnAtomic
<1>12. \/ AttemptFails(k)
       \/ CanReceive(l) /\ AttemptFails(InBreakConnect(k))
       \/ CanReceive(l) /\ ReceiveFails(k, NoType)
       \/ CanReceive(l) /\ ReceiveFails(k, t)
       \/ /\ CanReceive(l) /\ link' = [link EXCEPT ![l] = InConnect(k, t)]
          /\ call' = [call EXCEPT !.step = "input"] /\ active' = active
  BY <1>2, <1>3, <1>4 DEF ReceiveConnection, ReceiveFails, AttemptFails, CanReceive
<1> QED BY <1>7, <1>9, <1>10, <1>11, <1>12

LEMMA AllocatorKeepsPin ==
  ASSUME NEW k \in LinkRec, NEW r,
         r \in {NotifyAllocator(k), GetAllocator(k), InitAllocator(k), DropAllocator(k)}
  PROVE  /\ r.inputPin = k.inputPin
         /\ r = NotifyAllocator(k) => r.outAllocator = k.outAllocator
<1>1. CASE r = NotifyAllocator(k)
  BY <1>1 DEF NotifyAllocator, LinkRec
<1>2. CASE r # NotifyAllocator(k)
  BY <1>2 DEF GetAllocator, LendAllocator, CreateAllocator, InitAllocator, DropAllocator,
              LinkRec
<1> QED BY <1>1, <1>2

\* DecideAllocator, from the step in which the input pin has accepted.
LEMMA AllocatorAtomic ==
  ASSUME IInv, AgreeInv, AtomicInv, TryInputAllocator \/ TryOwnAllocator
  PROVE  AtomicInv' /\ EndsCleanly /\ LeavesActiveFilters
<1>1. /\ call # Idle /\ call \in CallRec /\ call.link \in Links /\ Good(link[call.link])
      /\ call.todo # <<>> /\ call.step \in {"input", "own"}
  BY InProgress DEF TryInputAllocator, TryOwnAllocator, IInv, CallOK
<1>2. PICK l \in Links : l = call.link
  BY <1>1
<1>3. PICK k \in LinkRec : k = link[l]
  BY <1>1, <1>2 DEF Good
<1>4. k.outConnected /\ k.outAllocator = NoAllocator /\ Good(k)
  BY <1>1, <1>2, <1>3 DEF IInv, OutState
<1>5. /\ Tidy(call.was) /\ k.inputPin /\ k.outType \in call.match /\ k.inConnected
      /\ k.inType = k.outType /\ ~call.was.inConnected
      /\ Receiver[l] \notin active /\ Sender[l] \notin active
  BY <1>1, <1>2, <1>3 DEF AtomicInv, CanRollBack, SoFar
<1>6. ASSUME NEW j, Good(j), j.inConnected, CompleteFails(j)
      PROVE  AtomicInv' /\ EndsCleanly /\ LeavesActiveFilters
  <2> DEFINE d == InDisconnect(j)
  <2>1. Good(d) /\ ~d.inConnected /\ d.inAllocator = NoAllocator
    BY <1>6, InDisconnectKeeps, InBreakLeavesOut DEF Good
  <2>2. AttemptFails(d)
    BY <1>6 DEF CompleteFails
  <2> HIDE DEF d
  <2>3. SameIn(d, call.was)
    <3>1. d.inConnected \in BOOLEAN /\ call.was.inConnected \in BOOLEAN
      BY <1>1, <2>1 DEF Good, LinkRec, CallRec
    <3> QED BY <1>5, <2>1, <3>1 DEF SameIn, Tidy
  <2> QED BY <1>1, <1>2, <1>5, <2>1, <2>2, <2>3, AttemptFailsAtomic
<1>7. PICK g : /\ g \in {GetAllocator(k), InitAllocator(k)}
               /\ \/ CompleteFails(k) \/ CompleteFails(DropAllocator(g))
                  \/ ConnectSucceeds(NotifyAllocator(g))
                  \/ /\ link' = link \/ link' = [link EXCEPT ![l] = DropAllocator(g)]
                     /\ call' = [call EXCEPT !.step = "own"] /\ active' = active
  BY <1>2, <1>3 DEF TryInputAllocator, TryOwnAllocator, CompleteFails, AttemptFails,
                    ConnectSucceeds
<1>8. Good(g) /\ g.outAllocator \in Allocators
  BY <1>4, <1>7, GetAllocatorKeeps, InitAllocatorKeeps
<1>9. /\ g.outConnected = k.outConnected /\ g.outType = k.outType
      /\ g.inConnected = k.inConnected /\ g.inType = k.inType /\ g.inputPin = k.inputPin
  BY <1>7, AllocatorEnds, AllocatorKeepsPin
<1> DEFINE d == DropAllocator(g)
           n == NotifyAllocator(g)
<1>10. /\ Good(d) /\ d.outConnected = k.outConnected /\ d.outType = k.outType
       /\ d.inConnected = k.inConnected /\ d.inType = k.inType /\ d.inputPin = k.inputPin
  BY <1>8, <1>9, AllocatorEnds, AllocatorKeepsPin, DropAllocatorKeeps DEF Good
<1>11. /\ n.outConnected = k.outConnected /\ n.outType = k.outType
       /\ n.inConnected = k.inConnected /\ n.inType = k.inType /\ n.inputPin = k.inputPin
       /\ n.inAllocator = n.outAllocator /\ n.outAllocator = g.outAllocator
  BY <1>8, <1>9, AllocatorEnds, AllocatorKeepsPin DEF Good
<1> HIDE DEF d, n
<1>12. CASE CompleteFails(k) \/ CompleteFails(d)
  BY <1>4, <1>5, <1>6, <1>10, <1>12
<1>13. CASE ConnectSucceeds(n)
  <2>1. link' = [link EXCEPT ![l] = n] /\ call' = Idle
    BY <1>2, <1>13 DEF ConnectSucceeds
  <2>2. link'[l] = n /\ \A m \in Links \ {l} : link'[m] = link[m]
    BY <2>1 DEF IInv, LinksOK
  <2>3. EndsCleanly
    BY <1>2, <1>4, <1>5, <1>8, <1>11, <2>2 DEF EndsCleanly, Allocators, NoAllocator
  <2>4. AtomicInv'
    BY <1>5, <1>11, <2>1, <2>2 DEF AtomicInv, CanRollBack, Tidy
  <2>5. LeavesActiveFilters
    BY <1>5, <2>1, ActiveLeft
  <2> QED BY <2>3, <2>4, <2>5
<1>14. ASSUME NEW j, j \in {k, d}, link' = [link EXCEPT ![l] = j],
              call' = [call EXCEPT !.step = "own"], active' = active
       PROVE  AtomicInv' /\ EndsCleanly /\ LeavesActiveFilters
  <2>1. /\ j.outType = k.outType /\ j.inConnected = k.inConnected /\ j.inType = k.inType
        /\ j.inputPin = k.inputPin
    BY <1>10, <1>14
  <2>2. call'.link = l /\ call'.step = "own" /\ call'.was = call.was
        /\ call'.match = call.match
    BY <1>1, <1>2, <1>14 DEF CallRec
  <2>3. link'[l] = j
    BY <1>14 DEF IInv, LinksOK
  <2>4. SoFar'
    BY <1>5, <1>14, <2>1, <2>2, <2>3 DEF SoFar
  <2>5. Tidy(j)
    BY <1>5, <2>1 DEF Tidy
  <2> QED BY <1>1, <1>2, <1>5, <1>14, <2>4, <2>5, GoesOnAtomic
<1>15. link = [link EXCEPT ![l] = k]
  BY <1>3 DEF IInv, LinksOK
<1> QED BY <1>7, <1>12, <1>13, <1>14, <1>15 DEF d, n

LEMMA ConnectFailsAtomic ==
  ASSUME IInv, AtomicInv, ConnectFails
  PROVE  AtomicInv' /\ EndsCleanly /\ LeavesActiveFilters
<1>1. /\ call # Idle /\ call \in CallRec /\ call.link \in Links /\ Good(link[call.link])
      /\ call.step = "next"
  BY InProgress DEF ConnectFails
<1>2. PICK l \in Links : l = call.link
  BY <1>1
<1>3. PICK k \in LinkRec : k = link[l]
  BY <1>1, <1>2 DEF Good
<1>4. PICK w : w = call.was
  OBVIOUS
<1>5. Good(k) /\ OutEmpty(k)
  BY <1>1, <1>2, <1>3 DEF IInv, OutState
<1>6. Good(w) /\ OutEmpty(w) /\ SameIn(k, w) /\ Tidy(k) /\ Sender[l] \notin active
  BY <1>1, <1>2, <1>3, <1>4 DEF AtomicInv, CanRollBack, SoFar
<1> DEFINE r == OutBreakConnect(k)
<1>7. Good(r) /\ OutEmpty(r) /\ r.inConnected = k.inConnected /\ r.inType = k.inType
      /\ r.inAllocator = k.inAllocator
  BY <1>5, OutBreakConnectKeeps, OutBreakLeavesIn DEF OutEmpty
<1> HIDE DEF r
<1>8. link' = [link EXCEPT ![l] = r] /\ call' = Idle
  BY <1>2, <1>3 DEF ConnectFails, r
<1>9. link'[l] = r /\ \A m \in Links \ {l} : link'[m] = link[m]
  BY <1>8 DEF IInv, LinksOK
<1>10. r = [w EXCEPT !.outType = r.outType, !.inType = r.inType]
  <2>1. r.inConnected = w.inConnected /\ r.inAllocator = w.inAllocator
    BY <1>6, <1>7 DEF SameIn
  <2> QED BY <1>5, <1>6, <1>7, <2>1, PointersDecide
<1>11. EndsCleanly
  <2>1. ~r.outConnected /\ (r.inConnected => r.inType = w.inType)
    BY <1>6, <1>7 DEF OutEmpty, SameIn
  <2> QED BY <1>2, <1>4, <1>9, <1>10, <2>1 DEF EndsCleanly
<1>12. AtomicInv'
  BY <1>6, <1>7, <1>8, <1>9 DEF AtomicInv, CanRollBack, Tidy
<1>13. LeavesActiveFilters
  BY <1>3, <1>6, <1>7, <1>8, ActiveLeft
<1> QED BY <1>11, <1>12, <1>13

LEMMA DisconnectAtomic ==
  ASSUME IInv, AtomicInv, NEW l \in Links, DisconnectOut(l) \/ DisconnectIn(l)
  PROVE  AtomicInv' /\ EndsCleanly /\ LeavesActiveFilters
<1>1. PICK k \in LinkRec : k = link[l]
  BY LinkIsGood DEF Good
<1>2. call = Idle /\ call' = Idle /\ Tidy(k)
  BY <1>1 DEF DisconnectOut, DisconnectIn, AtomicInv
<1>3. ASSUME NEW r, link' = [link EXCEPT ![l] = r], Tidy(r) PROVE AtomicInv'
  <2>1. link'[l] = r /\ \A m \in Links \ {l} : link'[m] = link[m]
    BY <1>3 DEF IInv, LinksOK
  <2> QED BY <1>2, <1>3, <2>1 DEF AtomicInv, CanRollBack, Tidy
<1>4. CASE DisconnectOut(l)
  <2> DEFINE r == OutDisconnect(k)
  <2>1. /\ r.inConnected = k.inConnected /\ r.inType = k.inType
        /\ r.inAllocator = k.inAllocator
    BY OutBreakLeavesIn
  <2>2. link' = [link EXCEPT ![l] = r] /\ Sender[l] \notin active
    BY <1>1, <1>4 DEF DisconnectOut
  <2> HIDE DEF r
  <2>3. LeavesActiveFilters
    BY <1>1, <2>1, <2>2, ActiveLeft
  <2>4. Tidy(r)
    BY <1>2, <2>1 DEF Tidy
  <2> QED BY <1>2, <1>3, <2>2, <2>3, <2>4 DEF EndsCleanly
<1>5. CASE DisconnectIn(l)
  <2> DEFINE r == InDisconnect(k)
  <2>1. /\ r.outConnected = k.outConnected /\ r.outType = k.outType
        /\ r.inputPin = k.inputPin /\ r.outAllocator = k.outAllocator /\ Tidy(r)
    BY <1>2, InBreakLeavesOut DEF Tidy
  <2>2. link' = [link EXCEPT ![l] = r] /\ Receiver[l] \notin active
    BY <1>1, <1>5 DEF DisconnectIn
  <2> HIDE DEF r
  <2>3. LeavesActiveFilters
    BY <1>1, <2>1, <2>2, ActiveLeft
  <2> QED BY <1>2, <1>3, <2>1, <2>2, <2>3 DEF EndsCleanly
<1> QED BY <1>4, <1>5

LEMMA StartAtomic ==
  ASSUME IInv, AtomicInv, NEW l \in Links, NEW match, NEW todo, NEW round,
         Connect(l, match, todo, round)
  PROVE  AtomicInv' /\ EndsCleanly /\ LeavesActiveFilters
<1>1. PICK k \in LinkRec : k = link[l] /\ Good(k) /\ Tidy(k)
  BY LinkIsGood DEF Good, AtomicInv
<1>2. OutEmpty(k) /\ Sender[l] \notin active
  BY <1>1 DEF Connect, IInv, OutState
<1>3. /\ call'.link = l /\ call'.step = "next" /\ call'.was = k
      /\ link' = link /\ active' = active /\ call = Idle
  BY <1>1 DEF Connect
<1>4. SameIn(k, k)
  BY DEF SameIn
<1>5. CanRollBack'
  BY <1>1, <1>2, <1>3, <1>4 DEF CanRollBack, SoFar
<1> QED BY <1>3, <1>5 DEF AtomicInv, Tidy, EndsCleanly, LeavesActiveFilters

LEMMA NextAtomic ==
  ASSUME IInv, AgreeInv, AtomicInv, [Next]_vars
  PROVE  AtomicInv' /\ EndsCleanly /\ LeavesActiveFilters
<1>1. CASE NextEnumerator \/ SkipType
  <2>1. call # Idle /\ call \in CallRec /\ call.step = "next"
    BY <1>1, InProgress DEF NextEnumerator, SkipType
  <2>2. /\ link' = link /\ active' = active /\ call'.link = call.link
        /\ call'.step = "next" /\ call'.was = call.was
    BY <1>1, <2>1 DEF NextEnumerator, SkipType, CallRec
  <2>3. call' # Idle
    BY <2>2 DEF Idle
  <2>4. CanRollBack'
    BY <2>1, <2>2 DEF AtomicInv, CanRollBack, SoFar
  <2> QED BY <2>2, <2>3, <2>4 DEF AtomicInv, Tidy, EndsCleanly, LeavesActiveFilters
<1>2. ASSUME NEW f \in Filters, ChangeState(f)
      PROVE  AtomicInv' /\ EndsCleanly /\ LeavesActiveFilters
  BY <1>2 DEF ChangeState, AtomicInv, CanRollBack, Tidy, EndsCleanly, LeavesActiveFilters
<1>3. CASE UNCHANGED vars
  <2>1. link' = link /\ active' = active /\ call' = call
    BY <1>3 DEF vars
  <2>2. SoFar' = SoFar
    BY <2>1 DEF SoFar
  <2> QED BY <2>1, <2>2 DEF AtomicInv, CanRollBack, Tidy, EndsCleanly, LeavesActiveFilters
<1> QED BY <1>1, <1>2, <1>3, StartAtomic, ConnectFailsAtomic, AttemptConnectionAtomic,
        ReceiveConnectionAtomic, AllocatorAtomic, DisconnectAtomic
     DEF Next, ConnectStep, ConnectWithType, ConnectMatching

\* A Connect that fails, wherever it does and with whatever attempts, leaves
\* both pins and every reference as it found them; one that succeeds leaves
\* both connected with one type and one allocator; and no call changes what
\* the pin of an active filter is connected to (AttemptConnection and
\* ReceiveConnection with their roll-backs, DecideAllocator, Disconnect).
THEOREM ConnectAlwaysAtomic == Spec => ConnectIsAtomic
<1>1. Init => IInv /\ AgreeInv /\ AtomicInv
  <2>1. Init => IInv
    BY TypesAreKnown, InitHolds
  <2>2. Init => AgreeInv
    BY DEF Init, AgreeInv, LinkAgrees, TransformAgrees, Attempting, Unconnected, Links
  <2>3. Init => AtomicInv
    BY DEF Init, AtomicInv, CanRollBack, Tidy, Unconnected
  <2> QED BY <2>1, <2>2, <2>3
<1>2. IInv /\ AgreeInv /\ AtomicInv /\ [Next]_vars
        => IInv' /\ AgreeInv' /\ AtomicInv' /\ EndsCleanly /\ LeavesActiveFilters
  BY TypesAreKnown, NextKeeps, NextAgrees, NextAtomic
<1>3. AllOrNothing /\ ActiveFiltersKeepConnections => ConnectIsAtomic
  BY DEF ConnectIsAtomic
<1>4. Spec => AllOrNothing /\ ActiveFiltersKeepConnections
  BY <1>1, <1>2, PTL DEF Spec, AllOrNothing, ActiveFiltersKeepConnections
<1> QED BY <1>3, <1>4

(***************************************************************************)
(* RenderedPin                                                             *)
(***************************************************************************)

(* Each call holds the filter lock from its first to its last step.        *)
RunLockInv ==
  /\ lockedBy \in {"nobody", "run", "eos"}
  /\ lockedBy = "run" <=> runPc # "idle"
  /\ lockedBy = "eos" <=> eosPc # "idle"
  /\ runPc \in {"idle", "test", "complete", "set"} /\ eosPc \in {"idle", "asks", "knows"}

(* Whoever comes second, Run or EndOfStream, sees what the first has done. *)
RenderedInv ==
  /\ RunLockInv
  /\ m_bCompleteNotified \in BOOLEAN /\ m_bAtEndOfStream \in BOOLEAN
  /\ completes = IF m_bCompleteNotified THEN 1 ELSE 0
  /\ runPc # "idle" => m_State = "Paused"
  /\ eosPc = "knows" => stateSeen = m_State
  /\ runPc = "complete" => m_bAtEndOfStream
  /\ runPc = "set" /\ m_bAtEndOfStream => m_bCompleteNotified
  /\ m_State = "Running" /\ m_bAtEndOfStream /\ eosPc = "idle" => m_bCompleteNotified

LEMMA RenderedInitially == R!Init => RenderedInv
BY DEF R!Init, RenderedInv, RunLockInv

LEMMA RenderedStepKeepsInv ==
  ASSUME EndOfStreamLocks, RenderedInv, [R!RenderedNext]_pinRunVars
  PROVE  RenderedInv'
<1>1. CASE R!Pause
  BY <1>1 DEF R!Pause, RenderedInv, RunLockInv
<1>2. CASE R!Stop
  BY <1>2 DEF R!Stop, RenderedInv, RunLockInv
<1>3. CASE R!RunPin
  BY <1>3 DEF R!RunPin, RenderedInv, RunLockInv
<1>4. CASE R!RunTests
  BY <1>4 DEF R!RunTests, RenderedInv, RunLockInv
<1>5. CASE R!RunCompletes
  BY <1>5 DEF R!RunCompletes, R!DoCompleteHandling, RenderedInv, RunLockInv
<1>6. CASE R!RunReturns
  BY <1>6 DEF R!RunReturns, RenderedInv, RunLockInv
<1>7. CASE R!EndOfStream
  BY <1>7 DEF R!EndOfStream, RenderedInv, RunLockInv
<1>8. CASE R!EosGetState
  BY <1>8 DEF R!EosGetState, RenderedInv, RunLockInv
<1>9. CASE R!EosReturns
  <2>1. /\ m_State' = m_State /\ m_bAtEndOfStream' = m_bAtEndOfStream /\ runPc' = runPc
        /\ eosPc = "knows" /\ eosPc' = "idle" /\ lockedBy' = "nobody"
    BY <1>9 DEF R!EosReturns
  <2>2. RunLockInv' /\ runPc = "idle"
    BY <2>1 DEF RenderedInv, RunLockInv
  <2>3. CASE stateSeen = "Running"
    <3>1. m_bCompleteNotified' = TRUE /\ completes' = 1
      BY <1>9, <2>3 DEF R!EosReturns, R!DoCompleteHandling, RenderedInv
    <3> QED
      BY <2>1, <2>2, <3>1 DEF RenderedInv
  <2>4. CASE stateSeen # "Running"
    <3>1. m_bCompleteNotified' = m_bCompleteNotified /\ completes' = completes
      BY <1>9, <2>4 DEF R!EosReturns
    <3> QED
      BY <2>1, <2>2, <2>4, <3>1 DEF RenderedInv
  <2> QED
    BY <2>3, <2>4
<1>10. CASE R!BeginFlush
  BY <1>10 DEF R!BeginFlush, RenderedInv, RunLockInv
<1>11. CASE R!EndFlush
  BY <1>11 DEF R!EndFlush, RenderedInv, RunLockInv
<1>12. CASE UNCHANGED pinRunVars
  BY <1>12 DEF pinRunVars, RenderedInv, RunLockInv
<1> QED
  BY <1>1, <1>2, <1>3, <1>4, <1>5, <1>6, <1>7, <1>8, <1>9, <1>10, <1>11, <1>12
  DEF R!RenderedNext

LEMMA RenderedInvImpliesSafety == RenderedInv => R!CompletesOnce
BY DEF RenderedInv, RunLockInv, R!CompletesOnce

(***************************************************************************)
(* FilterLinks                                                             *)
(***************************************************************************)

MaybeClock == Clocks \union {NoClock}

(* Every reference on a clock is the application's, that of a call under   *)
(* way or the filter's.                                                    *)
Counted(c) ==
  clockRefs[c] = (IF c \in ours THEN 1 ELSE 0) + (IF newClock = c THEN 1 ELSE 0)
                 + (IF m_pClock = c /\ setPc # "assign" THEN 1 ELSE 0)

(* SetSyncSource and a StreamTime under way exclude each other.            *)
ClockInv ==
  /\ m_pClock \in MaybeClock /\ newClock \in MaybeClock /\ timeClock \in MaybeClock
  /\ ours \subseteq Clocks /\ clockRefs \in [Clocks -> Int]
  /\ setPc \in {"idle", "release", "assign"} /\ timePc \in {"idle", "ask"}
  /\ setPc # "idle" <=> filterLock = "application"
  /\ timePc = "ask" <=> filterLock = "worker"
  /\ setPc = "idle" => newClock = NoClock
  /\ timeClock # NoClock => timePc = "ask" /\ timeClock = m_pClock
  /\ \A c \in Clocks : Counted(c)

(* A filter that streams is in a graph, and a graph that is told of is     *)
(* there.                                                                  *)
GraphInv ==
  /\ m_pSink => m_pGraph
  /\ m_pGraph => graphThere
  /\ streams \in BOOLEAN /\ (streams => m_pGraph)
  /\ sendPc \in {"idle", "notify"} /\ (sendPc = "notify" => streams)

LinksInv == ClockInv /\ GraphInv

LEMMA LinksInitially == F!Init => LinksInv
<1> SUFFICES ASSUME F!Init PROVE LinksInv
  OBVIOUS
<1>1. clockRefs \in [Clocks -> Int] /\ \A c \in Clocks : clockRefs[c] = 1 /\ c # NoClock
  BY ObjectsAssumption DEF F!Init
<1>2. \A c \in Clocks : Counted(c)
  BY <1>1 DEF F!Init, Counted
<1> QED
  BY <1>1, <1>2 DEF F!Init, LinksInv, ClockInv, GraphInv, MaybeClock

LEMMA RefsCounted ==
  ASSUME clockRefs \in [Clocks -> Int], NEW c \in MaybeClock
  PROVE  /\ F!AddedRef(c) \in [Clocks -> Int] /\ F!ReleasedRef(c) \in [Clocks -> Int]
         /\ \A d \in Clocks : /\ F!AddedRef(c)[d] = clockRefs[d] + (IF c = d THEN 1 ELSE 0)
                              /\ F!ReleasedRef(c)[d] = clockRefs[d] - (IF c = d THEN 1 ELSE 0)
BY ObjectsAssumption DEF F!AddedRef, F!ReleasedRef, MaybeClock

LEMMA SameClocksKeepInv ==
  ASSUME ClockInv, UNCHANGED <<m_pClock, clockRefs, ours, setPc, newClock, timePc, timeClock,
                               filterLock>>
  PROVE  ClockInv'
BY DEF ClockInv, Counted

LEMMA SameGraphKeepsInv ==
  ASSUME GraphInv, UNCHANGED <<m_pGraph, m_pSink, graphThere, streams, sendPc>>
  PROVE  GraphInv'
BY DEF GraphInv

LEMMA ClockStepKeepsInv ==
  ASSUME CallerLocks, ClockInv,
         \/ \E c \in Clocks \cup {NoClock} : F!SetSyncSource(c)
         \/ F!SetReleases \/ F!SetAssigns \/ F!GetSyncSource
         \/ \E c \in Clocks : F!ApplicationReleases(c)
         \/ F!StreamTime \/ F!StreamTimeReturns
  PROVE  ClockInv'
<1> USE ObjectsAssumption
<1>0. clockRefs \in [Clocks -> Int] /\ m_pClock \in MaybeClock
  BY DEF ClockInv
<1>1. ASSUME NEW c \in Clocks \cup {NoClock}, F!SetSyncSource(c) PROVE ClockInv'
  <2>1. /\ clockRefs' = F!AddedRef(c) /\ newClock' = c /\ setPc' = "release"
        /\ setPc = "idle" /\ filterLock = "nobody" /\ filterLock' = "application"
        /\ UNCHANGED <<m_pClock, ours, timePc, timeClock>>
    BY <1>1 DEF F!SetSyncSource
  <2>2. \A d \in Clocks : Counted(d)'
    BY <1>0, <1>1, <2>1, RefsCounted DEF ClockInv, Counted, MaybeClock
  <2> QED
    BY <1>0, <1>1, <2>1, <2>2, RefsCounted DEF ClockInv, MaybeClock
<1>2. CASE F!SetReleases
  <2>1. /\ clockRefs' = F!ReleasedRef(m_pClock) /\ setPc = "release" /\ setPc' = "assign"
        /\ UNCHANGED <<m_pClock, ours, newClock, filterLock, timePc, timeClock>>
    BY <1>2 DEF F!SetReleases
  <2>2. \A d \in Clocks : Counted(d)'
    BY <1>0, <2>1, RefsCounted DEF ClockInv, Counted, MaybeClock
  <2> QED
    BY <1>0, <2>1, <2>2, RefsCounted DEF ClockInv, MaybeClock
<1>3. CASE F!SetAssigns
  <2>1. /\ setPc = "assign" /\ setPc' = "idle" /\ filterLock' = "nobody"
        /\ m_pClock' = newClock /\ newClock' = NoClock
        /\ UNCHANGED <<clockRefs, ours, timePc, timeClock>>
    BY <1>3 DEF F!SetAssigns
  <2>2. \A d \in Clocks : Counted(d)'
    BY <1>0, <2>1 DEF ClockInv, Counted, MaybeClock
  <2> QED
    BY <1>0, <2>1, <2>2 DEF ClockInv, MaybeClock
<1>4. CASE F!GetSyncSource
  <2>1. /\ filterLock = "nobody" /\ m_pClock # NoClock /\ m_pClock \notin ours
        /\ clockRefs' = F!AddedRef(m_pClock) /\ ours' = ours \cup {m_pClock}
        /\ UNCHANGED <<m_pClock, setPc, newClock, filterLock, timePc, timeClock>>
    BY <1>4 DEF F!GetSyncSource
  <2>2. \A d \in Clocks : Counted(d)'
    <3> SUFFICES ASSUME NEW d \in Clocks PROVE Counted(d)'
      OBVIOUS
    <3>1. Counted(d) /\ m_pClock \in Clocks /\ clockRefs \in [Clocks -> Int]
      BY <2>1 DEF ClockInv, MaybeClock
    <3>2. clockRefs' = [clockRefs EXCEPT ![m_pClock] = @ + 1]
      BY <2>1 DEF F!AddedRef
    <3>3. clockRefs'[d] = clockRefs[d] + IF d = m_pClock THEN 1 ELSE 0
      BY <3>1, <3>2
    <3>4. CASE d = m_pClock
      BY <2>1, <3>1, <3>3, <3>4 DEF Counted
    <3>5. CASE d # m_pClock
      BY <2>1, <3>1, <3>3, <3>5 DEF Counted
    <3> QED
      BY <3>4, <3>5
  <2> QED
    BY <1>0, <2>1, <2>2, RefsCounted DEF ClockInv, MaybeClock
<1>5. ASSUME NEW c \in Clocks, F!ApplicationReleases(c) PROVE ClockInv'
  <2>1. /\ setPc = "idle" /\ c \in ours
        /\ ours' = ours \ {c} /\ clockRefs' = F!ReleasedRef(c)
        /\ UNCHANGED <<m_pClock, setPc, newClock, filterLock, timePc, timeClock>>
    BY <1>5 DEF F!ApplicationReleases
  <2>2. c \in MaybeClock
    BY DEF MaybeClock
  <2>3. \A d \in Clocks : Counted(d)'
    BY <1>0, <2>1, <2>2, RefsCounted DEF ClockInv, Counted
  <2> QED
    BY <1>0, <2>1, <2>2, <2>3, RefsCounted DEF ClockInv, MaybeClock
<1>6. CASE F!StreamTime
  BY <1>6 DEF F!StreamTime, ClockInv, Counted
<1>7. CASE F!StreamTimeReturns
  BY <1>7 DEF F!StreamTimeReturns, ClockInv, Counted, MaybeClock
<1> QED
  BY <1>1, <1>2, <1>3, <1>4, <1>5, <1>6, <1>7

LEMMA LinksStepKeepsInv ==
  ASSUME CallerLocks, LinksInv, [F!LinksNext]_linkVars
  PROVE  LinksInv'
<1> DEFINE ClockStep == \/ \E c \in Clocks \cup {NoClock} : F!SetSyncSource(c)
                        \/ F!SetReleases \/ F!SetAssigns \/ F!GetSyncSource
                        \/ \E c \in Clocks : F!ApplicationReleases(c)
                        \/ F!StreamTime \/ F!StreamTimeReturns
           GraphStep == \/ F!JoinFilterGraph \/ F!LeaveFilterGraph \/ F!GraphGoes
                        \/ F!GraphComes \/ F!Streams \/ F!NotifyEvent \/ F!NotifyReturns
<1>1. CASE ClockStep
  <2>1. ClockInv'
    BY <1>1, ClockStepKeepsInv DEF LinksInv
  <2>2. UNCHANGED <<m_pGraph, m_pSink, graphThere, streams, sendPc>>
    BY <1>1
    DEF F!SetSyncSource, F!SetReleases, F!SetAssigns, F!GetSyncSource, F!ApplicationReleases,
        F!StreamTime, F!StreamTimeReturns, F!graphVars
  <2> QED
    BY <2>1, <2>2, SameGraphKeepsInv DEF LinksInv
<1>2. CASE GraphStep
  <2>1. UNCHANGED <<m_pClock, clockRefs, ours, setPc, newClock, timePc, timeClock, filterLock>>
    BY <1>2
    DEF F!JoinFilterGraph, F!LeaveFilterGraph, F!GraphGoes, F!GraphComes, F!Streams,
        F!NotifyEvent, F!NotifyReturns, F!clockVars
  <2>2. GraphInv'
    <3>0. GraphInv
      BY DEF LinksInv
    <3>1. CASE F!JoinFilterGraph
      BY <3>0, <3>1 DEF GraphInv, F!JoinFilterGraph
    <3>2. CASE F!LeaveFilterGraph
      BY <3>0, <3>2 DEF GraphInv, F!LeaveFilterGraph
    <3>3. CASE F!GraphGoes \/ F!GraphComes
      BY <3>0, <3>3 DEF GraphInv, F!GraphGoes, F!GraphComes
    <3>4. CASE F!Streams
      BY <3>0, <3>4 DEF GraphInv, F!Streams
    <3>5. CASE F!NotifyEvent \/ F!NotifyReturns
      BY <3>0, <3>5 DEF GraphInv, F!NotifyEvent, F!NotifyReturns
    <3> QED
      BY <1>2, <3>1, <3>2, <3>3, <3>4, <3>5
  <2> QED
    BY <2>1, <2>2, SameClocksKeepInv DEF LinksInv
<1>3. CASE UNCHANGED linkVars
  BY <1>3, SameClocksKeepInv, SameGraphKeepsInv DEF linkVars, LinksInv
<1> QED
  BY <1>1, <1>2, <1>3 DEF F!LinksNext

LEMMA LinksInvImpliesSafety == LinksInv => F!LinksLive
<1> SUFFICES ASSUME LinksInv PROVE F!LinksLive
  OBVIOUS
<1>1. m_pClock # NoClock /\ setPc # "assign" => clockRefs[m_pClock] > 0
  BY DEF LinksInv, ClockInv, Counted, MaybeClock
<1>2. timeClock # NoClock => clockRefs[timeClock] > 0
  BY <1>1 DEF LinksInv, ClockInv
<1>3. m_pSink \/ sendPc = "notify" => graphThere
  BY DEF LinksInv, GraphInv
<1> QED
  BY <1>1, <1>2, <1>3 DEF F!LinksLive, F!Alive, LinksInv, ClockInv, Counted

(* A rendered input pin tells the graph once, and not never, that it has   *)
(* shown everything, whichever of Run and EndOfStream comes first, when    *)
(* EndOfStream holds the filter lock; and the clock, the graph and the     *)
(* sink a filter refers to are there, when StreamTime is called with the   *)
(* lock its comment asks for.                                              *)
THEOREM RefersAndCompletes ==
  ASSUME CallerLocks, EndOfStreamLocks
  PROVE  ObjectsSpec => []CompletesAndLinks
<1> DEFINE Inv == RenderedInv /\ LinksInv
<1>1. ObjectsInit => Inv
  BY RenderedInitially, LinksInitially DEF ObjectsInit
<1>2. Inv /\ [ObjectsNext]_allVars => Inv'
  <2> SUFFICES ASSUME Inv, [ObjectsNext]_allVars PROVE Inv'
    OBVIOUS
  <2>1. [R!RenderedNext]_pinRunVars /\ [F!LinksNext]_linkVars
    BY DEF ObjectsNext, allVars
  <2> QED
    BY <2>1, RenderedStepKeepsInv, LinksStepKeepsInv
<1>3. Inv => CompletesAndLinks
  BY RenderedInvImpliesSafety, LinksInvImpliesSafety DEF CompletesAndLinks
<1> QED
  BY <1>1, <1>2, <1>3, PTL DEF ObjectsSpec

(***************************************************************************)
(* MediaSample                                                             *)
(***************************************************************************)

SampleProps ==
  [flags : SUBSET M!Flags, start : {"old", "given"}, stop : {"old", "given"}, actual : Nat,
   type : {NoMediaType, MediaType}, specific : {0, 1}, stream : {0, 1}]

SampleInv ==
  /\ props \in SampleProps /\ inUse \in BOOLEAN
  /\ "type" \in props.flags <=> props.type # NoMediaType
  /\ typeBlocks = IF props.type = NoMediaType THEN 0 ELSE 1
  /\ ~inUse => props.flags = {} /\ props.type = NoMediaType

LEMMA SampleInitially == M!Init => SampleInv
<1> SUFFICES ASSUME M!Init PROVE SampleInv
  OBVIOUS
<1>1. /\ props = [flags |-> {}, start |-> "old", stop |-> "old", actual |-> Size,
                  type |-> NoMediaType, specific |-> 0, stream |-> 0]
      /\ inUse = FALSE /\ typeBlocks = 0
  BY DEF M!Init
<1>2. {} \in SUBSET M!Flags /\ Size \in Nat
  BY ObjectsAssumption
<1>3. props \in SampleProps
  BY <1>1, <1>2 DEF SampleProps
<1>4. props.flags = {} /\ props.type = NoMediaType
  BY <1>1
<1> QED
  BY <1>1, <1>3, <1>4 DEF SampleInv

(* A call that says something else of the sample than its type.            *)
LEMMA DescribeKeepsInv ==
  ASSUME SampleInv, inUse, inUse' = inUse, typeBlocks' = typeBlocks,
         props' \in SampleProps, props'.type = props.type,
         "type" \in props'.flags <=> "type" \in props.flags
  PROVE  SampleInv'
BY DEF SampleInv

(* The properties a user may give, and those the sample takes over.        *)
LEMMA AssignedIsSample ==
  ASSUME SampleInv, NEW p \in M!Given, NEW n \in 1 .. M!Field.size, M!Acceptable(p, n)
  PROVE  /\ M!Assigned(p, n) \in SampleProps
         /\ "type" \in M!Assigned(p, n).flags <=> M!Assigned(p, n).type # NoMediaType
         /\ M!Assigned(p, n).type =
              IF n >= M!Field.type /\ "type" \in p.flags THEN p.type ELSE props.type
         /\ n >= M!Field.type /\ "type" \in p.flags => p.type # NoMediaType
<1> DEFINE q == M!Assigned(p, n)
           type == IF n >= M!Field.type /\ "type" \in p.flags THEN p.type ELSE props.type
           flags == IF n >= M!Field.flags THEN p.flags \cup (props.flags \cap {"media"})
                                          ELSE props.flags
           all == IF type # NoMediaType THEN flags \cup {"type"} ELSE flags \ {"type"}
           specific == IF n >= M!Field.specific THEN p.specific ELSE props.specific
           actual == IF n >= M!Field.actual THEN p.actual ELSE props.actual
           start == IF n >= M!Field.start THEN p.start ELSE props.start
           stop == IF n >= M!Field.stop THEN p.stop ELSE props.stop
           stream == IF n >= M!Field.stream THEN p.stream ELSE props.stream
<1>1. q = [flags |-> all, type |-> type, specific |-> specific, actual |-> actual,
           start |-> start, stop |-> stop, stream |-> stream]
  BY DEF M!Assigned
<1>2. props \in SampleProps
  BY DEF SampleInv
<1>3. /\ p.specific = 1 /\ p.flags \subseteq M!Flags /\ p.actual \in {0, Size + 1}
      /\ p.start = "given" /\ p.stop = "given" /\ p.stream = 1
      /\ p.type \in {NoMediaType, MediaType}
  BY DEF M!Given
<1>4. specific \in {0, 1} /\ stream \in {0, 1} /\ type \in {NoMediaType, MediaType}
  BY <1>2, <1>3 DEF SampleProps
<1>5. start \in {"old", "given"} /\ stop \in {"old", "given"}
  BY <1>2, <1>3 DEF SampleProps
<1>6. actual \in Nat
  <2>1. Size + 1 \in Nat
    BY ObjectsAssumption
  <2> QED
    BY <1>2, <1>3, <2>1 DEF SampleProps
<1>7. all \subseteq M!Flags /\ ("type" \in all <=> type # NoMediaType)
  <2>1. flags \subseteq M!Flags
    BY <1>2, <1>3 DEF SampleProps
  <2>2. "type" \in M!Flags
    BY DEF M!Flags
  <2> HIDE DEF flags, type
  <2> QED
    BY <2>1, <2>2
<1>8. n >= M!Field.type /\ "type" \in p.flags => p.type # NoMediaType
  BY DEF M!Acceptable
<1> HIDE DEF all, type, specific, actual, start, stop, stream
<1>9. q \in SampleProps /\ q.flags = all /\ q.type = type
  BY <1>1, <1>4, <1>5, <1>6, <1>7 DEF SampleProps
<1> QED
  BY <1>7, <1>8, <1>9 DEF type

LEMMA SampleStepKeepsInv ==
  ASSUME SampleInv, [M!SampleNext]_sampleVars
  PROVE  SampleInv'
<1>0. props \in SampleProps /\ props.flags \subseteq M!Flags
  BY DEF SampleInv, SampleProps
<1>1. CASE M!Get
  <2>1. props' = [props EXCEPT !.start = "old", !.stop = "old"] /\ inUse' = TRUE /\ ~inUse
        /\ typeBlocks' = typeBlocks
    BY <1>1 DEF M!Get
  <2>2. props' \in SampleProps /\ props'.type = props.type /\ props'.flags = props.flags
    BY <1>0, <2>1 DEF SampleProps
  <2> QED
    BY <2>1, <2>2 DEF SampleInv
<1>2. CASE M!Release
  <2> DEFINE dropped == "type" \in props.flags
             type == IF dropped THEN NoMediaType ELSE props.type
  <2>1. /\ inUse /\ inUse' = FALSE
        /\ props' = [props EXCEPT !.flags = {}, !.specific = 0, !.stream = 0, !.type = type]
        /\ typeBlocks' = typeBlocks - (IF dropped /\ props.type # NoMediaType THEN 1 ELSE 0)
    BY <1>2 DEF M!Release
  <2>2. type = NoMediaType
    BY DEF SampleInv
  <2>3. props' \in SampleProps /\ props'.type = NoMediaType /\ props'.flags = {}
    BY <1>0, <2>1, <2>2 DEF SampleProps
  <2>4. typeBlocks' = 0
    BY <2>1 DEF SampleInv
  <2> QED
    BY <2>1, <2>3, <2>4 DEF SampleInv
<1>3. ASSUME NEW on \in BOOLEAN, M!SetMark(on) \/ M!SetMediaTime(on) PROVE SampleInv'
  <2>1. PICK mark \in {"mark", "media"} :
          /\ inUse /\ inUse' = inUse /\ typeBlocks' = typeBlocks
          /\ props' = [props EXCEPT !.flags = M!With(mark, on)]
    BY <1>3 DEF M!SetMark, M!SetMediaTime, M!Set
  <2>2. /\ M!With(mark, on) \subseteq M!Flags
        /\ "type" \in M!With(mark, on) <=> "type" \in props.flags
    BY <1>0 DEF M!With, M!Flags
  <2>3. props' \in SampleProps /\ props'.type = props.type /\ props'.flags = M!With(mark, on)
    BY <1>0, <2>1, <2>2 DEF SampleProps
  <2> QED
    BY <2>1, <2>2, <2>3, DescribeKeepsInv
<1>4. CASE M!SetNoTime
  <2>1. /\ inUse /\ inUse' = inUse /\ typeBlocks' = typeBlocks
        /\ props' = [props EXCEPT !.flags = props.flags \ {"time", "stop"}]
    BY <1>4 DEF M!SetNoTime, M!Set
  <2>2. /\ props' \in SampleProps /\ props'.type = props.type
        /\ props'.flags = props.flags \ {"time", "stop"}
    BY <1>0, <2>1 DEF SampleProps
  <2> QED
    BY <2>1, <2>2, DescribeKeepsInv
<1>5. CASE M!SetStart
  <2> DEFINE f == (props.flags \cup {"time"}) \ {"stop"}
  <2>1. /\ inUse /\ inUse' = inUse /\ typeBlocks' = typeBlocks
        /\ props' = [props EXCEPT !.flags = f, !.start = "given"]
    BY <1>5 DEF M!SetStart, M!Set
  <2>2. f \subseteq M!Flags
    BY <1>0 DEF M!Flags
  <2>3. props' \in SampleProps /\ props'.type = props.type /\ props'.flags = f
    BY <1>0, <2>1, <2>2 DEF SampleProps
  <2> QED
    BY <2>1, <2>3, DescribeKeepsInv
<1>6. CASE M!SetTimes
  <2> DEFINE f == props.flags \cup {"time", "stop"}
  <2>1. /\ inUse /\ inUse' = inUse /\ typeBlocks' = typeBlocks
        /\ props' = [props EXCEPT !.flags = f, !.start = "given", !.stop = "given"]
    BY <1>6 DEF M!SetTimes, M!Set
  <2>2. f \subseteq M!Flags
    BY <1>0 DEF M!Flags
  <2>3. props' \in SampleProps /\ props'.type = props.type /\ props'.flags = f
    BY <1>0, <2>1, <2>2 DEF SampleProps
  <2> QED
    BY <2>1, <2>3, DescribeKeepsInv
<1>7. ASSUME NEW n \in {0, Size}, M!SetActualDataLength(n) PROVE SampleInv'
  <2>1. /\ inUse /\ inUse' = inUse /\ typeBlocks' = typeBlocks
        /\ props' = [props EXCEPT !.actual = n] /\ n \in Nat
    BY <1>7, ObjectsAssumption DEF M!SetActualDataLength, M!Set
  <2>2. props' \in SampleProps /\ props'.type = props.type /\ props'.flags = props.flags
    BY <1>0, <2>1 DEF SampleProps
  <2> QED
    BY <2>1, <2>2, DescribeKeepsInv
<1>8. ASSUME NEW type \in {NoMediaType, MediaType}, M!SetMediaType(type) PROVE SampleInv'
  <2>1. PICK new \in {type, NoMediaType} :
          /\ inUse /\ inUse' = inUse
          /\ props' = [props EXCEPT !.type = new, !.flags = M!With("type", new # NoMediaType)]
          /\ typeBlocks' = (typeBlocks - (IF props.type = NoMediaType THEN 0 ELSE 1))
                           + (IF new = NoMediaType THEN 0 ELSE 1)
    BY <1>8 DEF M!SetMediaType
  <2>2. /\ M!With("type", new # NoMediaType) \subseteq M!Flags
        /\ "type" \in M!With("type", new # NoMediaType) <=> new # NoMediaType
    BY <1>0 DEF M!With, M!Flags
  <2>3. /\ props' \in SampleProps /\ props'.type = new
        /\ props'.flags = M!With("type", new # NoMediaType)
    BY <1>0, <2>1, <2>2 DEF SampleProps
  <2>4. typeBlocks' = IF new = NoMediaType THEN 0 ELSE 1
    BY <2>1 DEF SampleInv
  <2> QED
    BY <2>1, <2>2, <2>3, <2>4 DEF SampleInv
<1>9. ASSUME NEW p \in M!Given, NEW n \in 1 .. M!Field.size, M!SetProperties(p, n) PROVE SampleInv'
  <2> DEFINE copied == n >= M!Field.type /\ "type" \in p.flags
  <2>1. /\ inUse /\ inUse' = inUse /\ M!Acceptable(p, n) /\ props' = M!Assigned(p, n)
        /\ typeBlocks' = IF copied /\ props.type = NoMediaType THEN typeBlocks + 1 ELSE typeBlocks
    BY <1>9 DEF M!SetProperties
  <2>2. /\ props' \in SampleProps /\ ("type" \in props'.flags <=> props'.type # NoMediaType)
        /\ props'.type = IF copied THEN p.type ELSE props.type
        /\ copied => p.type # NoMediaType
    BY <2>1, AssignedIsSample
  <2>3. typeBlocks' = IF props'.type = NoMediaType THEN 0 ELSE 1
    BY <2>1, <2>2 DEF SampleInv
  <2> QED
    BY <2>1, <2>2, <2>3 DEF SampleInv
<1>10. CASE UNCHANGED sampleVars
  BY <1>10 DEF sampleVars, SampleInv
<1> QED
  BY <1>1, <1>2, <1>3, <1>4, <1>5, <1>6, <1>7, <1>8, <1>9, <1>10 DEF M!SampleNext

LEMMA SampleInvImpliesSafety == SampleInv => M!SampleSafety
<1> SUFFICES ASSUME SampleInv, NEW n \in 1 .. M!Field.size
             PROVE  M!Assigned(M!GetProperties, n) = props
  BY DEF SampleInv, M!SampleSafety
<1> DEFINE g == M!GetProperties
<1>1. props \in SampleProps /\ ("type" \in props.flags <=> props.type # NoMediaType)
  BY DEF SampleInv
<1>2. /\ g.specific = props.specific /\ g.flags = props.flags \ {"media"}
      /\ g.actual = props.actual /\ g.start = props.start /\ g.stop = props.stop
      /\ g.stream = props.stream
      /\ g.type = IF "type" \in props.flags THEN props.type ELSE NoMediaType
  BY DEF M!GetProperties
<1> HIDE DEF g
<1>3. (IF n >= M!Field.type /\ "type" \in g.flags THEN g.type ELSE props.type) = props.type
  BY <1>1, <1>2
<1>4. (IF n >= M!Field.flags THEN g.flags \cup (props.flags \cap {"media"}) ELSE props.flags)
        = props.flags
  BY <1>2
<1>5. (IF props.type # NoMediaType THEN props.flags \cup {"type"} ELSE props.flags \ {"type"})
        = props.flags
  BY <1>1
<1>6. M!Assigned(g, n) = [flags |-> props.flags, type |-> props.type,
                          specific |-> props.specific, actual |-> props.actual,
                          start |-> props.start, stop |-> props.stop, stream |-> props.stream]
  BY <1>2, <1>3, <1>4, <1>5 DEF M!Assigned
<1> QED
  BY <1>1, <1>6 DEF g, SampleProps

(***************************************************************************)
(* TypeEnum                                                                *)
(***************************************************************************)

(* The pin's types are those the enumerator knows of.                      *)
TypesKnown == version = m_TypeVersion /\ ~typesChanged

(* Nothing before the position was left out, as long as they are.          *)
PassedOver ==
  \A n \in Nat : n < position /\ n < Len(offered) =>
    n \in passed \cup failed \/ <<n, offered[n + 1]>> \in handed

(* What was handed out is still offered, in its place.                     *)
HandedFit == \A h \in handed : h[1] < Len(offered) /\ offered[h[1] + 1] = h[2]

TypesInv ==
  /\ offered \in Seq(TypeList)
  /\ m_TypeVersion \in Nat /\ version \in Nat /\ version <= m_TypeVersion
  /\ position \in Nat /\ passed \cup failed \subseteq Nat
  /\ TypesKnown => HandedFit /\ PassedOver

LEMMA OffersAreLists == T!Offers \subseteq Seq(TypeList)
<1> SUFFICES ASSUME NEW n \in 0 .. 2, NEW f \in [1 .. n -> TypeList] PROVE f \in Seq(TypeList)
  BY DEF T!Offers
<1> QED
  OBVIOUS

LEMMA TypesInitially == T!Init => TypesInv
<1> SUFFICES ASSUME T!Init PROVE TypesInv
  OBVIOUS
<1>1. offered \in Seq(TypeList)
  BY OffersAreLists DEF T!Init
<1>2. /\ m_TypeVersion = 1 /\ typesChanged = FALSE /\ version = 1 /\ position = 0
      /\ handed = {} /\ passed = {} /\ failed = {}
  BY DEF T!Init
<1>3. PassedOver /\ HandedFit
  BY <1>2 DEF PassedOver, HandedFit
<1> QED
  BY <1>1, <1>2, <1>3 DEF TypesInv

LEMMA TypesStepKeepsInv ==
  ASSUME TypesInv, [T!TypeEnumNext]_typeEnumVars
  PROVE  TypesInv'
<1>1. ASSUME NEW new \in T!Offers, T!ChangeTypes(new) PROVE TypesInv'
  BY <1>1, OffersAreLists DEF T!ChangeTypes, TypesInv, TypesKnown
<1>2. CASE T!IncrementTypeVersion
  <2>1. /\ typesChanged' = FALSE /\ m_TypeVersion' = m_TypeVersion + 1
        /\ UNCHANGED <<offered, version, position, handed, passed, failed>>
    BY <1>2 DEF T!IncrementTypeVersion
  <2>2. version' # m_TypeVersion'
    BY <2>1 DEF TypesInv
  <2> QED
    BY <2>1, <2>2 DEF TypesInv, TypesKnown
<1>3. ASSUME NEW n \in 1 .. 2, T!NextTypes(n) PROVE TypesInv'
  BY <1>3 DEF T!NextTypes, T!pinTypeVars, TypesInv, TypesKnown, PassedOver, HandedFit
<1>4. ASSUME NEW n \in 1 .. 2, T!SkipTypes(n) PROVE TypesInv'
  <2>1. /\ position' = position + n
        /\ passed' = passed \cup (position .. position + n - 1)
        /\ UNCHANGED <<offered, m_TypeVersion, typesChanged, version, typePc, left, handed,
                       failed>>
    BY <1>4 DEF T!SkipTypes, T!pinTypeVars
  <2>2. position' \in Nat /\ passed' \cup failed' \subseteq Nat
    BY <2>1 DEF TypesInv
  <2>3. ASSUME PassedOver PROVE PassedOver'
    <3> SUFFICES ASSUME NEW m \in Nat, m < position', m < Len(offered)
                 PROVE  m \in passed' \cup failed \/ <<m, offered[m + 1]>> \in handed
      BY <2>1 DEF PassedOver
    <3>1. CASE m < position
      BY <2>1, <2>3, <3>1 DEF PassedOver
    <3>2. CASE ~(m < position)
      <4>1. m \in position .. position + n - 1
        BY <2>1, <3>2 DEF TypesInv
      <4> QED
        BY <2>1, <4>1
    <3> QED
      BY <3>1, <3>2
  <2> QED
    BY <2>1, <2>2, <2>3 DEF TypesInv, TypesKnown, HandedFit
<1>5. CASE T!HandOut
  <2>0. PICK memory \in BOOLEAN :
          LET ok == T!Has(position) /\ memory
          IN  /\ failed' = IF T!Has(position) /\ ~memory THEN failed \cup {position} ELSE failed
              /\ handed' = IF ok THEN handed \cup {<<position, offered[position + 1]>>} ELSE handed
              /\ left' = IF ok THEN left - 1 ELSE 0
    BY <1>5 DEF T!HandOut
  <2> DEFINE ok == position < Len(offered) /\ memory
  <2>1. /\ position' = position + 1
        /\ failed' = IF position < Len(offered) /\ ~memory THEN failed \cup {position} ELSE failed
        /\ handed' = IF ok THEN handed \cup {<<position, offered[position + 1]>>} ELSE handed
        /\ left' = IF ok THEN left - 1 ELSE 0
        /\ typePc = "next"
        /\ UNCHANGED <<offered, m_TypeVersion, typesChanged, version, passed>>
    BY <1>5, <2>0 DEF T!HandOut, T!Has, T!pinTypeVars
  <2>2. failed' \subseteq Nat /\ position' \in Nat /\ Len(offered) \in Nat /\ position \in Nat
    BY <2>1 DEF TypesInv
  <2>3. ASSUME TypesKnown
        PROVE  HandedFit' /\ PassedOver'
    <3>1. HandedFit /\ PassedOver
      BY <2>3 DEF TypesInv
    <3>2. ASSUME NEW h \in handed' PROVE h[1] < Len(offered) /\ offered[h[1] + 1] = h[2]
      <4>1. CASE h \in handed
        BY <3>1, <4>1 DEF HandedFit
      <4>2. CASE h \notin handed
        <5>1. ok /\ h = <<position, offered[position + 1]>>
          BY <2>1, <4>2
        <5> QED
          BY <5>1
      <4> QED
        BY <4>1, <4>2
    <3>3. ASSUME NEW m \in Nat, m < position', m < Len(offered)
          PROVE  m \in passed \cup failed' \/ <<m, offered[m + 1]>> \in handed'
      <4>1. CASE m < position
        BY <2>1, <3>1, <3>3, <4>1 DEF PassedOver
      <4>2. CASE ~(m < position)
        <5>1. m = position
          BY <2>1, <2>2, <3>3, <4>2
        <5> QED
          BY <2>1, <3>3, <5>1
      <4> QED
        BY <4>1, <4>2
    <3> QED
      BY <2>1, <3>2, <3>3 DEF PassedOver, HandedFit
  <2> QED
    BY <2>1, <2>2, <2>3 DEF TypesInv, TypesKnown
<1>6. CASE T!ResetTypes
  BY <1>6 DEF T!ResetTypes, T!pinTypeVars, TypesInv, TypesKnown, PassedOver, HandedFit
<1>7. CASE UNCHANGED typeEnumVars
  BY <1>7 DEF typeEnumVars, TypesInv, TypesKnown, PassedOver, HandedFit
<1> QED
  BY <1>1, <1>2, <1>3, <1>4, <1>5, <1>6, <1>7 DEF T!TypeEnumNext

LEMMA TypesInvImpliesSafety == TypesInv => T!TypesInStep
<1> SUFFICES ASSUME TypesInv, version = m_TypeVersion, ~typesChanged
    PROVE /\ \A h \in handed : h[1] < Len(offered) /\ offered[h[1] + 1] = h[2]
          /\ \A n \in 0 .. position - 1 :
                n < Len(offered) => n \in passed \cup failed \/ <<n, offered[n + 1]>> \in handed
  BY DEF T!TypesInStep, T!Has, T!OutOfSync
<1>1. HandedFit /\ PassedOver /\ position \in Nat
  BY DEF TypesInv, TypesKnown
<1> QED
  BY <1>1 DEF PassedOver, HandedFit

(***************************************************************************)
(* PinEnum                                                                 *)
(***************************************************************************)

(* The filter's list is the one the enumerator has read.                   *)
PinsKnown(e) ==
  /\ enumPc[e] \in {"idle", "next", "failed"}
  /\ m_Version[e] = m_PinVersion /\ ~unannounced /\ ~unseen[e]

(* What the calls have got, this one's included.                           *)
Got(e) == given[e] \o fetched[e]

(* Everything before the position was got or skipped.                      *)
ComeBy(e) ==
  \A n \in Nat : n < m_Position[e] /\ n < Len(pins) =>
    pins[n + 1] \in m_PinCache[e] \cup skipped[e]

(* The cache holds what was got, and else only what a failing Next lost.   *)
CacheIsGot(e) ==
  /\ \A i \in 1 .. Len(Got(e)) : Got(e)[i] \in m_PinCache[e]
  /\ \A p \in m_PinCache[e] : p \in lost[e] \/ \E i \in 1 .. Len(Got(e)) : Got(e)[i] = p

GotOnce(e) == \A i, j \in 1 .. Len(Got(e)) : Got(e)[i] = Got(e)[j] => i = j

EnumGood(e) ==
  /\ m_Version[e] <= m_PinVersion
  /\ CacheIsGot(e) /\ GotOnce(e)
  /\ enumPc[e] \notin {"next", "failed"} => fetched[e] = <<>>
  /\ PinsKnown(e) => m_PinCount[e] = Len(pins) /\ ComeBy(e)

PinsTyped ==
  /\ pins \in Seq(Pins) /\ m_PinVersion \in Nat
  /\ m_Version \in [Enums -> Nat] /\ m_PinCount \in [Enums -> Nat]
  /\ m_Position \in [Enums -> Nat] /\ m_PinCache \in [Enums -> SUBSET Pins]
  /\ enumPc \in [Enums -> E!Pcs] /\ given \in [Enums -> Seq(Pins)]
  /\ skipped \in [Enums -> SUBSET (Pins \cup {NoPin})] /\ fetched \in [Enums -> Seq(Pins)]
  /\ lost \in [Enums -> SUBSET Pins] /\ unseen \in [Enums -> BOOLEAN]

PinsInv == PinsTyped /\ \A e \in Enums : EnumGood(e)

-----------------------------------------------------------------------------
LEMMA ListOfPins == E!SetToSeq(Pins) \in Seq(Pins)
<1>1. Cardinality(Pins) \in Nat /\ ExistsBijection(1 .. Cardinality(Pins), Pins)
  BY ObjectsAssumption, FS_CardinalityType
<1>2. PICK f \in [1 .. Cardinality(Pins) -> Pins] : IsInjective(f)
  BY <1>1 DEF ExistsBijection, Bijection, Injection
<1>3. E!IsInjective(f)
  BY <1>2 DEF IsInjective, E!IsInjective
<1>4. E!Cardinality(Pins) = Cardinality(Pins)
  BY DEF E!Cardinality, Cardinality
<1>5. E!SetToSeq(Pins) \in [1 .. Cardinality(Pins) -> Pins]
  BY <1>2, <1>3, <1>4 DEF E!SetToSeq
<1> QED
  BY <1>1, <1>5

LEMMA WithoutOne ==
  ASSUME NEW S, NEW l \in Seq(S), NEW k \in 1 .. Len(l)
  PROVE  E!RemoveAt(l, k) \in Seq(S)
<1>1. SubSeq(l, 1, k - 1) \in Seq(S) /\ SubSeq(l, k + 1, Len(l)) \in Seq(S)
  BY SubSeqProperties
<1> QED
  BY <1>1, ConcatProperties DEF E!RemoveAt

LEMMA PinsInitially == E!Init => PinsInv
<1> SUFFICES ASSUME E!Init PROVE PinsInv
  OBVIOUS
<1>1. PinsTyped
  BY ListOfPins DEF E!Init, PinsTyped, E!Pcs
<1>2. ASSUME NEW e \in Enums PROVE EnumGood(e)
  <2>1. /\ m_PinVersion = 1 /\ m_Version[e] = 0 /\ m_PinCache[e] = {} /\ given[e] = <<>>
        /\ fetched[e] = <<>> /\ enumPc[e] = "none"
    BY DEF E!Init
  <2> QED
    BY <2>1 DEF EnumGood, CacheIsGot, GotOnce, Got, PinsKnown
<1> QED
  BY <1>1, <1>2 DEF PinsInv

(* What was got stays got, and known, while nobody gets or forgets a pin.  *)
LEMMA GotStays ==
  ASSUME NEW e \in Enums, CacheIsGot(e), GotOnce(e), m_PinCache'[e] = m_PinCache[e],
         given'[e] = given[e], fetched'[e] = fetched[e], lost'[e] = lost[e]
  PROVE  CacheIsGot(e)' /\ GotOnce(e)'
<1>1. Got(e)' = Got(e)
  BY DEF Got
<1> QED
  BY <1>1 DEF CacheIsGot, GotOnce

(* An enumerator that takes no part in a step.                             *)
LEMMA OtherEnumStaysGood ==
  ASSUME NEW e \in Enums, EnumGood(e), pins' = pins, m_PinVersion' = m_PinVersion,
         unannounced' = unannounced, m_Version'[e] = m_Version[e],
         m_PinCount'[e] = m_PinCount[e], m_Position'[e] = m_Position[e],
         m_PinCache'[e] = m_PinCache[e], enumPc'[e] = enumPc[e], given'[e] = given[e],
         skipped'[e] = skipped[e], fetched'[e] = fetched[e], lost'[e] = lost[e],
         unseen'[e] = unseen[e]
  PROVE  EnumGood(e)'
<1>1. CacheIsGot(e)' /\ GotOnce(e)'
  BY GotStays DEF EnumGood
<1> QED
  BY <1>1 DEF EnumGood, PinsKnown, ComeBy

(* An enumerator that only goes on to something else.                      *)
LEMMA EnumGoesOn ==
  ASSUME PinsInv, NEW e \in Enums, NEW pcOf \in E!Pcs, E!Goes(e, pcOf),
         UNCHANGED <<pins, m_PinVersion, unannounced, m_Version, m_PinCount, m_Position,
                     m_PinCache, given, skipped, fetched, lost, unseen>>,
         fetched[e] = <<>>,
         pcOf \in {"idle", "next", "failed"} => enumPc[e] \in {"idle", "next", "failed"}
  PROVE  PinsInv'
<1>1. enumPc' = [enumPc EXCEPT ![e] = pcOf] /\ PinsTyped
  BY DEF E!Goes, PinsInv
<1>2. PinsTyped'
  BY <1>1 DEF PinsTyped
<1>3. ASSUME NEW d \in Enums PROVE EnumGood(d)'
  <2>1. EnumGood(d) /\ enumPc'[d] = IF d = e THEN pcOf ELSE enumPc[d]
    BY <1>1 DEF PinsInv, PinsTyped
  <2>2. PinsKnown(d)' => PinsKnown(d)
    BY <2>1 DEF PinsKnown
  <2> QED
    BY <2>1, <2>2 DEF EnumGood, CacheIsGot, GotOnce, Got, ComeBy
<1> QED
  BY <1>2, <1>3 DEF PinsInv

(* The filter changes its list: whoever knew it does not know it any more. *)
LEMMA ListChangeKeepsInv ==
  ASSUME PinsInv, NEW new \in Seq(Pins), E!Change(new)
  PROVE  PinsInv'
<1>1. /\ pins' = new /\ m_PinVersion' = m_PinVersion
      /\ \/ unannounced' = TRUE /\ unseen' = unseen
         \/ unseen' = [d \in Enums |-> TRUE]
      /\ enumPc' = enumPc /\ m_Version' = m_Version /\ m_PinCount' = m_PinCount
      /\ m_Position' = m_Position /\ m_PinCache' = m_PinCache /\ given' = given
      /\ skipped' = skipped /\ fetched' = fetched /\ lost' = lost
  BY DEF E!Change, E!callVars
<1>2. PinsTyped'
  BY <1>1 DEF PinsInv, PinsTyped
<1>3. ASSUME NEW d \in Enums PROVE EnumGood(d)'
  <2>1. EnumGood(d) /\ ~PinsKnown(d)'
    BY <1>1 DEF PinsInv, PinsKnown
  <2> QED
    BY <1>1, <2>1 DEF EnumGood, CacheIsGot, GotOnce, Got
<1> QED
  BY <1>2, <1>3 DEF PinsInv

LEMMA IncrementKeepsInv ==
  ASSUME PinsInv, E!IncrementPinVersion
  PROVE  PinsInv'
<1>1. /\ m_PinVersion' = m_PinVersion + 1 /\ pins' = pins
      /\ enumPc' = enumPc /\ m_Version' = m_Version /\ m_PinCount' = m_PinCount
      /\ m_Position' = m_Position /\ m_PinCache' = m_PinCache /\ given' = given
      /\ skipped' = skipped /\ fetched' = fetched /\ lost' = lost /\ unseen' = unseen
  BY DEF E!IncrementPinVersion, E!callVars, E!enumVars
<1>2. PinsTyped'
  BY <1>1 DEF PinsInv, PinsTyped
<1>3. ASSUME NEW d \in Enums PROVE EnumGood(d)'
  <2>1. /\ EnumGood(d) /\ m_Version[d] \in Nat /\ m_PinVersion \in Nat
        /\ m_Version[d] <= m_PinVersion
    BY DEF PinsInv, PinsTyped, EnumGood
  <2>2. m_Version'[d] <= m_PinVersion' /\ m_Version'[d] # m_PinVersion'
    BY <1>1, <2>1
  <2>3. ~PinsKnown(d)'
    BY <2>2 DEF PinsKnown
  <2> QED
    BY <1>1, <2>1, <2>2, <2>3 DEF EnumGood, CacheIsGot, GotOnce, Got
<1> QED
  BY <1>2, <1>3 DEF PinsInv

LEMMA CloneKeepsInv ==
  ASSUME PinsInv, NEW e \in Enums, NEW d \in Enums, E!Clone(e, d)
  PROVE  PinsInv'
<1>1. /\ m_Version' = [m_Version EXCEPT ![e] = m_Version[d]]
      /\ m_PinCount' = [m_PinCount EXCEPT ![e] = m_PinCount[d]]
      /\ m_Position' = [m_Position EXCEPT ![e] = m_Position[d]]
      /\ m_PinCache' = [m_PinCache EXCEPT ![e] = m_PinCache[d]]
      /\ given' = [given EXCEPT ![e] = given[d]]
      /\ skipped' = [skipped EXCEPT ![e] = skipped[d]]
      /\ lost' = [lost EXCEPT ![e] = lost[d]] /\ unseen' = [unseen EXCEPT ![e] = unseen[d]]
      /\ enumPc[e] = "none" /\ fetched' = fetched
      /\ enumPc' = [enumPc EXCEPT ![e] = "idle"] /\ enumPc[d] = "idle"
      /\ pins' = pins /\ m_PinVersion' = m_PinVersion /\ unannounced' = unannounced
  BY DEF E!Clone, E!Goes, E!filterPinVars
<1>2. PinsTyped
  BY DEF PinsInv
<1>3. PinsTyped'
  BY <1>1, <1>2 DEF PinsTyped, E!Pcs
<1>4. ASSUME NEW c \in Enums PROVE EnumGood(c)'
  <2>1. CASE c # e
    <3>1. EnumGood(c)
      BY DEF PinsInv
    <3>2. /\ m_Version'[c] = m_Version[c] /\ m_PinCount'[c] = m_PinCount[c]
          /\ m_Position'[c] = m_Position[c] /\ m_PinCache'[c] = m_PinCache[c]
          /\ enumPc'[c] = enumPc[c] /\ given'[c] = given[c] /\ skipped'[c] = skipped[c]
          /\ lost'[c] = lost[c] /\ unseen'[c] = unseen[c] /\ fetched'[c] = fetched[c]
      BY <1>1, <1>2, <2>1 DEF PinsTyped
    <3> QED
      BY <1>1, <3>1, <3>2, OtherEnumStaysGood
  <2>2. CASE c = e
    <3>1. EnumGood(d) /\ EnumGood(c)
      BY DEF PinsInv
    <3>2. /\ m_Version'[c] = m_Version[d] /\ m_PinCount'[c] = m_PinCount[d]
          /\ m_Position'[c] = m_Position[d] /\ m_PinCache'[c] = m_PinCache[d]
          /\ enumPc'[c] = enumPc[d] /\ given'[c] = given[d] /\ skipped'[c] = skipped[d]
          /\ lost'[c] = lost[d] /\ unseen'[c] = unseen[d] /\ fetched'[c] = fetched[c]
      BY <1>1, <1>2, <2>2 DEF PinsTyped
    <3>3. fetched[c] = <<>> /\ fetched[d] = <<>>
      BY <1>1, <2>2, <3>1 DEF EnumGood
    <3> QED
      BY <1>1, <3>1, <3>2, <3>3 DEF EnumGood, CacheIsGot, GotOnce, Got, PinsKnown, ComeBy
  <2> QED
    BY <2>1, <2>2
<1> QED
  BY <1>3, <1>4 DEF PinsInv

LEMMA ReadVersionKeepsInv ==
  ASSUME PinsInv, NEW e \in Enums, E!ReadVersion(e)
  PROVE  PinsInv'
<1>1. /\ m_Version' = [m_Version EXCEPT ![e] = m_PinVersion]
      /\ enumPc' = [enumPc EXCEPT ![e] = "count"]
      /\ pins' = pins /\ m_PinVersion' = m_PinVersion /\ unannounced' = unannounced
      /\ m_PinCount' = m_PinCount /\ m_Position' = m_Position /\ m_PinCache' = m_PinCache
      /\ given' = given /\ skipped' = skipped /\ fetched' = fetched /\ lost' = lost
      /\ unseen' = unseen /\ enumPc[e] = "version"
  BY DEF E!ReadVersion, E!Goes, E!filterPinVars
<1>2. PinsTyped
  BY DEF PinsInv
<1>3. PinsTyped'
  BY <1>1, <1>2 DEF PinsTyped, E!Pcs
<1>4. ASSUME NEW c \in Enums PROVE EnumGood(c)'
  <2>0. EnumGood(c)
    BY DEF PinsInv
  <2>1. CASE c # e
    <3>1. m_Version'[c] = m_Version[c] /\ enumPc'[c] = enumPc[c]
      BY <1>1, <1>2, <2>1 DEF PinsTyped
    <3> QED
      BY <1>1, <2>0, <3>1, OtherEnumStaysGood
  <2>2. CASE c = e
    <3>1. m_Version'[c] = m_PinVersion /\ enumPc'[c] = "count" /\ m_PinVersion \in Nat
      BY <1>1, <1>2, <2>2 DEF PinsTyped
    <3>2. CacheIsGot(c)' /\ GotOnce(c)'
      BY <1>1, <2>0, GotStays DEF EnumGood
    <3> QED
      BY <1>1, <2>0, <3>1, <3>2 DEF EnumGood, PinsKnown
  <2> QED
    BY <2>1, <2>2
<1> QED
  BY <1>3, <1>4 DEF PinsInv

LEMMA ReadCountKeepsInv ==
  ASSUME PinsInv, NEW e \in Enums, E!ReadCount(e)
  PROVE  PinsInv'
<1>1. PICK pcOf \in {"next", "idle"} :
      /\ m_PinCount' = [m_PinCount EXCEPT ![e] = Len(pins)]
      /\ m_Position' = [m_Position EXCEPT ![e] = 0]
      /\ enumPc' = [enumPc EXCEPT ![e] = pcOf]
      /\ pins' = pins /\ m_PinVersion' = m_PinVersion /\ unannounced' = unannounced
      /\ m_Version' = m_Version /\ m_PinCache' = m_PinCache
      /\ given' = given /\ skipped' = skipped /\ fetched' = fetched /\ lost' = lost
      /\ unseen' = [unseen EXCEPT ![e] = FALSE] /\ enumPc[e] = "count"
  BY DEF E!ReadCount, E!Goes, E!filterPinVars
<1>2. PinsTyped /\ Len(pins) \in Nat
  BY DEF PinsInv, PinsTyped
<1>3. PinsTyped'
  BY <1>1, <1>2 DEF PinsTyped, E!Pcs
<1>4. ASSUME NEW c \in Enums PROVE EnumGood(c)'
  <2>0. EnumGood(c)
    BY DEF PinsInv
  <2>1. CASE c # e
    <3>1. /\ m_PinCount'[c] = m_PinCount[c] /\ m_Position'[c] = m_Position[c]
          /\ enumPc'[c] = enumPc[c] /\ unseen'[c] = unseen[c]
      BY <1>1, <1>2, <2>1 DEF PinsTyped
    <3> QED
      BY <1>1, <2>0, <3>1, OtherEnumStaysGood
  <2>2. CASE c = e
    <3>1. m_PinCount'[c] = Len(pins) /\ m_Position'[c] = 0
      BY <1>1, <1>2, <2>2 DEF PinsTyped
    <3>2. ComeBy(c)'
      BY <3>1 DEF ComeBy
    <3>3. CacheIsGot(c)' /\ GotOnce(c)'
      BY <1>1, <2>0, GotStays DEF EnumGood
    <3> QED
      BY <1>1, <2>0, <3>1, <3>2, <3>3 DEF EnumGood
  <2> QED
    BY <2>1, <2>2
<1> QED
  BY <1>3, <1>4 DEF PinsInv

LEMMA SkipKeepsInv ==
  ASSUME PinsInv, NEW e \in Enums, NEW k \in 1 .. 2, E!Skip(e, k)
  PROVE  PinsInv'
<1> DEFINE over == {E!GetPin(n) : n \in m_Position[e] .. m_Position[e] + k - 1}
<1>1. /\ enumPc[e] = "idle" /\ m_Version[e] = m_PinVersion
      /\ k <= m_PinCount[e] - m_Position[e]
      /\ m_Position' = [m_Position EXCEPT ![e] = m_Position[e] + k]
      /\ skipped' = [skipped EXCEPT ![e] = skipped[e] \cup over]
      /\ enumPc' = enumPc
      /\ pins' = pins /\ m_PinVersion' = m_PinVersion /\ unannounced' = unannounced
      /\ m_Version' = m_Version /\ m_PinCount' = m_PinCount /\ m_PinCache' = m_PinCache
      /\ given' = given /\ fetched' = fetched /\ lost' = lost /\ unseen' = unseen
  BY DEF E!Skip, E!AreWeOutOfSync, E!filterPinVars, E!callVars
<1>2. PinsTyped /\ Len(pins) \in Nat /\ m_Position[e] \in Nat /\ m_PinCount[e] \in Nat
  BY DEF PinsInv, PinsTyped
<1>3. over \subseteq Pins \cup {NoPin}
  BY <1>2 DEF E!GetPin, PinsTyped
<1>4. PinsTyped'
  BY <1>1, <1>2, <1>3 DEF PinsTyped
<1>5. ASSUME NEW c \in Enums PROVE EnumGood(c)'
  <2>0. EnumGood(c)
    BY DEF PinsInv
  <2>1. CASE c # e
    <3>1. m_Position'[c] = m_Position[c] /\ skipped'[c] = skipped[c]
      BY <1>1, <1>2, <2>1 DEF PinsTyped
    <3> QED
      BY <1>1, <2>0, <3>1, OtherEnumStaysGood
  <2>2. CASE c = e
    <3>1. m_Position'[c] = m_Position[c] + k /\ skipped'[c] = skipped[c] \cup over
      BY <1>1, <1>2, <2>2 DEF PinsTyped
    <3>2. ASSUME PinsKnown(c)'
          PROVE  m_PinCount'[c] = Len(pins') /\ ComeBy(c)'
      <4>1. PinsKnown(c)
        BY <1>1, <3>2 DEF PinsKnown
      <4>2. m_PinCount[c] = Len(pins) /\ ComeBy(c)
        BY <2>0, <4>1 DEF EnumGood
      <4>3. ASSUME NEW n \in Nat, n < m_Position'[c], n < Len(pins)
            PROVE  pins[n + 1] \in m_PinCache[c] \cup skipped'[c]
        <5>1. CASE n < m_Position[c]
          BY <3>1, <4>2, <4>3, <5>1 DEF ComeBy
        <5>2. CASE ~(n < m_Position[c])
          <6>1. n \in m_Position[e] .. m_Position[e] + k - 1
            BY <1>2, <2>2, <3>1, <4>3, <5>2
          <6>2. E!GetPin(n) \in over
            BY <6>1
          <6>3. E!GetPin(n) = pins[n + 1]
            BY <4>3 DEF E!GetPin
          <6> HIDE DEF over
          <6> QED
            BY <3>1, <6>2, <6>3
        <5> QED
          BY <5>1, <5>2
      <4> QED
        BY <1>1, <4>2, <4>3 DEF ComeBy
    <3> QED
      BY <1>1, <2>0, <3>2 DEF EnumGood, CacheIsGot, GotOnce, Got
  <2> QED
    BY <2>1, <2>2
<1> QED
  BY <1>4, <1>5 DEF PinsInv

LEMMA ResetKeepsInv ==
  ASSUME PinsInv, NEW e \in Enums, E!Reset(e)
  PROVE  PinsInv'
<1>1. /\ enumPc' = [enumPc EXCEPT ![e] = "version"]
      /\ m_PinCache' = [m_PinCache EXCEPT ![e] = {}]
      /\ given' = [given EXCEPT ![e] = <<>>] /\ skipped' = [skipped EXCEPT ![e] = {}]
      /\ lost' = [lost EXCEPT ![e] = {}] /\ fetched' = fetched /\ unseen' = unseen
      /\ enumPc[e] = "idle"
      /\ pins' = pins /\ m_PinVersion' = m_PinVersion /\ unannounced' = unannounced
      /\ m_Version' = m_Version /\ m_PinCount' = m_PinCount /\ m_Position' = m_Position
  BY DEF E!Reset, E!Goes, E!filterPinVars
<1>2. PinsTyped
  BY DEF PinsInv
<1>3. PinsTyped'
  BY <1>1, <1>2 DEF PinsTyped, E!Pcs
<1>4. ASSUME NEW c \in Enums PROVE EnumGood(c)'
  <2>0. EnumGood(c)
    BY DEF PinsInv
  <2>1. CASE c # e
    <3>1. /\ m_PinCache'[c] = m_PinCache[c] /\ enumPc'[c] = enumPc[c]
          /\ given'[c] = given[c] /\ skipped'[c] = skipped[c] /\ lost'[c] = lost[c]
      BY <1>1, <1>2, <2>1 DEF PinsTyped
    <3> QED
      BY <1>1, <2>0, <3>1, OtherEnumStaysGood
  <2>2. CASE c = e
    <3>1. /\ enumPc'[c] = "version" /\ m_PinCache'[c] = {} /\ given'[c] = <<>>
          /\ fetched'[c] = <<>>
      BY <1>1, <1>2, <2>0, <2>2 DEF PinsTyped, EnumGood
    <3>2. CacheIsGot(c)' /\ GotOnce(c)'
      BY <3>1 DEF CacheIsGot, GotOnce, Got
    <3>3. ~PinsKnown(c)'
      BY <3>1 DEF PinsKnown
    <3> QED
      BY <1>1, <2>0, <3>2, <3>3 DEF EnumGood
  <2> QED
    BY <2>1, <2>2
<1> QED
  BY <1>3, <1>4 DEF PinsInv

LEMMA PartsOfConcat ==
  ASSUME NEW S, NEW l \in Seq(S), NEW m \in Seq(S)
  PROVE  /\ l \o m \in Seq(S)
         /\ \A i \in 1 .. Len(l) : i \in 1 .. Len(l \o m) /\ (l \o m)[i] = l[i]
         /\ \A i \in 1 .. Len(l \o m) :
              \/ i \in 1 .. Len(l)
              \/ \E j \in 1 .. Len(m) : (l \o m)[i] = m[j]
<1>1. Len(l) \in Nat /\ Len(m) \in Nat
  BY LenProperties
<1>2. /\ l \o m \in Seq(S) /\ Len(l \o m) = Len(l) + Len(m)
      /\ \A i \in 1 .. Len(l) + Len(m) :
           (l \o m)[i] = IF i <= Len(l) THEN l[i] ELSE m[i - Len(l)]
  BY ConcatProperties
<1>3. ASSUME NEW i \in 1 .. Len(l)
      PROVE  i \in 1 .. Len(l \o m) /\ (l \o m)[i] = l[i]
  <2>1. i \in 1 .. Len(l) + Len(m) /\ i <= Len(l)
    BY <1>1
  <2> QED
    BY <1>2, <2>1
<1>4. ASSUME NEW i \in 1 .. Len(l \o m), i \notin 1 .. Len(l)
      PROVE  \E j \in 1 .. Len(m) : (l \o m)[i] = m[j]
  <2>1. i \in 1 .. Len(l) + Len(m)
    BY <1>2
  <2>2. ~(i <= Len(l)) /\ i - Len(l) \in 1 .. Len(m)
    BY <1>1, <1>4, <2>1
  <2>3. (l \o m)[i] = m[i - Len(l)]
    BY <1>2, <2>1, <2>2
  <2> QED
    BY <2>2, <2>3
<1> QED
  BY <1>2, <1>3, <1>4

LEMMA ConcatOfAppend ==
  ASSUME NEW S, NEW l \in Seq(S), NEW m \in Seq(S), NEW x \in S
  PROVE  l \o Append(m, x) = Append(l \o m, x)
<1>1. Append(m, x) = m \o <<x>> /\ Append(l \o m, x) = (l \o m) \o <<x>>
  BY AppendIsConcat, ConcatProperties
<1>2. <<x>> \in Seq(S)
  OBVIOUS
<1> QED
  BY <1>1, <1>2, ConcatAssociative

(* A pin that is not in the cache is got and put there; one that is has    *)
(* been got.                                                               *)
LEMMA FetchPinKeepsInv ==
  ASSUME PinsInv, NEW e \in Enums, E!FetchPin(e)
  PROVE  PinsInv'
<1> DEFINE p == E!GetPin(m_Position[e])
           fresh == p # NoPin /\ p \notin m_PinCache[e]
<1>1. PICK pcOf \in {"next", "failed"} :
      /\ enumPc[e] = "next" /\ m_PinCount[e] > m_Position[e]
      /\ m_Position' = [m_Position EXCEPT ![e] = m_Position[e] + 1]
      /\ m_PinCache' = [m_PinCache EXCEPT ![e] = IF fresh THEN m_PinCache[e] \cup {p}
                                                          ELSE m_PinCache[e]]
      /\ fetched' = [fetched EXCEPT ![e] = IF fresh THEN Append(fetched[e], p) ELSE fetched[e]]
      /\ enumPc' = [enumPc EXCEPT ![e] = pcOf]
      /\ pins' = pins /\ m_PinVersion' = m_PinVersion /\ unannounced' = unannounced
      /\ m_Version' = m_Version /\ m_PinCount' = m_PinCount /\ skipped' = skipped
      /\ given' = given /\ lost' = lost /\ unseen' = unseen
  BY DEF E!FetchPin, E!MoreToFetch, E!Known, E!Goes, E!filterPinVars
<1>2. /\ PinsTyped /\ Len(pins) \in Nat /\ m_Position[e] \in Nat /\ m_PinCount[e] \in Nat
      /\ given[e] \in Seq(Pins) /\ fetched[e] \in Seq(Pins) /\ m_PinCache[e] \subseteq Pins
  BY DEF PinsInv, PinsTyped
<1>3. p \in Pins \cup {NoPin}
  BY <1>2 DEF E!GetPin, PinsTyped
<1>4. m_Position[e] < Len(pins) => p = pins[m_Position[e] + 1] /\ p \in Pins /\ p # NoPin
  BY <1>2, ObjectsAssumption DEF E!GetPin, PinsTyped
<1> HIDE DEF p
<1>5. fresh => /\ Append(fetched[e], p) \in Seq(Pins)
               /\ given[e] \o Append(fetched[e], p) = Append(Got(e), p)
               /\ Len(Append(Got(e), p)) = Len(Got(e)) + 1
               /\ \A i \in 1 .. Len(Got(e)) : Append(Got(e), p)[i] = Got(e)[i]
               /\ Append(Got(e), p)[Len(Got(e)) + 1] = p
  <2>1. Got(e) \in Seq(Pins)
    BY <1>2, ConcatProperties DEF Got
  <2> SUFFICES ASSUME p \in Pins
               PROVE  /\ Append(fetched[e], p) \in Seq(Pins)
                      /\ given[e] \o Append(fetched[e], p) = Append(Got(e), p)
                      /\ Len(Append(Got(e), p)) = Len(Got(e)) + 1
                      /\ \A i \in 1 .. Len(Got(e)) : Append(Got(e), p)[i] = Got(e)[i]
                      /\ Append(Got(e), p)[Len(Got(e)) + 1] = p
    BY <1>3
  <2>2. Append(fetched[e], p) \in Seq(Pins)
    BY <1>2, AppendProperties
  <2>3. given[e] \o Append(fetched[e], p) = Append(Got(e), p)
    <3>1. given[e] \in Seq(Pins) /\ fetched[e] \in Seq(Pins) /\ p \in Pins
      BY <1>2
    <3>2. \A l, m \in Seq(Pins), x \in Pins : l \o Append(m, x) = Append(l \o m, x)
      BY ConcatOfAppend
    <3>3. given[e] \o Append(fetched[e], p) = Append(given[e] \o fetched[e], p)
      BY <3>1, <3>2, Zenon
    <3> QED
      BY <3>3 DEF Got
  <2>4. /\ Len(Append(Got(e), p)) = Len(Got(e)) + 1
        /\ \A i \in 1 .. Len(Got(e)) : Append(Got(e), p)[i] = Got(e)[i]
        /\ Append(Got(e), p)[Len(Got(e)) + 1] = p
    BY <2>1, AppendProperties
  <2> QED
    BY <2>2, <2>3, <2>4
<1>6. PinsTyped'
  <2>1. m_PinCache' \in [Enums -> SUBSET Pins] /\ fetched' \in [Enums -> Seq(Pins)]
    BY <1>1, <1>2, <1>3, <1>5 DEF PinsTyped
  <2> HIDE DEF fresh
  <2>2. m_Position' \in [Enums -> Nat] /\ enumPc' \in [Enums -> E!Pcs]
    BY <1>1, <1>2 DEF PinsTyped, E!Pcs
  <2> QED
    BY <1>1, <1>2, <2>1, <2>2 DEF PinsTyped
<1>7. ASSUME NEW c \in Enums PROVE EnumGood(c)'
  <2>0. EnumGood(c)
    BY DEF PinsInv
  <2>1. CASE c # e
    <3>1. /\ m_Position'[c] = m_Position[c] /\ m_PinCache'[c] = m_PinCache[c]
          /\ enumPc'[c] = enumPc[c] /\ fetched'[c] = fetched[c]
      BY <1>1, <1>2, <2>1 DEF PinsTyped
    <3> QED
      BY <1>1, <2>0, <3>1, OtherEnumStaysGood
  <2>2. CASE c = e
    <3>1. /\ m_Position'[c] = m_Position[c] + 1
          /\ m_PinCache'[c] = IF fresh THEN m_PinCache[c] \cup {p} ELSE m_PinCache[c]
          /\ fetched'[c] = IF fresh THEN Append(fetched[c], p) ELSE fetched[c]
          /\ given'[c] = given[c] /\ lost'[c] = lost[c] /\ enumPc'[c] \in {"next", "failed"}
      BY <1>1, <1>2, <2>2 DEF PinsTyped
    <3>2. CacheIsGot(c) /\ GotOnce(c)
      BY <2>0 DEF EnumGood
    <3>3. CacheIsGot(c)' /\ GotOnce(c)'
      <4>1. CASE ~fresh
        BY <3>1, <3>2, <4>1 DEF CacheIsGot, GotOnce, Got
      <4>2. CASE fresh
        <5>0. Got(c)' = Append(Got(c), p)
          BY <1>5, <2>2, <3>1, <4>2 DEF Got
        <5>1. /\ m_PinCache'[c] = m_PinCache[c] \cup {p}
              /\ Len(Got(c)') = Len(Got(c)) + 1 /\ Len(Got(c)) \in Nat
              /\ \A i \in 1 .. Len(Got(c)) : Got(c)'[i] = Got(c)[i]
              /\ Got(c)'[Len(Got(c)) + 1] = p
          <6>1. Got(c) \in Seq(Pins)
            BY <1>2, <2>2, ConcatProperties DEF Got
          <6> QED
            BY <1>5, <2>2, <3>1, <4>2, <5>0, <6>1, LenProperties
        <5>2. \A i \in 1 .. Len(Got(c)) : Got(c)[i] # p
          BY <2>2, <3>2, <4>2 DEF CacheIsGot
        <5>3. ASSUME NEW i \in 1 .. Len(Got(c)')
              PROVE  i \in 1 .. Len(Got(c)) \/ i = Len(Got(c)) + 1
          BY <5>1
        <5>4. GotOnce(c)'
          BY <3>2, <5>1, <5>2, <5>3 DEF GotOnce
        <5>5. CacheIsGot(c)'
          <6>1. \A i \in 1 .. Len(Got(c)') : Got(c)'[i] \in m_PinCache'[c]
            BY <3>2, <5>1, <5>3 DEF CacheIsGot
          <6>2. ASSUME NEW q \in m_PinCache'[c]
                PROVE  q \in lost'[c] \/ \E i \in 1 .. Len(Got(c)') : Got(c)'[i] = q
            <7>1. CASE q = p
              <8>1. Len(Got(c)) + 1 \in 1 .. Len(Got(c)')
                BY <5>1
              <8> QED
                BY <5>1, <7>1, <8>1
            <7>2. CASE q \in m_PinCache[c] /\ q \notin lost[c]
              <8>1. PICK i \in 1 .. Len(Got(c)) : Got(c)[i] = q
                BY <3>2, <7>2 DEF CacheIsGot
              <8>2. i \in 1 .. Len(Got(c)') /\ Got(c)'[i] = q
                BY <5>1, <8>1
              <8> QED
                BY <8>2
            <7> QED
              BY <3>1, <5>1, <7>1, <7>2
          <6> QED
            BY <6>1, <6>2 DEF CacheIsGot
        <5> QED
          BY <5>4, <5>5
      <4> QED
        BY <4>1, <4>2
    <3>4. ASSUME PinsKnown(c)'
          PROVE  m_PinCount'[c] = Len(pins') /\ ComeBy(c)'
      <4>1. PinsKnown(c)
        BY <1>1, <2>2, <3>4 DEF PinsKnown
      <4>2. m_PinCount[c] = Len(pins) /\ ComeBy(c)
        BY <2>0, <4>1 DEF EnumGood
      <4>3. p = pins[m_Position[c] + 1] /\ p # NoPin
        BY <1>1, <1>2, <1>4, <2>2, <4>2
      <4>4. ASSUME NEW n \in Nat, n < m_Position'[c], n < Len(pins)
            PROVE  pins[n + 1] \in m_PinCache'[c] \cup skipped[c]
        <5>1. CASE n < m_Position[c]
          BY <3>1, <4>2, <4>4, <5>1 DEF ComeBy
        <5>2. CASE ~(n < m_Position[c])
          <6>1. n = m_Position[c]
            BY <1>2, <2>2, <3>1, <4>4, <5>2
          <6>2. pins[n + 1] = p /\ p \in m_PinCache'[c]
            BY <2>2, <3>1, <4>3, <6>1
          <6> QED
            BY <6>2
        <5> QED
          BY <5>1, <5>2
      <4> QED
        BY <1>1, <4>2, <4>4 DEF ComeBy
    <3> QED
      BY <1>1, <2>0, <3>1, <3>3, <3>4 DEF EnumGood
  <2> QED
    BY <2>1, <2>2
<1> QED
  BY <1>6, <1>7 DEF PinsInv

(* Next is over: what it has got is its caller's, or lost with the call.   *)
LEMMA NextEndsKeepsInv ==
  ASSUME PinsInv, NEW e \in Enums, E!NextReturns(e) \/ E!NextFails(e)
  PROVE  PinsInv'
<1>1. /\ enumPc[e] \in {"next", "failed"} /\ enumPc' = [enumPc EXCEPT ![e] = "idle"]
      /\ fetched' = [fetched EXCEPT ![e] = <<>>]
      /\ \/ given' = [given EXCEPT ![e] = Got(e)] /\ lost' = lost
         \/ given' = given /\ lost' = [lost EXCEPT ![e] = lost[e] \cup E!Range(fetched[e])]
      /\ pins' = pins /\ m_PinVersion' = m_PinVersion /\ unannounced' = unannounced
      /\ m_Version' = m_Version /\ m_PinCount' = m_PinCount /\ m_Position' = m_Position
      /\ m_PinCache' = m_PinCache /\ skipped' = skipped /\ unseen' = unseen
  BY DEF E!NextReturns, E!NextFails, E!Forget, E!Goes, E!filterPinVars, Got
<1>2. PinsTyped /\ given[e] \in Seq(Pins) /\ fetched[e] \in Seq(Pins)
  BY DEF PinsInv, PinsTyped
<1>3. Got(e) \in Seq(Pins) /\ E!Range(fetched[e]) \subseteq Pins /\ <<>> \in Seq(Pins)
  BY <1>2, ConcatProperties DEF Got, E!Range
<1>4. PinsTyped'
  BY <1>1, <1>2, <1>3 DEF PinsTyped, E!Pcs
<1>5. ASSUME NEW c \in Enums PROVE EnumGood(c)'
  <2>0. EnumGood(c)
    BY DEF PinsInv
  <2>1. CASE c # e
    <3>1. /\ fetched'[c] = fetched[c] /\ given'[c] = given[c] /\ lost'[c] = lost[c]
          /\ enumPc'[c] = enumPc[c]
      BY <1>1, <1>2, <2>1 DEF PinsTyped
    <3> QED
      BY <1>1, <2>0, <3>1, OtherEnumStaysGood
  <2>2. CASE c = e
    <3>1. /\ fetched'[c] = <<>> /\ enumPc'[c] = "idle"
          /\ \/ given'[c] = Got(c) /\ lost'[c] = lost[c]
             \/ given'[c] = given[c] /\ lost'[c] = lost[c] \cup E!Range(fetched[c])
      BY <1>1, <1>2, <2>2 DEF PinsTyped
    <3>2. CacheIsGot(c) /\ GotOnce(c)
      BY <2>0 DEF EnumGood
    <3>3. Got(c)' = given'[c] /\ given'[c] \in Seq(Pins)
      BY <1>2, <1>3, <2>2, <3>1, ConcatEmptySeq DEF Got
    <3>4. CacheIsGot(c)' /\ GotOnce(c)'
      <4>1. CASE given'[c] = Got(c) /\ lost'[c] = lost[c]
        BY <1>1, <3>2, <3>3, <4>1 DEF CacheIsGot, GotOnce
      <4>2. CASE given'[c] = given[c] /\ lost'[c] = lost[c] \cup E!Range(fetched[c])
        <5>1. given[c] \in Seq(Pins) /\ fetched[c] \in Seq(Pins)
          BY <1>2, <2>2
        <5>2. /\ \A i \in 1 .. Len(given[c]) : i \in 1 .. Len(Got(c)) /\ Got(c)[i] = given[c][i]
              /\ \A i \in 1 .. Len(Got(c)) :
                   \/ i \in 1 .. Len(given[c])
                   \/ \E j \in 1 .. Len(fetched[c]) : Got(c)[i] = fetched[c][j]
          <6>1. \A i \in 1 .. Len(given[c]) :
                  i \in 1 .. Len(Got(c)) /\ Got(c)[i] = given[c][i]
            BY <5>1, PartsOfConcat, Zenon DEF Got
          <6>2. ASSUME NEW i \in 1 .. Len(Got(c)), i \notin 1 .. Len(given[c])
                PROVE  \E j \in 1 .. Len(fetched[c]) : Got(c)[i] = fetched[c][j]
            <7> DEFINE Second(l, m, x) == \E j \in 1 .. Len(m) : x = m[j]
            <7>1. \A l, m \in Seq(Pins) :
                    \A k \in 1 .. Len(l \o m) : k \in 1 .. Len(l) \/ Second(l, m, (l \o m)[k])
              BY PartsOfConcat
            <7>2. Second(given[c], fetched[c], Got(c)[i])
              <8> HIDE DEF Second
              <8> QED
                BY <5>1, <6>2, <7>1, Zenon DEF Got
            <7> QED
              BY <7>2
          <6> QED
            BY <6>1, <6>2
        <5>3. GotOnce(c)'
          <6>1. Got(c)' = given[c]
            BY <3>3, <4>2
          <6> QED
            BY <3>2, <5>2, <6>1 DEF GotOnce
        <5>4. ASSUME NEW p \in m_PinCache[c], p \notin lost'[c]
              PROVE  \E i \in 1 .. Len(given[c]) : given[c][i] = p
          <6>1. PICK i \in 1 .. Len(Got(c)) : Got(c)[i] = p
            BY <3>2, <4>2, <5>4 DEF CacheIsGot
          <6>2. ASSUME NEW j \in 1 .. Len(fetched[c]), fetched[c][j] = p PROVE FALSE
            <7>1. p \in E!Range(fetched[c])
              BY <5>1, <6>2, LenProperties DEF E!Range
            <7> QED
              BY <4>2, <5>4, <7>1
          <6> QED
            BY <5>2, <6>1, <6>2
        <5>5. CacheIsGot(c)'
          <6>1. Got(c)' = given[c] /\ m_PinCache'[c] = m_PinCache[c]
            BY <1>1, <3>3, <4>2
          <6>2. \A i \in 1 .. Len(given[c]) : given[c][i] \in m_PinCache[c]
            BY <3>2, <5>2 DEF CacheIsGot
          <6> QED
            BY <5>4, <6>1, <6>2 DEF CacheIsGot
        <5> QED
          BY <5>3, <5>5
      <4> QED
        BY <3>1, <4>1, <4>2
    <3>5. PinsKnown(c)' => PinsKnown(c)
      BY <1>1, <2>2 DEF PinsKnown
    <3> QED
      BY <1>1, <2>0, <3>1, <3>4, <3>5 DEF EnumGood, ComeBy
  <2> QED
    BY <2>1, <2>2
<1> QED
  BY <1>4, <1>5 DEF PinsInv

LEMMA PinsStepKeepsInv ==
  ASSUME PinsInv, [E!PinEnumNext]_pinEnumVars
  PROVE  PinsInv'
<1>1. ASSUME NEW p \in Pins, E!AddPin(p) PROVE PinsInv'
  <2>1. E!Change(Append(pins, p)) /\ Append(pins, p) \in Seq(Pins)
    BY <1>1, AppendProperties DEF E!AddPin, PinsInv, PinsTyped
  <2> QED
    BY <2>1, ListChangeKeepsInv
<1>2. ASSUME NEW p \in Pins, E!RemovePin(p) PROVE PinsInv'
  <2>1. PICK i \in DOMAIN pins : E!Change(E!RemoveAt(pins, i))
    BY <1>2 DEF E!RemovePin
  <2>2. pins \in Seq(Pins) /\ i \in 1 .. Len(pins)
    BY DEF PinsInv, PinsTyped
  <2>3. E!RemoveAt(pins, i) \in Seq(Pins)
    BY <2>2, WithoutOne
  <2> QED
    BY <2>1, <2>3, ListChangeKeepsInv
<1>3. CASE E!IncrementPinVersion
  BY <1>3, IncrementKeepsInv
<1>4. ASSUME NEW e \in Enums, E!New(e) PROVE PinsInv'
  <2>1. /\ E!Goes(e, "version") /\ "version" \in E!Pcs /\ fetched[e] = <<>>
        /\ UNCHANGED <<pins, m_PinVersion, unannounced, m_Version, m_PinCount, m_Position,
                       m_PinCache, given, skipped, fetched, lost, unseen>>
    BY <1>4 DEF E!New, E!filterPinVars, E!enumVars, E!Pcs, PinsInv, EnumGood
  <2> QED
    BY <2>1, EnumGoesOn
<1>5. ASSUME NEW e \in Enums, NEW k \in 1 .. 2, E!StartNext(e, k) PROVE PinsInv'
  <2>1. PICK pcOf \in {"version", "next"} :
        /\ E!Goes(e, pcOf) /\ pcOf \in E!Pcs /\ enumPc[e] = "idle"
        /\ fetched' = [fetched EXCEPT ![e] = <<>>]
        /\ UNCHANGED <<pins, m_PinVersion, unannounced, m_Version, m_PinCount, m_Position,
                       m_PinCache, given, skipped, lost, unseen>>
    BY <1>5 DEF E!StartNext, E!filterPinVars, E!enumVars, E!Pcs
  <2>2. fetched[e] = <<>> /\ fetched \in [Enums -> Seq(Pins)]
    BY <2>1 DEF PinsInv, PinsTyped, EnumGood
  <2>3. fetched' = fetched
    BY <2>1, <2>2
  <2> QED
    BY <2>1, <2>2, <2>3, EnumGoesOn
<1>6. ASSUME NEW e \in Enums, E!NextReturns(e) \/ E!NextFails(e) PROVE PinsInv'
  BY <1>6, NextEndsKeepsInv
<1>7. ASSUME NEW e \in Enums, E!ReadVersion(e) \/ E!ReadCount(e) PROVE PinsInv'
  BY <1>7, ReadVersionKeepsInv, ReadCountKeepsInv
<1>8. ASSUME NEW e \in Enums, NEW d \in Enums, E!Clone(e, d) PROVE PinsInv'
  BY <1>8, CloneKeepsInv
<1>9. ASSUME NEW e \in Enums, NEW k \in 1 .. 2, E!Skip(e, k) PROVE PinsInv'
  BY <1>9, SkipKeepsInv
<1>10. ASSUME NEW e \in Enums, E!FetchPin(e) \/ E!Reset(e) PROVE PinsInv'
  BY <1>10, FetchPinKeepsInv, ResetKeepsInv
<1>11. CASE UNCHANGED pinEnumVars
  <2>1. /\ pins' = pins /\ m_PinVersion' = m_PinVersion /\ unannounced' = unannounced
        /\ m_Version' = m_Version /\ m_PinCount' = m_PinCount /\ m_Position' = m_Position
        /\ m_PinCache' = m_PinCache /\ enumPc' = enumPc /\ given' = given
        /\ skipped' = skipped /\ fetched' = fetched /\ lost' = lost /\ unseen' = unseen
    BY <1>11 DEF pinEnumVars
  <2>2. PinsTyped'
    BY <2>1 DEF PinsInv, PinsTyped
  <2>3. \A e \in Enums : EnumGood(e)'
    BY <2>1, OtherEnumStaysGood DEF PinsInv
  <2> QED
    BY <2>2, <2>3 DEF PinsInv
<1> QED
  BY <1>1, <1>2, <1>3, <1>4, <1>5, <1>6, <1>7, <1>8, <1>9, <1>10, <1>11 DEF E!PinEnumNext

LEMMA PinsInvImpliesSafety == PinsInv => E!PinEnumSafety
<1> SUFFICES ASSUME PinsInv PROVE E!NoPinTwice /\ E!NothingMissed
  BY DEF E!PinEnumSafety
<1>1. ASSUME NEW e \in Enums PROVE E!IsInjective(given[e])
  <2>1. /\ GotOnce(e) /\ given[e] \in Seq(Pins) /\ fetched[e] \in Seq(Pins)
        /\ DOMAIN given[e] = 1 .. Len(given[e])
    BY DEF PinsInv, PinsTyped, EnumGood
  <2>2. \A i \in 1 .. Len(given[e]) : i \in 1 .. Len(Got(e)) /\ Got(e)[i] = given[e][i]
    BY <2>1, PartsOfConcat, Zenon DEF Got
  <2> QED
    BY <2>1, <2>2 DEF GotOnce, E!IsInjective
<1>2. ASSUME NEW e \in Enums, enumPc[e] = "idle", m_Position[e] = m_PinCount[e],
             ~E!AreWeOutOfSync(e), ~unannounced, ~unseen[e], NEW p \in E!Range(pins)
      PROVE  p \in E!Range(given[e]) \cup skipped[e] \cup lost[e]
  <2>1. PinsKnown(e) /\ EnumGood(e)
    BY <1>2 DEF PinsKnown, E!AreWeOutOfSync, PinsInv
  <2>2. m_Position[e] = Len(pins) /\ ComeBy(e) /\ CacheIsGot(e) /\ fetched[e] = <<>>
    BY <1>2, <2>1 DEF EnumGood
  <2>3. pins \in Seq(Pins) /\ given[e] \in Seq(Pins)
    BY DEF PinsInv, PinsTyped
  <2>4. PICK i \in 1 .. Len(pins) : pins[i] = p
    BY <2>3 DEF E!Range
  <2>5. PICK n \in Nat : i = n + 1 /\ n < Len(pins)
    <3>1. i - 1 \in Nat /\ i = (i - 1) + 1 /\ i - 1 < Len(pins)
      BY <2>3
    <3> QED
      BY <3>1
  <2>6. p \in m_PinCache[e] \cup skipped[e]
    BY <2>2, <2>4, <2>5 DEF ComeBy
  <2>7. ASSUME p \in m_PinCache[e], p \notin lost[e] PROVE p \in E!Range(given[e])
    <3>0. Got(e) = given[e]
      BY <2>2, <2>3, ConcatEmptySeq DEF Got
    <3>1. PICK j \in 1 .. Len(given[e]) : given[e][j] = p
      BY <2>2, <2>7, <3>0 DEF CacheIsGot
    <3> QED
      BY <2>3, <3>1 DEF E!Range
  <2> QED
    BY <2>6, <2>7
<1> QED
  BY <1>1, <1>2 DEF E!NoPinTwice, E!NothingMissed

-----------------------------------------------------------------------------
(* Whatever a filter does to its pins, announced or not, and whatever call *)
(* fails, the callers of an enumerator get no pin twice, and one that has  *)
(* come to the end in step with a filter that kept no change from it has   *)
(* missed none but those that a failing Next took with it; an enumerator   *)
(* of media types has missed none but those there was no memory for; and a *)
(* sample that is free has no flags and no type of its last use, for any   *)
(* pins, types and properties.                                             *)
THEOREM NothingIsLostOrLeft == ObjectsSpec => []NothingLostOrLeft
<1> DEFINE Inv == PinsInv /\ TypesInv /\ SampleInv
<1>1. ObjectsInit => Inv
  BY PinsInitially, TypesInitially, SampleInitially DEF ObjectsInit
<1>2. Inv /\ [ObjectsNext]_allVars => Inv'
  <2> SUFFICES ASSUME Inv, [ObjectsNext]_allVars PROVE Inv'
    OBVIOUS
  <2>1. [E!PinEnumNext]_pinEnumVars /\ [T!TypeEnumNext]_typeEnumVars /\ [M!SampleNext]_sampleVars
    BY DEF ObjectsNext, allVars
  <2> QED
    BY <2>1, PinsStepKeepsInv, TypesStepKeepsInv, SampleStepKeepsInv
<1>3. Inv => NothingLostOrLeft
  BY PinsInvImpliesSafety, TypesInvImpliesSafety, SampleInvImpliesSafety DEF NothingLostOrLeft
<1> QED
  BY <1>1, <1>2, <1>3, PTL DEF ObjectsSpec

(***************************************************************************)
(* VideoGraph                                                              *)
(***************************************************************************)

LEMMA SumsKeepStep ==
  ASSUME NEW n \in Nat, NEW S \in Nat, NEW T0 \in Int, NEW x \in Int, T0 * T0 <= n * S
  PROVE  (T0 + x) * (T0 + x) <= (n + 1) * (S + x * x)
<1>1. CASE n = 0
  <2>1. T0 * T0 <= 0
    BY <1>1
  <2>2. T0 = 0
    BY <2>1
  <2> QED
    BY <1>1, <2>2
<1>2. CASE n > 0
  <2> DEFINE d == S + n * (x * x) - 2 * (T0 * x)
  <2>1. (T0 - n * x) * (T0 - n * x) >= 0
    OBVIOUS
  <2>2. (T0 - n * x) * (T0 - n * x) = T0 * T0 - 2 * (n * (T0 * x)) + n * (n * (x * x))
    OBVIOUS
  <2>3. n * d = n * S + n * (n * (x * x)) - 2 * (n * (T0 * x))
    OBVIOUS
  <2>4. n * d >= 0
    BY <2>1, <2>2, <2>3
  <2>5. d \in Int
    OBVIOUS
  <2>6. d >= 0
    <3> HIDE DEF d
    <3> QED
      BY <2>4, <2>5, <1>2
  <2>7. (n + 1) * (S + x * x) - (T0 + x) * (T0 + x) = n * S - T0 * T0 + d
    OBVIOUS
  <2> QED
    BY <2>6, <2>7
<1> QED
  BY <1>1, <1>2

LEMMA QuotientBound ==
  ASSUME NEW a \in Nat, NEW n \in Nat \ {0}, NEW S \in Nat, a <= n * S
  PROVE  a \div n <= S
<1>1. a = n * (a \div n) + (a % n) /\ a % n >= 0 /\ a \div n \in Int
  OBVIOUS
<1>2. SUFFICES ASSUME a \div n >= S + 1 PROVE FALSE
  BY <1>1
<1> DEFINE q == a \div n
<1>3. n * q >= n * (S + 1)
  <2>1. q \in Int /\ q >= S + 1
    BY <1>1, <1>2
  <2> HIDE DEF q
  <2> QED
    BY <2>1
<1>4. n * (S + 1) = n * S + n
  OBVIOUS
<1> QED
  BY <1>1, <1>3, <1>4

LEMMA NotImaginary ==
  ASSUME NEW n \in Int, NEW S \in Nat, NEW T0 \in Int, n > 1 => T0 * T0 <= (n - 1) * S
  PROVE  V!R!Variance(n, S, T0) >= 0
<1>1. CASE n <= 1
  BY <1>1 DEF V!R!Variance
<1>2. CASE n > 1
  <2>1. T0 * T0 \in Nat /\ T0 * T0 <= n * S
    <3>1. n * S = (n - 1) * S + S
      OBVIOUS
    <3> QED
      BY <1>2, <3>1
  <2>2. (T0 * T0) \div n <= S /\ (T0 * T0) \div n \in Int
    BY <1>2, <2>1, QuotientBound
  <2>3. ASSUME NEW a \in Nat PROVE V!R!Quot(a, n - 1) >= 0
    BY <1>2 DEF V!R!Quot
  <2>4. S - (T0 * T0) \div n \in Nat
    BY <2>2
  <2> QED
    BY <1>2, <2>3, <2>4 DEF V!R!Variance
<1> QED
  BY <1>1, <1>2

-----------------------------------------------------------------------------
VideoFrame ==
  [start : Int, stop : Int, key : BOOLEAN, disc : BOOLEAN, stamped : BOOLEAN, type : BOOLEAN]

Counts ==
  [late : Int, period : Nat, since : Nat, skipping : BOOLEAN, decode : Nat, changed : BOOLEAN]

(* While the decoder is in wait of a key frame, m_nWaitForKey counts down   *)
(* what waited counts up.                                                  *)
DecoderInv ==
  /\ V!T!TypeOK /\ V!T!NothingDecodedInPieces /\ V!T!KeyIsAwaited
  /\ waited <= KeyWait
  /\ waited \in 1 .. KeyWait - 1 => m_nWaitForKey = KeyWait - waited

(* A frame that others need is missing only while frames are skipped.      *)
SkipsWhileBroken == broken => m_bSkipping

LEMMA HeldIsTyped == V!T!TypeOK => V!T!Held \in Counts
BY DEF V!T!TypeOK, V!T!Held, Counts

LEMMA CountsFrames ==
  ASSUME NEW q \in Counts, NEW f \in VideoFrame, f.stamped, f.stop - f.start \in Nat
  PROVE  /\ V!T!ShouldSkipFrame(q, f) \in Counts
         /\ q.skipping /\ ~f.key => V!T!ShouldSkipFrame(q, f).skipping
<1> DEFINE dur == f.stop - f.start
           period == V!T!KeyFramePeriod(q, f)
           c == V!T!CountFrames(q, f)
           skip == c.skipping \/ V!T!WorthSkipping(c, dur)
<1>1. f.key \in BOOLEAN /\ dur \in Nat
  BY DEF VideoFrame
<1>2. /\ q.late \in Int /\ q.period \in Nat /\ q.since \in Nat /\ q.skipping \in BOOLEAN
      /\ q.decode \in Nat /\ q.changed \in BOOLEAN
  BY DEF Counts
<1>3. period \in Nat
  BY <1>2 DEF V!T!KeyFramePeriod, V!T!Higher
<1>4. /\ c \in Counts /\ c.late = q.late /\ c.decode = q.decode /\ c.changed = q.changed
      /\ c.period = period /\ c.since \in Nat
      /\ c.skipping = (q.skipping /\ ~f.key)
  <2>1. c = [q EXCEPT !.period = period, !.since = IF f.key THEN 0 ELSE q.since,
                      !.skipping = q.skipping /\ ~f.key]
    BY DEF V!T!CountFrames
  <2> HIDE DEF c, period
  <2> QED
    BY <1>1, <1>2, <1>3, <2>1 DEF Counts
<1>5. V!T!ShouldSkipFrame(q, f) =
        [c EXCEPT !.since = c.since + 1, !.skipping = skip, !.changed = c.changed \/ skip,
                  !.late = IF skip THEN c.late - dur ELSE c.late]
  BY DEF V!T!ShouldSkipFrame
<1>6. skip \in BOOLEAN
  BY <1>4 DEF V!T!WorthSkipping
<1>7. q.skipping /\ ~f.key => skip
  BY <1>4
<1>8. c = [late |-> c.late, period |-> c.period, since |-> c.since, skipping |-> c.skipping,
           decode |-> c.decode, changed |-> c.changed]
  <2> HIDE DEF c
  <2> QED
    BY <1>4 DEF Counts
<1> DEFINE r == [late |-> IF skip THEN q.late - dur ELSE q.late, period |-> period,
                 since |-> c.since + 1, skipping |-> skip, decode |-> q.decode,
                 changed |-> q.changed \/ skip]
<1> HIDE DEF c, skip, dur, period
<1>9. V!T!ShouldSkipFrame(q, f) = r
  BY <1>4, <1>5, <1>8, ZenonT(60)
<1>10. r \in Counts /\ r.skipping = skip
  BY <1>1, <1>2, <1>3, <1>4, <1>6 DEF Counts
<1> QED
  BY <1>7, <1>9, <1>10

LEMMA BecomesTyped ==
  ASSUME NEW q \in Counts, V!T!Becomes(q)
  PROVE  /\ m_itrLate' \in Int /\ m_nKeyFramePeriod' \in Nat /\ m_nFramesSinceKeyFrame' \in Nat
         /\ m_bSkipping' \in BOOLEAN /\ m_itrAvgDecode' \in Nat /\ m_bQualityChanged' \in BOOLEAN
         /\ m_bSkipping' = q.skipping
BY DEF V!T!Becomes, Counts

LEMMA FreshIsTyped ==
  ASSUME NEW q \in Counts
  PROVE  V!T!Fresh(q) \in Counts
<1>1. ASSUME NEW r \in Counts PROVE [r EXCEPT !.late = 0] \in Counts
  BY <1>1 DEF Counts
<1>2. ASSUME NEW r \in Counts PROVE [r EXCEPT !.period = 0] \in Counts
  BY <1>2 DEF Counts
<1>3. ASSUME NEW r \in Counts PROVE [r EXCEPT !.since = 0] \in Counts
  BY <1>3 DEF Counts
<1>4. ASSUME NEW r \in Counts PROVE [r EXCEPT !.skipping = FALSE] \in Counts
  BY <1>4 DEF Counts
<1>5. ASSUME NEW r \in Counts PROVE [r EXCEPT !.decode = 30, !.changed = FALSE] \in Counts
  BY <1>5 DEF Counts
<1>6. [q EXCEPT !.late = 0, !.period = 0, !.since = 0] \in Counts
  BY <1>1, <1>2, <1>3
<1>7. [q EXCEPT !.late = 0, !.period = 0, !.since = 0, !.skipping = FALSE] \in Counts
  BY <1>4, <1>6
<1> QED
  BY <1>5, <1>7 DEF V!T!Fresh

LEMMA FoundIsTyped ==
  ASSUME V!T!TypeOK, NEW f \in VideoFrame
  PROVE  /\ V!T!Found(f) \in Counts
         /\ V!T!Found(f).skipping = (m_bSkipping /\ ~f.type)
<1>1. V!T!Held \in Counts /\ V!T!Held.skipping = m_bSkipping /\ m_bSkipping \in BOOLEAN
  BY HeldIsTyped DEF V!T!Held, V!T!TypeOK
<1>2. V!T!Fresh(V!T!Held) \in Counts /\ V!T!Fresh(V!T!Held).skipping = FALSE
  <2>1. V!T!Fresh(V!T!Held) \in Counts
    BY <1>1, FreshIsTyped
  <2>2. ASSUME NEW q \in Counts PROVE V!T!Fresh(q).skipping = FALSE
    BY <2>2 DEF V!T!Fresh, Counts
  <2> QED
    BY <1>1, <2>1, <2>2
<1>3. f.type \in BOOLEAN
  BY DEF VideoFrame
<1> QED
  BY <1>1, <1>2, <1>3 DEF V!T!Found

(* What ShouldSkipFrame makes of a frame that is not skipped.              *)
LEMMA LooksAtFrame ==
  ASSUME V!T!TypeOK, NEW f \in VideoFrame, f.stop - f.start \in Nat
  PROVE  /\ V!T!ShouldSkipFrame(V!T!Found(f), f) \in Counts
         /\ ~f.stamped =>
              V!T!ShouldSkipFrame(V!T!Found(f), f).skipping = (m_bSkipping /\ ~f.type)
         /\ f.stamped /\ m_bSkipping /\ ~f.key /\ ~f.type => V!T!Skips(f)
<1>1. V!T!Found(f) \in Counts /\ V!T!Found(f).skipping = (m_bSkipping /\ ~f.type)
  BY FoundIsTyped
<1>2. CASE f.stamped
  <2>1. /\ V!T!ShouldSkipFrame(V!T!Found(f), f) \in Counts
        /\ V!T!Found(f).skipping /\ ~f.key => V!T!ShouldSkipFrame(V!T!Found(f), f).skipping
    BY <1>1, <1>2, CountsFrames
  <2> QED
    BY <1>1, <1>2, <2>1 DEF V!T!Skips
<1>3. CASE ~f.stamped
  BY <1>1, <1>3 DEF V!T!ShouldSkipFrame
<1> QED
  BY <1>2, <1>3

(* A frame that does not reach the decoder.                                *)
LEMMA UndecodedKeepsInv ==
  ASSUME DecoderInv, NEW q \in Counts, V!T!Becomes(q), m_bSampleSkipped' \in BOOLEAN,
         outcome' \in {"skipped", "failed"}, broken' = TRUE,
         UNCHANGED <<m_nWaitForKey, waited, orphan>>
  PROVE  DecoderInv'
<1>1. V!T!TypeOK'
  BY BecomesTyped DEF DecoderInv, V!T!TypeOK
<1> QED
  BY <1>1 DEF DecoderInv, V!T!NothingDecodedInPieces, V!T!KeyIsAwaited

LEMMA SkipFrameKeepsInv ==
  ASSUME DecoderInv, NEW f \in VideoFrame, f.stop - f.start \in Nat, V!T!SkipFrame(f)
  PROVE  DecoderInv' /\ SkipsWhileBroken'
<1> DEFINE q == V!T!ShouldSkipFrame(V!T!Found(f), f)
<1>1. q \in Counts
  BY LooksAtFrame DEF DecoderInv
<1>2. /\ q.skipping /\ V!T!Becomes(q)
      /\ m_bSampleSkipped' = TRUE /\ outcome' = "skipped" /\ broken' = TRUE
      /\ UNCHANGED <<m_nWaitForKey, waited, orphan>>
  BY DEF V!T!SkipFrame, V!T!Skips
<1> HIDE DEF q
<1>3. DecoderInv'
  BY <1>1, <1>2, UndecodedKeepsInv
<1>4. m_bSkipping'
  BY <1>1, <1>2, BecomesTyped
<1> QED
  BY <1>3, <1>4 DEF SkipsWhileBroken

LEMMA FailKeepsInv ==
  ASSUME DecoderInv, NEW f \in VideoFrame, f.stop - f.start \in Nat,
         NEW newFormat \in BOOLEAN, V!T!Fail(f, newFormat)
  PROVE  DecoderInv' /\ outcome' = "failed"
<1>0. V!T!Held \in Counts /\ m_bSampleSkipped \in BOOLEAN /\ f.type \in BOOLEAN
  BY HeldIsTyped DEF DecoderInv, V!T!TypeOK, VideoFrame
<1>1. V!T!ShouldSkipFrame(V!T!Found(f), f) \in Counts
  BY LooksAtFrame DEF DecoderInv
<1>2. ASSUME NEW q \in Counts, NEW missed \in BOOLEAN, V!T!AbortPlayback(q, missed)
      PROVE  DecoderInv' /\ outcome' = "failed"
  <2>1. V!T!Fresh(q) \in Counts
    BY FreshIsTyped
  <2>2. /\ outcome' = "failed" /\ broken' = TRUE
        /\ UNCHANGED <<m_nWaitForKey, waited, orphan>>
        /\ \/ V!T!Becomes(q) /\ m_bSampleSkipped' = missed
           \/ V!T!Becomes(V!T!Fresh(q)) /\ m_bSampleSkipped' = FALSE
    BY <1>2 DEF V!T!AbortPlayback, V!T!LoseFrame
  <2> QED
    BY <2>1, <2>2, UndecodedKeepsInv
<1>3. CASE V!T!NoOutputSample(f)
  <2>1. /\ outcome' = "failed" /\ broken' = TRUE
        /\ UNCHANGED <<m_nWaitForKey, waited, orphan>>
        /\ V!T!Becomes(V!T!ShouldSkipFrame(V!T!Found(f), f)) /\ m_bSampleSkipped' \in BOOLEAN
    BY <1>0, <1>3 DEF V!T!NoOutputSample, V!T!LoseFrame
  <2> QED
    BY <1>1, <2>1, UndecodedKeepsInv
<1> QED
  BY <1>0, <1>1, <1>2, <1>3 DEF V!T!Fail

LEMMA DecodeKeepsInv ==
  ASSUME DecoderInv, SkipsWhileBroken, NEW f \in VideoFrame, f.stop - f.start \in Nat,
         NEW took \in Nat, NEW newFormat \in BOOLEAN,
         NEW answer \in {"delivered", "withheld", "failed"},
         V!T!Decode(f, took, newFormat, answer)
  PROVE  DecoderInv' /\ (outcome' # "failed" => SkipsWhileBroken')
<1> DEFINE q0 == V!T!ShouldSkipFrame(V!T!Found(f), f)
           q == IF newFormat THEN V!T!Fresh(q0) ELSE q0
           begins == newFormat \/ f.disc
           wait == V!T!WaitForKey(IF begins THEN KeyWait ELSE m_nWaitForKey, f)
           result == IF answer = "delivered" /\ wait # 0 THEN "withheld" ELSE answer
           lacks == broken /\ ~f.key /\ ~f.disc /\ ~f.type
           r == [q EXCEPT !.decode = (took + 15 * q.decode) \div 16,
                          !.changed = q.changed \/ result = "withheld"]
<1>0. /\ f.key \in BOOLEAN /\ f.disc \in BOOLEAN /\ f.type \in BOOLEAN /\ f.stamped \in BOOLEAN
      /\ broken \in BOOLEAN /\ waited \in Nat /\ m_nWaitForKey \in Int /\ V!T!TypeOK
      /\ KeyWait \in Nat \ {0}
  BY VideoAssumption DEF VideoFrame, DecoderInv, V!T!TypeOK
<1>1. /\ ~V!T!Skips(f) /\ V!T!Becomes(r)
      /\ m_nWaitForKey' = wait /\ m_bSampleSkipped' = (result = "withheld")
      /\ outcome' = result
      /\ orphan' = (IF ~lacks THEN "none" ELSE IF f.stamped THEN "timed" ELSE "untimed")
      /\ broken' = (result = "failed" \/ (lacks /\ ~newFormat))
      /\ waited' = (IF f.key THEN 0 ELSE IF begins THEN 1
                    ELSE IF waited \in 1 .. KeyWait - 1 THEN waited + 1 ELSE waited)
  BY DEF V!T!Decode
<1>2. /\ q0 \in Counts
      /\ ~f.stamped => q0.skipping = (m_bSkipping /\ ~f.type)
      /\ ~(f.stamped /\ m_bSkipping /\ ~f.key /\ ~f.type)
  BY <1>0, <1>1, LooksAtFrame
<1>3. q \in Counts
  BY <1>2, FreshIsTyped
<1>4. begins \in BOOLEAN /\ lacks \in BOOLEAN
  BY <1>0
<1>5. lacks => m_bSkipping /\ ~f.stamped
  BY <1>0, <1>2 DEF SkipsWhileBroken
<1>6. /\ wait \in Int
      /\ f.key => wait = 0
      /\ ~f.key /\ begins => wait = KeyWait - 1
      /\ ~f.key /\ ~begins /\ m_nWaitForKey \in 1 .. KeyWait => wait = m_nWaitForKey - 1
  BY <1>0, <1>4 DEF V!T!WaitForKey
<1>7. result \in {"delivered", "withheld", "failed"} /\ (result = "delivered" => wait = 0)
  OBVIOUS
<1>8. r \in Counts /\ r.skipping = q.skipping
  <2>1. q.decode \in Nat /\ q.changed \in BOOLEAN
    BY <1>3 DEF Counts
  <2>2. (took + 15 * q.decode) \div 16 \in Nat
    BY <2>1
  <2>3. (q.changed \/ result = "withheld") \in BOOLEAN
    BY <2>1
  <2> HIDE DEF q, result
  <2> QED
    BY <1>3, <2>1, <2>2, <2>3 DEF Counts
<1>9. ~newFormat => q = q0
  OBVIOUS
<1> HIDE DEF q0, q, begins, wait, result, lacks, r
<1>10. /\ waited' \in Nat /\ waited' <= KeyWait
       /\ waited' \in 1 .. KeyWait - 1 => wait = KeyWait - waited'
       /\ wait = 0 => waited' \in {0, KeyWait}
  <2>1. waited <= KeyWait /\ (waited \in 1 .. KeyWait - 1 => m_nWaitForKey = KeyWait - waited)
    BY DEF DecoderInv
  <2>2. CASE f.key
    BY <1>0, <1>1, <2>2
  <2>3. CASE ~f.key /\ begins
    BY <1>0, <1>1, <1>6, <2>3
  <2>4. CASE ~f.key /\ ~begins /\ waited \in 1 .. KeyWait - 1
    BY <1>0, <1>1, <1>6, <2>1, <2>4
  <2>5. CASE ~f.key /\ ~begins /\ waited \notin 1 .. KeyWait - 1
    BY <1>0, <1>1, <2>1, <2>5
  <2> QED
    BY <1>0, <1>4, <2>2, <2>3, <2>4, <2>5
<1>11. orphan' \in {"none", "untimed"}
  BY <1>1, <1>5
<1>12. V!T!TypeOK'
  <2>1. /\ m_itrLate' \in Int /\ m_nKeyFramePeriod' \in Nat /\ m_nFramesSinceKeyFrame' \in Nat
        /\ m_bSkipping' \in BOOLEAN /\ m_itrAvgDecode' \in Nat /\ m_bQualityChanged' \in BOOLEAN
    BY <1>1, <1>8, BecomesTyped
  <2>2. m_bSampleSkipped' \in BOOLEAN /\ broken' \in BOOLEAN /\ m_nWaitForKey' \in Int
    BY <1>1, <1>6
  <2>3. outcome' \in {"none", "skipped", "withheld", "delivered", "failed"}
    BY <1>1, <1>7
  <2> QED
    BY <1>10, <1>11, <2>1, <2>2, <2>3 DEF V!T!TypeOK
<1>13. DecoderInv'
  BY <1>1, <1>7, <1>10, <1>11, <1>12
  DEF DecoderInv, V!T!NothingDecodedInPieces, V!T!KeyIsAwaited
<1>14. ASSUME outcome' # "failed", broken' PROVE m_bSkipping'
  <2>1. lacks /\ ~newFormat
    BY <1>1, <1>14
  <2>2. m_bSkipping /\ ~f.stamped /\ ~f.type
    BY <1>5, <2>1 DEF lacks
  <2>3. q.skipping
    BY <1>2, <1>9, <2>1, <2>2
  <2> QED
    BY <1>1, <1>8, <2>3, BecomesTyped
<1> QED
  BY <1>13, <1>14 DEF SkipsWhileBroken

LEMMA StartStreamingKeepsInv ==
  ASSUME DecoderInv, V!T!StartStreaming
  PROVE  DecoderInv' /\ SkipsWhileBroken'
<1>1. V!T!Fresh(V!T!Held) \in Counts
  BY HeldIsTyped, FreshIsTyped DEF DecoderInv
<1>2. /\ V!T!Becomes(V!T!Fresh(V!T!Held)) /\ m_bSampleSkipped' = FALSE
      /\ broken' = FALSE
      /\ UNCHANGED <<m_nWaitForKey, outcome, waited, orphan>>
  BY DEF V!T!StartStreaming
<1>3. /\ m_itrLate' \in Int /\ m_nKeyFramePeriod' \in Nat /\ m_nFramesSinceKeyFrame' \in Nat
      /\ m_bSkipping' \in BOOLEAN /\ m_itrAvgDecode' \in Nat /\ m_bQualityChanged' \in BOOLEAN
  BY <1>1, <1>2, BecomesTyped
<1>4. /\ m_bSampleSkipped' \in BOOLEAN /\ broken' \in BOOLEAN /\ waited' = waited
      /\ m_nWaitForKey' = m_nWaitForKey /\ outcome' = outcome /\ orphan' = orphan
  BY <1>2
<1>5. V!T!TypeOK'
  BY <1>3, <1>4 DEF DecoderInv, V!T!TypeOK
<1> QED
  BY <1>2, <1>4, <1>5 DEF DecoderInv, V!T!NothingDecodedInPieces, V!T!KeyIsAwaited, SkipsWhileBroken

LEMMA AlterQualityKeepsInv ==
  ASSUME DecoderInv, SkipsWhileBroken, NEW late \in Int, V!T!AlterQuality(late)
  PROVE  DecoderInv' /\ SkipsWhileBroken'
BY DEF DecoderInv, V!T!TypeOK, V!T!NothingDecodedInPieces, V!T!KeyIsAwaited, SkipsWhileBroken,
       V!T!AlterQuality, V!T!Silly

-----------------------------------------------------------------------------
LEMMA QuotIsInt == \A a \in Int, b \in Nat \ {0} : V!R!Quot(a, b) \in Int
BY DEF V!R!Quot

LEMMA AverageIsInt == \A a, b \in Int : V!R!MovingAvg(a, b) \in Int
BY DEF V!R!MovingAvg, V!R!Quot

LEMMA BiasedIsInt == \A f \in VideoFrame : V!R!Biased(f) \in Int
BY DEF VideoFrame, V!R!Biased

LEMMA RendererIsTyped ==
  V!R!TypeOK <=>
    /\ m_trLastDraw \in Int /\ m_trRenderAvg \in Int /\ m_trRenderLast \in Int
    /\ m_trWaitAvg \in Int /\ m_trFrameAvg \in Int /\ m_trDuration \in Int
    /\ m_trEarliness \in Int /\ m_trLate \in Int /\ m_trFrame \in Int
    /\ m_iTotAcc \in Int /\ due \in Int
    /\ m_trThrottle \in Nat /\ m_cFramesDrawn \in Nat /\ m_cFramesDropped \in Nat
    /\ m_iSumSqAcc \in Nat /\ m_iSumFrameTime \in Nat /\ m_iSumSqFrameTime \in Nat
    /\ m_bDropped \in BOOLEAN /\ decision \in {"none", "now", "wait", "drop"}
BY DEF V!R!TypeOK

LEMMA RendererStaysTyped ==
  /\ m_trLastDraw' \in Int /\ m_trRenderAvg' \in Int /\ m_trRenderLast' \in Int
  /\ m_trWaitAvg' \in Int /\ m_trFrameAvg' \in Int /\ m_trDuration' \in Int
  /\ m_trEarliness' \in Int /\ m_trLate' \in Int /\ m_trFrame' \in Int
  /\ m_iTotAcc' \in Int /\ due' \in Int
  /\ m_trThrottle' \in Nat /\ m_cFramesDrawn' \in Nat /\ m_cFramesDropped' \in Nat
  /\ m_iSumSqAcc' \in Nat /\ m_iSumFrameTime' \in Nat /\ m_iSumSqFrameTime' \in Nat
  /\ m_bDropped' \in BOOLEAN /\ decision' \in {"none", "now", "wait", "drop"}
  => V!R!TypeOK'
BY DEF V!R!TypeOK

(* What ShouldDrawSampleNow decides: a frame is dropped only while the     *)
(* last one is on the screen for less than a second and drawing takes      *)
(* more than a third of the time between frames; otherwise m_trLastDraw is *)
(* when it will be drawn.                                                  *)
LEMMA Decides ==
  ASSUME V!R!TypeOK, NEW f \in VideoFrame, f.stop - f.start \in Nat, now \in Nat,
         NEW handling \in BOOLEAN, V!R!ScheduleSample(f, now, handling)
  PROVE  /\ V!R!TypeOK'
         /\ decision' \in {"now", "wait", "drop"}
         /\ decision' = "drop" =>
              /\ m_trLastDraw' = m_trLastDraw /\ now - m_trLastDraw <= 1000
              /\ ~(3 * m_trRenderAvg <= V!R!FrameAvg(f.stop - f.start))
              /\ m_trDuration' = (IF V!R!NewRate(f.stop - f.start) THEN f.stop - f.start
                                                                  ELSE m_trDuration)
         /\ decision' # "drop" => m_trLastDraw' = due'
         /\ UNCHANGED <<m_trRenderAvg, shown, m_cFramesDrawn, m_iTotAcc, m_iSumSqAcc,
                        m_iSumFrameTime, m_iSumSqFrameTime>>
<1> DEFINE start == V!R!Biased(f)
           late == now - start
           dur == f.stop - f.start
           justDropped == (handling /\ f.disc) \/ m_bDropped
<1>1. start \in Int /\ late \in Int /\ dur \in Nat /\ justDropped \in BOOLEAN
  BY BiasedIsInt, RendererIsTyped
<1>2. /\ m_trDuration' = (IF V!R!NewRate(dur) THEN dur ELSE m_trDuration)
      /\ IF V!R!WorthDrawing(late, dur, now, handling)
         THEN \/ V!R!DrawAtOnce(late, dur, now, justDropped)
              \/ V!R!DrawWhenDue(start, late, dur, now, justDropped)
         ELSE V!R!Drop(late, dur, justDropped)
      /\ m_cFramesDropped' = m_cFramesDropped + (IF decision' = "drop" THEN 1 ELSE 0)
      /\ m_trRenderAvg' = m_trRenderAvg /\ m_trRenderLast' = m_trRenderLast
      /\ m_trThrottle' = m_trThrottle /\ m_cFramesDrawn' = m_cFramesDrawn /\ shown' = shown
      /\ m_iTotAcc' = m_iTotAcc /\ m_iSumSqAcc' = m_iSumSqAcc
      /\ m_iSumFrameTime' = m_iSumFrameTime /\ m_iSumSqFrameTime' = m_iSumSqFrameTime
  BY DEF V!R!ScheduleSample, V!R!ShouldDrawSampleNow, V!R!statistics
<1> HIDE DEF start, late, dur, justDropped
<1>3. m_trDuration' \in Int /\ V!R!FrameAvg(dur) \in Int /\ m_cFramesDropped' \in Nat
  BY <1>1, <1>2, RendererIsTyped DEF V!R!FrameAvg
<1>4. /\ m_trRenderAvg' \in Int /\ m_trRenderLast' \in Int /\ m_iTotAcc' \in Int
      /\ m_trThrottle' \in Nat /\ m_cFramesDrawn' \in Nat
      /\ m_iSumSqAcc' \in Nat /\ m_iSumFrameTime' \in Nat /\ m_iSumSqFrameTime' \in Nat
  BY <1>2, RendererIsTyped
<1>5. V!R!Earliness(late, justDropped) \in Int
  BY <1>1, QuotIsInt, RendererIsTyped DEF V!R!Earliness
<1>6. CASE V!R!DrawAtOnce(late, dur, now, justDropped)
  <2>1. V!R!Lesser(now - m_trLastDraw, V!R!Second) \in Int
    BY RendererIsTyped DEF V!R!Lesser, V!R!Second
  <2>2. V!R!Lesser(V!R!Earliness(late, justDropped), late) \in Int
    BY <1>1, <1>5 DEF V!R!Lesser
  <2>3. /\ decision' = "now" /\ due' = now /\ m_bDropped' = FALSE
        /\ m_trLastDraw' = now /\ m_trLate' = late
        /\ m_trWaitAvg' \in Int /\ m_trFrameAvg' \in Int /\ m_trEarliness' \in Int
        /\ m_trFrame' \in Int
    BY <1>1, <1>3, <1>6, <2>1, <2>2, AverageIsInt, RendererIsTyped DEF V!R!DrawAtOnce, V!R!Prepare
  <2>4. m_trLastDraw' \in Int /\ due' \in Int /\ m_trLate' \in Int
    BY <1>1, <2>3
  <2>5. m_bDropped' \in BOOLEAN /\ decision' \in {"none", "now", "wait", "drop"}
    BY <2>3
  <2>6. V!R!TypeOK'
    BY <1>3, <1>4, <2>3, <2>4, <2>5, RendererStaysTyped
  <2> QED
    BY <1>2, <2>3, <2>6
<1>7. CASE V!R!DrawWhenDue(start, late, dur, now, justDropped)
  <2> DEFINE trE == V!R!Greater(V!R!Earliness(late, justDropped), -dur)
  <2>1. trE \in Int /\ V!R!Greater(-late, 0) \in Int
    BY <1>1, <1>5 DEF V!R!Greater
  <2>2. V!R!Lesser(now - m_trLastDraw, V!R!Second) \in Int
    BY RendererIsTyped DEF V!R!Lesser, V!R!Second
  <2>3. /\ m_bDropped' = FALSE
        /\ m_trFrameAvg' = dur /\ m_trEarliness' = V!R!Earliness(late, justDropped)
        /\ m_trWaitAvg' = V!R!MovingAvg(m_trWaitAvg, V!R!Greater(-late, 0))
        /\ IF late >= 0
           THEN /\ decision' = "now" /\ due' = now /\ m_trLastDraw' = now
                /\ m_trLate' = late /\ m_trFrame' = V!R!Lesser(now - m_trLastDraw, V!R!Second)
           ELSE /\ decision' = "wait" /\ due' = start + trE /\ m_trLastDraw' = start + trE
                /\ m_trLate' = trE /\ m_trFrame' = start + trE - m_trLastDraw
    BY <1>7 DEF V!R!DrawWhenDue, V!R!Prepare, V!R!PredictedDraw
  <2> HIDE DEF trE
  <2>4. m_trWaitAvg' \in Int
    BY <2>1, <2>3, AverageIsInt, RendererIsTyped
  <2>5. /\ decision' \in {"now", "wait"} /\ m_trLastDraw' = due' /\ due' \in Int
        /\ m_trLate' \in Int /\ m_trFrame' \in Int
    BY <1>1, <2>1, <2>2, <2>3, RendererIsTyped
  <2>6. m_trFrameAvg' \in Int /\ m_trEarliness' \in Int
    BY <1>1, <1>5, <2>3
  <2>7. m_bDropped' \in BOOLEAN /\ decision' \in {"none", "now", "wait", "drop"}
    BY <2>3, <2>5
  <2>8. V!R!TypeOK'
    BY <1>3, <1>4, <2>4, <2>5, <2>6, <2>7, RendererStaysTyped
  <2> QED
    BY <1>2, <2>5, <2>8
<1>8. CASE V!R!Drop(late, dur, justDropped) /\ ~V!R!WorthDrawing(late, dur, now, handling)
  <2>1. V!R!Greater(-late, 0) \in Int
    BY <1>1 DEF V!R!Greater
  <2>2. /\ decision' = "drop" /\ m_bDropped' = TRUE
        /\ m_trWaitAvg' = V!R!MovingAvg(m_trWaitAvg, V!R!Greater(-late, 0))
        /\ m_trFrameAvg' = V!R!FrameAvg(dur)
        /\ m_trEarliness' = V!R!Earliness(late, justDropped)
        /\ m_trLastDraw' = m_trLastDraw /\ m_trLate' = m_trLate /\ m_trFrame' = m_trFrame
        /\ due' = due
    BY <1>8 DEF V!R!Drop
  <2>3. m_trWaitAvg' \in Int
    BY <2>1, <2>2, AverageIsInt, RendererIsTyped
  <2>4. V!R!TypeOK'
    BY <1>3, <1>5, <1>4, <2>2, <2>3, RendererIsTyped, RendererStaysTyped
  <2>5. ~(3 * m_trRenderAvg <= V!R!FrameAvg(dur)) /\ ~(now - m_trLastDraw > 1000)
    BY <1>8 DEF V!R!WorthDrawing, V!R!Second
  <2>6. now - m_trLastDraw <= 1000
    BY <2>5, RendererIsTyped
  <2> QED
    BY <1>2, <2>2, <2>4, <2>5, <2>6 DEF dur
<1> QED
  BY <1>2, <1>6, <1>7, <1>8

-----------------------------------------------------------------------------
(* The sums are of so many values: the first two frames are left out of    *)
(* one pair, the first three of the other.                                 *)
Beyond(n) == IF m_cFramesDrawn > n THEN m_cFramesDrawn - n ELSE 0

SumsInv ==
  /\ m_iTotAcc * m_iTotAcc <= Beyond(2) * m_iSumSqAcc
  /\ m_iSumFrameTime * m_iSumFrameTime <= Beyond(3) * m_iSumSqFrameTime

LEMMA RecordKeepsSums ==
  ASSUME V!R!TypeOK, SumsInv, V!R!RecordFrameLateness
  PROVE  /\ SumsInv'
         /\ m_cFramesDrawn' \in Nat /\ m_iTotAcc' \in Int /\ m_iSumSqAcc' \in Nat
         /\ m_iSumFrameTime' \in Nat /\ m_iSumSqFrameTime' \in Nat
<1> DEFINE late == V!R!Clip(m_trLate)
           time == IF m_trFrame \in 0 .. 1000 THEN m_trFrame ELSE 1000
<1>1. late \in Int /\ time \in Nat
  BY RendererIsTyped DEF V!R!Clip
<1>2. /\ m_iTotAcc' = m_iTotAcc + (IF m_cFramesDrawn > 1 THEN late ELSE 0)
      /\ m_iSumSqAcc' = m_iSumSqAcc + (IF m_cFramesDrawn > 1 THEN late * late ELSE 0)
      /\ m_iSumFrameTime' = m_iSumFrameTime + (IF m_cFramesDrawn > 2 THEN time ELSE 0)
      /\ m_iSumSqFrameTime' = m_iSumSqFrameTime + (IF m_cFramesDrawn > 2 THEN time * time ELSE 0)
      /\ m_cFramesDrawn' = m_cFramesDrawn + 1
  BY DEF V!R!RecordFrameLateness
<1> HIDE DEF late, time
<1>3. late * late \in Nat /\ time * time \in Nat
  <2>1. ASSUME NEW x \in Int PROVE x * x \in Nat
    OBVIOUS
  <2> QED
    BY <1>1, <2>1
<1>4. /\ m_cFramesDrawn' \in Nat /\ m_iTotAcc' \in Int /\ m_iSumSqAcc' \in Nat
      /\ m_iSumFrameTime' \in Nat /\ m_iSumSqFrameTime' \in Nat
  BY <1>1, <1>2, <1>3, RendererIsTyped
<1>5. m_iTotAcc' * m_iTotAcc' <= Beyond(2)' * m_iSumSqAcc'
  <2>1. CASE m_cFramesDrawn > 1
    <3>1. Beyond(2) \in Nat /\ Beyond(2)' = Beyond(2) + 1
      BY <1>2, <2>1, RendererIsTyped DEF Beyond
    <3>2. m_iTotAcc' = m_iTotAcc + late /\ m_iSumSqAcc' = m_iSumSqAcc + late * late
      BY <1>2, <2>1
    <3>3. (m_iTotAcc + late) * (m_iTotAcc + late) <= (Beyond(2) + 1) * (m_iSumSqAcc + late * late)
      BY <1>1, <3>1, SumsKeepStep, RendererIsTyped DEF SumsInv
    <3> QED
      BY <3>1, <3>2, <3>3
  <2>2. CASE ~(m_cFramesDrawn > 1)
    <3>1. Beyond(2) = 0 /\ Beyond(2)' = 0
      BY <1>2, <2>2, RendererIsTyped DEF Beyond
    <3>2. m_iTotAcc' = m_iTotAcc /\ m_iSumSqAcc' = m_iSumSqAcc
      BY <1>2, <2>2, RendererIsTyped
    <3> QED
      BY <3>1, <3>2 DEF SumsInv
  <2> QED
    BY <2>1, <2>2
<1>6. m_iSumFrameTime' * m_iSumFrameTime' <= Beyond(3)' * m_iSumSqFrameTime'
  <2>1. CASE m_cFramesDrawn > 2
    <3>1. Beyond(3) \in Nat /\ Beyond(3)' = Beyond(3) + 1
      BY <1>2, <2>1, RendererIsTyped DEF Beyond
    <3>2. /\ m_iSumFrameTime' = m_iSumFrameTime + time
          /\ m_iSumSqFrameTime' = m_iSumSqFrameTime + time * time
      BY <1>2, <2>1
    <3>3. (m_iSumFrameTime + time) * (m_iSumFrameTime + time)
            <= (Beyond(3) + 1) * (m_iSumSqFrameTime + time * time)
      BY <1>1, <3>1, SumsKeepStep, RendererIsTyped DEF SumsInv
    <3> QED
      BY <3>1, <3>2, <3>3
  <2>2. CASE ~(m_cFramesDrawn > 2)
    <3>1. Beyond(3) = 0 /\ Beyond(3)' = 0
      BY <1>2, <2>2, RendererIsTyped DEF Beyond
    <3>2. m_iSumFrameTime' = m_iSumFrameTime /\ m_iSumSqFrameTime' = m_iSumSqFrameTime
      BY <1>2, <2>2, RendererIsTyped
    <3> QED
      BY <3>1, <3>2 DEF SumsInv
  <2> QED
    BY <2>1, <2>2
<1> QED
  BY <1>4, <1>5, <1>6 DEF SumsInv

LEMMA SumsAreReal == V!R!TypeOK /\ SumsInv => V!R!NoImaginaryJitter
<1> SUFFICES ASSUME V!R!TypeOK, SumsInv PROVE V!R!NoImaginaryJitter
  OBVIOUS
<1>1. /\ m_cFramesDrawn - 1 > 1 => m_iTotAcc * m_iTotAcc <= (m_cFramesDrawn - 1 - 1) * m_iSumSqAcc
      /\ m_cFramesDrawn - 2 > 1 =>
           m_iSumFrameTime * m_iSumFrameTime <= (m_cFramesDrawn - 2 - 1) * m_iSumSqFrameTime
  <2>1. m_cFramesDrawn - 1 > 1 => Beyond(2) = m_cFramesDrawn - 1 - 1
    BY RendererIsTyped DEF Beyond
  <2>2. m_cFramesDrawn - 2 > 1 => Beyond(3) = m_cFramesDrawn - 2 - 1
    BY RendererIsTyped DEF Beyond
  <2> QED
    BY <2>1, <2>2 DEF SumsInv
<1>2. V!R!Variance(m_cFramesDrawn - 1, m_iSumSqAcc, m_iTotAcc) >= 0
  <2>1. m_cFramesDrawn - 1 \in Int /\ m_iSumSqAcc \in Nat /\ m_iTotAcc \in Int
    BY RendererIsTyped
  <2> QED
    BY <1>1, <2>1, NotImaginary
<1>3. V!R!Variance(m_cFramesDrawn - 2, m_iSumSqFrameTime, m_iSumFrameTime) >= 0
  <2>1. m_cFramesDrawn - 2 \in Int /\ m_iSumSqFrameTime \in Nat /\ m_iSumFrameTime \in Int
    BY RendererIsTyped
  <2> QED
    BY <1>1, <2>1, NotImaginary
<1> QED
  BY <1>2, <1>3 DEF V!R!NoImaginaryJitter, V!R!DevSyncOffset, V!R!Jitter

FrameInv == frame \in VideoFrame /\ frame.stop - frame.start \in Nat

(* What is on the screen was drawn, or will be, no earlier than            *)
(* m_trLastDraw says.                                                      *)
PictureInv ==
  /\ now \in Nat /\ shown \in Int /\ shown <= now
  /\ pc # "draw" => m_trLastDraw <= shown
  /\ pc # "draw" /\ shown = -1 => m_trDuration = 0 /\ m_trRenderAvg = 0
  /\ pc = "draw" => decision \in {"now", "wait", "drop"}
  /\ pc = "draw" /\ decision = "drop" =>
       /\ m_trLastDraw <= shown /\ now - shown <= 1000
       /\ shown = -1 =>
            m_trDuration = 0 /\ m_trRenderAvg = 0 /\ frame.stop = frame.start
  /\ pc = "draw" /\ decision # "drop" => m_trLastDraw <= due

VideoInv ==
  /\ pc \in {"source", "receive", "renderer", "draw", "halted"}
  /\ pc # "halted" => SkipsWhileBroken
  /\ DecoderInv /\ V!R!TypeOK /\ SumsInv /\ FrameInv /\ PictureInv

LEMMA VideoInitially == V!Init => VideoInv
<1> SUFFICES ASSUME V!Init PROVE VideoInv
  OBVIOUS
<1>1. DecoderInv /\ SkipsWhileBroken
  <2>1. /\ m_bSkipping = FALSE /\ m_bQualityChanged = FALSE /\ m_bSampleSkipped = FALSE
        /\ broken = FALSE /\ orphan = "none" /\ outcome = "none" /\ waited = 0
    BY DEF V!Init, V!T!Init
  <2>2. /\ m_itrLate \in Int /\ m_nWaitForKey \in Int
        /\ m_nKeyFramePeriod \in Nat /\ m_nFramesSinceKeyFrame \in Nat /\ m_itrAvgDecode \in Nat
    BY VideoAssumption DEF V!Init, V!T!Init
  <2>3. V!T!TypeOK
    <3>1. /\ m_bSkipping \in BOOLEAN /\ m_bQualityChanged \in BOOLEAN
          /\ m_bSampleSkipped \in BOOLEAN /\ broken \in BOOLEAN /\ waited \in Nat
          /\ outcome \in {"none", "skipped", "withheld", "delivered", "failed"}
          /\ orphan \in {"none", "timed", "untimed"}
      BY <2>1
    <3> QED
      BY <2>2, <3>1 DEF V!T!TypeOK
  <2>4. V!T!NothingDecodedInPieces /\ V!T!KeyIsAwaited /\ SkipsWhileBroken
    BY <2>1 DEF V!T!NothingDecodedInPieces, V!T!KeyIsAwaited, SkipsWhileBroken
  <2> QED
    BY <2>1, <2>3, <2>4, VideoAssumption DEF DecoderInv
<1>2. V!R!TypeOK /\ SumsInv
  <2>1. m_bDropped \in BOOLEAN /\ decision \in {"none", "now", "wait", "drop"}
    BY DEF V!Init, V!R!Init
  <2>2. /\ m_trLastDraw = -1 /\ m_trRenderAvg = 0 /\ m_trRenderLast = 0 /\ m_trWaitAvg = 0
        /\ m_trFrameAvg = -1 /\ m_trDuration = 0 /\ m_trEarliness = 0 /\ m_trThrottle = 0
        /\ m_trLate = 0 /\ m_trFrame = 0 /\ m_cFramesDrawn = 0 /\ m_cFramesDropped = 0
        /\ m_iTotAcc = 0 /\ m_iSumSqAcc = 0 /\ m_iSumFrameTime = 0 /\ m_iSumSqFrameTime = 0
        /\ due = 0
    BY DEF V!Init, V!R!Init
  <2>3. SumsInv
    BY <2>2 DEF SumsInv, Beyond
  <2> QED
    BY <2>1, <2>2, <2>3, RendererIsTyped
<1>3. FrameInv
  BY DEF V!Init, V!First, V!Frame, FrameInv, VideoFrame
<1>4. PictureInv /\ pc = "source"
  BY DEF V!Init, V!R!Init, PictureInv
<1> QED
  BY <1>1, <1>2, <1>3, <1>4 DEF VideoInv

-----------------------------------------------------------------------------
(* The steps of the graph.                                                 *)

LEMMA SameDecoder ==
  ASSUME DecoderInv, UNCHANGED V!decoder
  PROVE  DecoderInv' /\ SkipsWhileBroken' = SkipsWhileBroken
BY DEF V!decoder, DecoderInv, V!T!TypeOK, V!T!NothingDecodedInPieces, V!T!KeyIsAwaited,
       SkipsWhileBroken

LEMMA SameRenderer ==
  ASSUME V!R!TypeOK, SumsInv, UNCHANGED V!renderer
  PROVE  /\ V!R!TypeOK' /\ SumsInv'
         /\ UNCHANGED <<m_trLastDraw, m_trDuration, m_trRenderAvg, shown, decision, due>>
BY DEF V!renderer, V!averages, V!shows, V!R!TypeOK, SumsInv, Beyond

LEMMA SendKeepsInv == VideoInv /\ V!Send => VideoInv'
<1> SUFFICES ASSUME VideoInv, V!Send PROVE VideoInv'
  OBVIOUS
<1>1. PICK dur \in Durations, key \in BOOLEAN, disc \in BOOLEAN, stamped \in BOOLEAN,
           type \in BOOLEAN :
        frame' = V!Frame(frame.stop, dur, key, disc, stamped, type)
  BY DEF V!Send
<1>2. pc = "source" /\ pc' = "receive" /\ UNCHANGED <<V!decoder, V!renderer, now>>
  BY DEF V!Send
<1>3. DecoderInv' /\ SkipsWhileBroken' /\ V!R!TypeOK' /\ SumsInv'
  BY <1>2, SameDecoder, SameRenderer DEF VideoInv
<1>4. PictureInv'
  BY <1>2, SameRenderer DEF VideoInv, PictureInv
<1>5. FrameInv'
  <2>1. frame' = [start |-> frame.stop, stop |-> frame.stop + dur, key |-> key, disc |-> disc,
                  stamped |-> stamped, type |-> type]
    BY <1>1 DEF V!Frame
  <2>2. frame.stop \in Int /\ dur \in Nat
    BY VideoAssumption DEF VideoInv, FrameInv, VideoFrame
  <2>3. frame' \in VideoFrame
    BY <2>1, <2>2 DEF VideoFrame
  <2>4. frame'.stop - frame'.start = dur
    BY <2>1, <2>2
  <2> QED
    BY <2>2, <2>3, <2>4 DEF FrameInv
<1> QED
  BY <1>2, <1>3, <1>4, <1>5 DEF VideoInv

LEMMA ReceiveKeepsInv == VideoInv /\ V!Receive => VideoInv'
<1> SUFFICES ASSUME VideoInv, V!Receive PROVE VideoInv'
  OBVIOUS
<1>1. /\ pc = "receive" /\ pc' \in {"renderer", "source", "halted"}
      /\ outcome' = "failed" => pc' = "halted"
      /\ UNCHANGED <<V!renderer, frame, sent>>
  BY DEF V!Receive
<1>2. frame \in VideoFrame /\ frame.stop - frame.start \in Nat /\ DecoderInv /\ SkipsWhileBroken
  BY <1>1 DEF VideoInv, FrameInv
<1>3. DecoderInv' /\ now' \in Nat /\ now <= now' /\ (outcome' # "failed" => SkipsWhileBroken')
  <2>1. CASE V!T!SkipFrame(frame) /\ UNCHANGED now
    BY <1>2, <2>1, SkipFrameKeepsInv DEF VideoInv, PictureInv
  <2>2. ASSUME NEW took \in DecodeTimes, NEW newFormat \in BOOLEAN, NEW answer \in V!Answers,
               V!T!Decode(frame, took, newFormat, answer), now' = now + took
        PROVE  /\ DecoderInv' /\ now' \in Nat /\ now <= now'
               /\ (outcome' # "failed" => SkipsWhileBroken')
    <3>1. /\ took \in Nat /\ now \in Nat
          /\ answer \in {"delivered", "withheld", "failed"}
      BY VideoAssumption DEF VideoInv, PictureInv, V!Answers
    <3>2. DecoderInv' /\ (outcome' # "failed" => SkipsWhileBroken')
      BY <1>2, <2>2, <3>1, DecodeKeepsInv
    <3> QED
      BY <2>2, <3>1, <3>2
  <2>3. ASSUME NEW newFormat \in BOOLEAN, V!T!Fail(frame, newFormat), now' = now
        PROVE  DecoderInv' /\ now' \in Nat /\ now <= now' /\ outcome' = "failed"
    BY <1>2, <2>3, FailKeepsInv DEF VideoInv, PictureInv
  <2> QED
    BY <2>1, <2>2, <2>3 DEF V!Receive
<1>4. V!R!TypeOK' /\ SumsInv'
  BY <1>1, SameRenderer DEF VideoInv
<1>5. FrameInv'
  BY <1>1 DEF VideoInv, FrameInv
<1>6. PictureInv'
  <2>1. /\ m_trLastDraw' = m_trLastDraw /\ m_trDuration' = m_trDuration
        /\ m_trRenderAvg' = m_trRenderAvg /\ shown' = shown
    BY <1>1, SameRenderer DEF VideoInv
  <2>2. pc # "draw" /\ pc' # "draw"
    BY <1>1
  <2>3. /\ m_trLastDraw <= shown /\ shown \in Int /\ shown <= now /\ now \in Nat
        /\ shown = -1 => m_trDuration = 0 /\ m_trRenderAvg = 0
    BY <2>2 DEF VideoInv, PictureInv
  <2>4. shown' \in Int /\ shown' <= now' /\ now' \in Nat
    BY <1>3, <2>1, <2>3
  <2>5. m_trLastDraw' <= shown'
    BY <2>1, <2>3
  <2>6. shown' = -1 => m_trDuration' = 0 /\ m_trRenderAvg' = 0
    BY <2>1, <2>3
  <2> QED
    BY <2>2, <2>4, <2>5, <2>6 DEF PictureInv
<1> QED
  BY <1>1, <1>3, <1>4, <1>5, <1>6 DEF VideoInv

LEMMA ScheduleKeepsInv == VideoInv /\ V!Schedule => VideoInv'
<1> SUFFICES ASSUME VideoInv, V!Schedule PROVE VideoInv'
  OBVIOUS
<1>1. /\ frame \in VideoFrame /\ frame.stop - frame.start \in Nat
      /\ now \in Nat /\ V!R!TypeOK /\ SumsInv
  BY DEF VideoInv, FrameInv, PictureInv
<1>2. PICK handling \in BOOLEAN :
        /\ IF frame.stamped THEN V!R!ScheduleSample(frame, now, handling)
           ELSE /\ decision' = "now" /\ due' = now
                /\ UNCHANGED <<V!averages, V!shows>>
        /\ IF handling \/ ~frame.stamped THEN UNCHANGED V!decoder
           ELSE V!T!AlterQuality(V!R!QualityLate(now - V!R!Biased(frame)))
  BY DEF V!Schedule
<1>3. pc = "renderer" /\ pc' = "draw" /\ UNCHANGED <<frame, sent, now>>
  BY DEF V!Schedule
<1>4. DecoderInv' /\ SkipsWhileBroken'
  <2>1. V!R!QualityLate(now - V!R!Biased(frame)) \in Int
    BY <1>1, BiasedIsInt, RendererIsTyped DEF V!R!QualityLate
  <2>2. DecoderInv /\ SkipsWhileBroken
    BY <1>3 DEF VideoInv
  <2> QED
    BY <1>2, <2>1, <2>2, SameDecoder, AlterQualityKeepsInv
<1>5. FrameInv'
  BY <1>3 DEF VideoInv, FrameInv
<1>6. /\ m_trLastDraw <= shown /\ shown \in Int /\ shown <= now /\ m_trLastDraw \in Int
      /\ shown = -1 => m_trDuration = 0 /\ m_trRenderAvg = 0
  BY <1>3, RendererIsTyped DEF VideoInv, PictureInv
<1>7. V!R!TypeOK' /\ SumsInv' /\ PictureInv'
  <2>1. CASE ~frame.stamped
    <3>1. /\ decision' = "now" /\ due' = now /\ UNCHANGED <<V!averages, V!shows>>
      BY <1>2, <2>1
    <3>2. V!R!TypeOK' /\ SumsInv' /\ m_trLastDraw' = m_trLastDraw /\ shown' = shown
      <4>1. /\ m_trRenderAvg' = m_trRenderAvg /\ m_trRenderLast' = m_trRenderLast
            /\ m_trWaitAvg' = m_trWaitAvg /\ m_trFrameAvg' = m_trFrameAvg
            /\ m_trDuration' = m_trDuration /\ m_trEarliness' = m_trEarliness
            /\ m_iTotAcc' = m_iTotAcc /\ m_iSumSqAcc' = m_iSumSqAcc
            /\ m_iSumFrameTime' = m_iSumFrameTime /\ m_iSumSqFrameTime' = m_iSumSqFrameTime
            /\ m_trLastDraw' = m_trLastDraw /\ m_bDropped' = m_bDropped
            /\ m_trLate' = m_trLate /\ m_trFrame' = m_trFrame
            /\ m_cFramesDrawn' = m_cFramesDrawn /\ m_cFramesDropped' = m_cFramesDropped
            /\ shown' = shown /\ m_trThrottle' = m_trThrottle
        BY <3>1 DEF V!averages, V!shows
      <4>2. m_bDropped' \in BOOLEAN /\ decision' \in {"none", "now", "wait", "drop"}
        BY <1>1, <3>1, <4>1, RendererIsTyped
      <4>3. V!R!TypeOK'
        BY <1>1, <3>1, <4>1, <4>2, RendererIsTyped, RendererStaysTyped
      <4>4. SumsInv'
        BY <1>1, <4>1 DEF SumsInv, Beyond
      <4> QED
        BY <4>1, <4>3, <4>4
    <3>3. PictureInv'
      BY <1>1, <1>3, <1>6, <3>1, <3>2 DEF PictureInv
    <3> QED
      BY <3>2, <3>3
  <2>2. CASE frame.stamped
    <3>1. /\ V!R!TypeOK'
          /\ decision' \in {"now", "wait", "drop"}
          /\ decision' = "drop" =>
               /\ m_trLastDraw' = m_trLastDraw /\ now - m_trLastDraw <= 1000
               /\ ~(3 * m_trRenderAvg <= V!R!FrameAvg(frame.stop - frame.start))
               /\ m_trDuration' = (IF V!R!NewRate(frame.stop - frame.start)
                                   THEN frame.stop - frame.start ELSE m_trDuration)
          /\ decision' # "drop" => m_trLastDraw' = due'
          /\ UNCHANGED <<m_trRenderAvg, shown, m_cFramesDrawn, m_iTotAcc, m_iSumSqAcc,
                         m_iSumFrameTime, m_iSumSqFrameTime>>
      BY <1>1, <1>2, <2>2, Decides
    <3>2. SumsInv'
      BY <1>1, <3>1 DEF SumsInv, Beyond
    <3>3. ASSUME decision' = "drop", shown = -1
          PROVE  m_trDuration' = 0 /\ m_trRenderAvg' = 0 /\ frame.stop = frame.start
      <4>1. m_trDuration = 0 /\ m_trRenderAvg = 0
        BY <1>6, <3>3
      <4>2. ASSUME frame.stop - frame.start > 0 PROVE FALSE
        <5>1. V!R!FrameAvg(frame.stop - frame.start) = frame.stop - frame.start
          BY <1>1, <4>1, <4>2 DEF V!R!FrameAvg, V!R!NewRate
        <5> QED
          BY <1>1, <3>1, <3>3, <4>1, <4>2, <5>1
      <4>3. frame.stop - frame.start = 0 /\ frame.stop \in Int /\ frame.start \in Int
        BY <1>1, <4>2 DEF VideoFrame
      <4> QED
        BY <3>1, <3>3, <4>1, <4>3
    <3>4. m_trLastDraw' \in Int /\ due' \in Int /\ now' = now /\ shown' = shown
      BY <1>3, <3>1 DEF V!R!TypeOK
    <3>5. frame' = frame
      BY <1>3
    <3>6. PictureInv'
      BY <1>1, <1>3, <1>6, <3>1, <3>3, <3>4, <3>5 DEF PictureInv
    <3> QED
      BY <3>1, <3>2, <3>6
  <2> QED
    BY <2>1, <2>2
<1> QED
  BY <1>3, <1>4, <1>5, <1>7 DEF VideoInv

LEMMA ShownKeepsInv ==
  ASSUME VideoInv, pc = "draw", decision # "drop", pc' = "source",
         UNCHANGED <<V!decoder, frame, sent>>,
         V!R!RecordFrameLateness, shown' = V!R!Greater(now, due), decision' = "none",
         now' \in Nat, V!R!Greater(now, due) <= now',
         m_trRenderAvg' \in Int, m_trRenderLast' \in Int,
         UNCHANGED <<m_trWaitAvg, m_trFrameAvg, m_trDuration, m_trEarliness, m_trLastDraw,
                     m_trThrottle, m_bDropped, m_trLate, m_trFrame, m_cFramesDropped, due>>
  PROVE  VideoInv'
<1>1. DecoderInv' /\ FrameInv' /\ SkipsWhileBroken'
  BY SameDecoder DEF VideoInv, FrameInv
<1>2. /\ SumsInv'
      /\ m_cFramesDrawn' \in Nat /\ m_iTotAcc' \in Int /\ m_iSumSqAcc' \in Nat
      /\ m_iSumFrameTime' \in Nat /\ m_iSumSqFrameTime' \in Nat
  BY RecordKeepsSums DEF VideoInv
<1>3. /\ m_trLastDraw' = m_trLastDraw /\ m_trWaitAvg' = m_trWaitAvg /\ due' = due
      /\ m_trFrameAvg' = m_trFrameAvg /\ m_trDuration' = m_trDuration
      /\ m_trEarliness' = m_trEarliness /\ m_trLate' = m_trLate /\ m_trFrame' = m_trFrame
      /\ m_trThrottle' = m_trThrottle /\ m_cFramesDropped' = m_cFramesDropped
  OBVIOUS
<1>4. m_bDropped' \in BOOLEAN
  BY RendererIsTyped DEF VideoInv
<1>5. V!R!TypeOK'
  <2>1. V!R!TypeOK
    BY DEF VideoInv
  <2> QED
    BY <1>2, <1>3, <1>4, <2>1, RendererIsTyped, RendererStaysTyped
<1>6. PictureInv'
  <2>1. now \in Nat /\ m_trLastDraw <= due /\ due \in Int /\ m_trLastDraw \in Int
    BY RendererIsTyped DEF VideoInv, PictureInv
  <2>2. V!R!Greater(now, due) \in Nat /\ m_trLastDraw <= V!R!Greater(now, due)
    BY <2>1 DEF V!R!Greater
  <2> QED
    BY <1>3, <2>1, <2>2 DEF PictureInv
<1> QED
  BY <1>1, <1>2, <1>5, <1>6 DEF VideoInv

LEMMA DrawsKeepInv == VideoInv /\ (V!Draw \/ V!DirectRender) => VideoInv'
<1> SUFFICES ASSUME VideoInv, V!Draw \/ V!DirectRender PROVE VideoInv'
  OBVIOUS
<1> DEFINE at == V!R!Greater(now, due)
<1>1. /\ at \in Nat /\ m_trThrottle \in Nat /\ m_trRenderAvg \in Int
      /\ m_trRenderLast \in Int
  BY RendererIsTyped DEF VideoInv, PictureInv, V!R!Greater
<1>2. ASSUME NEW took \in DrawTimes, V!R!Draw(at, took), now' = at + took + m_trThrottle,
             pc = "draw", decision # "drop", pc' = "source", UNCHANGED <<V!decoder, frame, sent>>
      PROVE  VideoInv'
  <2>1. took \in Nat
    BY VideoAssumption
  <2>2. now' \in Nat /\ at <= now'
    BY <1>1, <1>2, <2>1
  <2>3. m_trRenderAvg' \in Int /\ m_trRenderLast' \in Int
    BY <1>1, <1>2, <2>1, AverageIsInt DEF V!R!Draw
  <2>4. /\ V!R!RecordFrameLateness /\ shown' = at /\ decision' = "none"
        /\ UNCHANGED <<m_trWaitAvg, m_trFrameAvg, m_trDuration, m_trEarliness, m_trLastDraw,
                       m_trThrottle, m_bDropped, m_trLate, m_trFrame, m_cFramesDropped, due>>
    BY <1>2 DEF V!R!Draw
  <2> QED
    BY <1>2, <2>2, <2>3, <2>4, ShownKeepsInv
<1>3. ASSUME V!R!DirectRender(at), now' = at + m_trThrottle,
             pc = "draw", decision # "drop", pc' = "source", UNCHANGED <<V!decoder, frame, sent>>
      PROVE  VideoInv'
  <2>1. now' \in Nat /\ at <= now'
    BY <1>1, <1>3
  <2>2. m_trRenderAvg' \in Int /\ m_trRenderLast' \in Int
    BY <1>3 DEF V!R!DirectRender, V!R!Second
  <2>3. /\ V!R!RecordFrameLateness /\ shown' = at /\ decision' = "none"
        /\ UNCHANGED <<m_trWaitAvg, m_trFrameAvg, m_trDuration, m_trEarliness, m_trLastDraw,
                       m_trThrottle, m_bDropped, m_trLate, m_trFrame, m_cFramesDropped, due>>
    BY <1>3 DEF V!R!DirectRender
  <2> QED
    BY <1>3, <2>1, <2>2, <2>3, ShownKeepsInv
<1> QED
  BY <1>2, <1>3 DEF V!Draw, V!DirectRender

LEMMA ForgetKeepsInv == VideoInv /\ V!Forget => VideoInv'
<1> SUFFICES ASSUME VideoInv, V!Forget PROVE VideoInv'
  OBVIOUS
<1>1. /\ pc = "draw" /\ decision = "drop" /\ pc' = "source"
      /\ UNCHANGED <<V!decoder, V!renderer, frame, sent, now>>
  BY DEF V!Forget
<1>2. DecoderInv' /\ SkipsWhileBroken' /\ V!R!TypeOK' /\ SumsInv' /\ FrameInv'
  BY <1>1, SameDecoder, SameRenderer DEF VideoInv, FrameInv
<1>3. /\ m_trLastDraw' = m_trLastDraw /\ shown' = shown /\ m_trDuration' = m_trDuration
      /\ m_trRenderAvg' = m_trRenderAvg
  BY <1>1, SameRenderer DEF VideoInv
<1>4. PictureInv'
  BY <1>1, <1>3 DEF VideoInv, PictureInv
<1> QED
  BY <1>1, <1>2, <1>4 DEF VideoInv

LEMMA ThrottleKeepsInv == VideoInv /\ V!Throttle => VideoInv'
<1> SUFFICES ASSUME VideoInv, V!Throttle PROVE VideoInv'
  OBVIOUS
<1>1. pc = "source" /\ V!R!Notify(500) /\ UNCHANGED <<V!decoder, pc, frame, sent, now>>
  BY DEF V!Throttle
<1>2. m_trThrottle' \in Nat
  BY <1>1 DEF V!R!Notify, V!R!Throttle
<1>3. /\ m_trRenderAvg' = m_trRenderAvg /\ m_trRenderLast' = m_trRenderLast
      /\ m_trWaitAvg' = m_trWaitAvg /\ m_trFrameAvg' = m_trFrameAvg
      /\ m_trDuration' = m_trDuration /\ m_trEarliness' = m_trEarliness
      /\ m_iTotAcc' = m_iTotAcc /\ m_iSumSqAcc' = m_iSumSqAcc
      /\ m_iSumFrameTime' = m_iSumFrameTime /\ m_iSumSqFrameTime' = m_iSumSqFrameTime
      /\ m_trLastDraw' = m_trLastDraw /\ m_bDropped' = m_bDropped /\ m_trLate' = m_trLate
      /\ m_trFrame' = m_trFrame /\ m_cFramesDrawn' = m_cFramesDrawn
      /\ m_cFramesDropped' = m_cFramesDropped /\ decision' = decision /\ due' = due
      /\ shown' = shown
  BY <1>1 DEF V!R!Notify, V!R!averages, V!R!statistics
<1>4. V!R!TypeOK' /\ SumsInv'
  <2>1. V!R!TypeOK /\ SumsInv
    BY DEF VideoInv
  <2>2. SumsInv'
    BY <1>3, <2>1 DEF SumsInv, Beyond
  <2>3. m_bDropped' \in BOOLEAN /\ decision' \in {"none", "now", "wait", "drop"}
    BY <1>3, <2>1, RendererIsTyped
  <2>4. V!R!TypeOK'
    BY <1>2, <1>3, <2>1, <2>3, RendererIsTyped, RendererStaysTyped
  <2> QED
    BY <2>2, <2>4
<1>5. DecoderInv' /\ FrameInv' /\ SkipsWhileBroken'
  BY <1>1, SameDecoder DEF VideoInv, FrameInv
<1>6. PictureInv'
  BY <1>1, <1>3 DEF VideoInv, PictureInv
<1> QED
  BY <1>1, <1>4, <1>5, <1>6 DEF VideoInv

LEMMA FlushKeepsInv == VideoInv /\ V!Flush => VideoInv'
<1> SUFFICES ASSUME VideoInv, V!Flush PROVE VideoInv'
  OBVIOUS
<1>1. /\ V!T!StartStreaming /\ UNCHANGED <<V!renderer, frame, sent, now>>
      /\ pc \in {"source", "halted"} /\ pc' = "source"
  BY DEF V!Flush
<1>2. DecoderInv' /\ SkipsWhileBroken'
  BY <1>1, StartStreamingKeepsInv DEF VideoInv
<1>3. V!R!TypeOK' /\ SumsInv' /\ FrameInv'
  BY <1>1, SameRenderer DEF VideoInv, FrameInv
<1>4. /\ m_trLastDraw' = m_trLastDraw /\ m_trDuration' = m_trDuration
      /\ m_trRenderAvg' = m_trRenderAvg /\ shown' = shown /\ decision' = decision
      /\ due' = due
  BY <1>1, SameRenderer DEF VideoInv
<1>5. PictureInv'
  BY <1>1, <1>4 DEF VideoInv, PictureInv
<1> QED
  BY <1>1, <1>2, <1>3, <1>5 DEF VideoInv

LEMMA RestartKeepsInv == VideoInv /\ V!Restart => VideoInv'
<1> SUFFICES ASSUME VideoInv, V!Restart PROVE VideoInv'
  OBVIOUS
<1>1. /\ V!R!ResetStreamingTimes /\ V!T!StartStreaming
      /\ pc' = "source" /\ now' = 0 /\ frame' = V!Frame(0, 0, TRUE, FALSE, TRUE, FALSE)
  BY DEF V!Restart, V!First
<1>2. DecoderInv' /\ SkipsWhileBroken'
  BY <1>1, StartStreamingKeepsInv DEF VideoInv
<1>3. /\ m_trLastDraw' = -1 /\ m_trRenderAvg' = 0 /\ m_trRenderLast' = 0 /\ m_trWaitAvg' = 0
      /\ m_trFrameAvg' = -1 /\ m_trDuration' = 0 /\ m_trEarliness' = 0 /\ m_trThrottle' = 0
      /\ m_trLate' = 0 /\ m_trFrame' = 0 /\ m_cFramesDrawn' = 0 /\ m_cFramesDropped' = 0
      /\ m_iTotAcc' = 0 /\ m_iSumSqAcc' = 0 /\ m_iSumFrameTime' = 0
      /\ m_iSumSqFrameTime' = 0 /\ due' = 0 /\ shown' = -1
  BY <1>1 DEF V!R!ResetStreamingTimes
<1>4. m_bDropped' \in BOOLEAN /\ decision' \in {"none", "now", "wait", "drop"}
  BY <1>1 DEF V!R!ResetStreamingTimes
<1>5. V!R!TypeOK'
  BY <1>3, <1>4, RendererStaysTyped
<1>6. SumsInv'
  BY <1>3 DEF SumsInv, Beyond
<1>7. FrameInv'
  BY <1>1 DEF V!Frame, FrameInv, VideoFrame
<1>8. PictureInv'
  BY <1>1, <1>3 DEF PictureInv
<1> QED
  BY <1>1, <1>2, <1>5, <1>6, <1>7, <1>8 DEF VideoInv

LEMMA VideoStepKeepsInv == VideoInv /\ [V!Next]_videoVars => VideoInv'
<1> SUFFICES ASSUME VideoInv, [V!Next]_videoVars PROVE VideoInv'
  OBVIOUS
<1>1. CASE V!Next
  BY <1>1, SendKeepsInv, ReceiveKeepsInv, ScheduleKeepsInv, DrawsKeepInv, ForgetKeepsInv,
     ThrottleKeepsInv, FlushKeepsInv, RestartKeepsInv DEF V!Next
<1>2. CASE UNCHANGED videoVars
  <2>1. UNCHANGED <<V!decoder, V!renderer, pc, frame, sent, now>>
    BY <1>2 DEF videoVars, V!decoder, V!renderer, V!averages, V!shows
  <2>2. /\ DecoderInv' /\ SkipsWhileBroken' = SkipsWhileBroken /\ V!R!TypeOK' /\ SumsInv' /\ FrameInv'
        /\ UNCHANGED <<m_trLastDraw, m_trDuration, m_trRenderAvg, shown, decision, due>>
    BY <2>1, SameDecoder, SameRenderer DEF VideoInv, FrameInv
  <2>3. PictureInv'
    BY <2>1, <2>2 DEF VideoInv, PictureInv
  <2> QED
    BY <2>1, <2>2, <2>3 DEF VideoInv
<1> QED
  BY <1>1, <1>2

(* Whatever the decoder and the renderer have come to think of their       *)
(* supply: a frame with times is never decoded without one it needs, after *)
(* a discontinuity or a new output format nothing is shown before a key    *)
(* frame or KeyWait frames, a frame is dropped only within a second of     *)
(* another that was shown, or of the start, and the property page takes no *)
(* root of a negative number.  For any durations (also none) and times,    *)
(* any number of frames, with times or without, and wherever a type        *)
(* changes, a call fails or else what is unusual happens.                  *)
THEOREM VideoIsSafe == ObjectsSpec => []VideoSafety
<1>1. ObjectsInit => VideoInv
  BY VideoInitially DEF ObjectsInit
<1>2. VideoInv /\ [ObjectsNext]_allVars => VideoInv'
  <2> SUFFICES ASSUME VideoInv, [ObjectsNext]_allVars PROVE VideoInv'
    OBVIOUS
  <2>1. [V!Next]_videoVars
    BY DEF ObjectsNext, allVars
  <2> QED
    BY <2>1, VideoStepKeepsInv
<1>3. VideoInv => VideoSafety
  <2> SUFFICES ASSUME VideoInv
               PROVE  /\ V!TypeOK /\ V!NothingDecodedInPieces /\ V!KeyIsAwaited
                      /\ V!NothingHangs /\ V!NoImaginaryJitter
    BY DEF VideoSafety
  <2>1. V!TypeOK /\ V!NothingDecodedInPieces /\ V!KeyIsAwaited
    BY DEF VideoInv, DecoderInv, V!TypeOK, V!NothingDecodedInPieces, V!KeyIsAwaited
  <2>2. V!NothingHangs
    BY DEF VideoInv, PictureInv, V!NothingHangs, V!R!Second
  <2>3. V!NoImaginaryJitter
    BY SumsAreReal DEF VideoInv, V!NoImaginaryJitter
  <2> QED
    BY <2>1, <2>2, <2>3
<1> QED
  BY <1>1, <1>2, <1>3, PTL DEF ObjectsSpec

(***************************************************************************)
(* The lists                                                               *)
(***************************************************************************)

(* The lists of the run behave as lists do by themselves, and so all that  *)
(* Lists_proofs shows of these holds of the objects.                       *)
THEOREM ObjectsKeepLists == ObjectsSpec => ListsSpec /\ []ListSafety /\ DoesWhatItSays
<1>1. ObjectsInit => L!Init
  BY DEF ObjectsInit
<1>2. [ObjectsNext]_allVars => [L!Next]_listVars
  BY DEF ObjectsNext, allVars
<1>3. ObjectsSpec => ListsSpec
  BY <1>1, <1>2, PTL DEF ObjectsSpec, ListsSpec
<1> QED BY <1>3, ListsAreSafe, ListsDoWhatTheySay
=============================================================================
