--------------------------- MODULE PeerSetProofs ---------------------------
(***************************************************************************)
(* The safety properties of the list of peers, for any number of peers,    *)
(* of goroutines and of events.                                            *)
(*  - PeersBounded is inductive once adding is known to be finite.         *)
(*  - StoppedIsRemoved needs that a peer enters the list once, before      *)
(*    anybody can stop it (ListInv, QuitInv), and that a goroutine begins  *)
(*    no walk while it is on another (WalkInv), or the removal it is on    *)
(*    would be forgotten.                                                  *)
(***************************************************************************)
EXTENDS PeerSet, DataLemmas

(* The variables besides the list and the walks.                           *)
FieldsInv ==
    /\ adding \subseteq Peer
    /\ conn \in [Peer -> {"none", "nil", "up", "broken"}]
    /\ connected \in [Peer -> 0 .. 1]
    /\ disconnect \in [Peer -> 0 .. 2]
    /\ versionKnown \in [Peer -> BOOLEAN]
    /\ quit \subseteq Peer
    /\ queue \in [Peer -> 0 .. QueueSize]
    /\ in \in [Peer -> {"none", "run", "done"}]
    /\ out \in [Peer -> {"none", "run", "done"}]
    /\ cut \subseteq Peer
    /\ events \in 0 .. MaxEvents
    /\ panicked \in BOOLEAN

(* A peer is in the list once, and never before it has a connection: one   *)
(* that goroutines are about to add is not in it.                          *)
ListInv ==
    /\ peers \in Seq(Peer)
    /\ IsInjective(peers)
    /\ \A i \in 1 .. Len(peers) : conn[peers[i]] # "none"
    /\ IsFiniteSet(adding)
    /\ \A p \in adding : conn[p] = "none"

(* Walks stand on peers that have been in the list, and only goroutines    *)
(* that run are on one.                                                    *)
Kind  == {"none", "broadcast", "reap", "remove", "close", "stop"}
Place == Peer \cup {NoPeer}
Walks0 == [kind : Kind, at : Place, target : Place]

WalkInv ==
    /\ walk \in [Walker -> Walks0]
    /\ \A t \in Walker : walk[t].at # NoPeer => conn[walk[t].at] # "none"
    /\ \A p \in Peer : in[p] = "none" => walk[In(p)].kind = "none"

(* Whoever was stopped has had a connection, or has tried.                 *)
QuitInv == \A p \in quit : conn[p] # "none"

IInv == FieldsInv /\ ListInv /\ WalkInv /\ QuitInv

(* Walks that remove their target from the list.                           *)
Removing == {"remove", "close"}

-----------------------------------------------------------------------------
(* The goroutines of a peer walk, and are no servers.                      *)
LEMMA Goroutines ==
  ASSUME NEW p \in Peer
  PROVE  /\ In(p) \in Walker /\ Out(p) \in Walker
         /\ In(p) \notin Server /\ Out(p) \notin Server
         /\ \A q \in Peer : In(p) # Out(q)
         /\ \A q \in Peer : In(p) = In(q) => p = q
BY PeerAssumption DEF In, Out, Walker

(* list.Front and Element.Next return an element of the list, or nil.      *)
LEMMA FirstPeerInList ==
  ASSUME peers \in Seq(Peer)
  PROVE  /\ FirstPeer \in Place
         /\ FirstPeer # NoPeer => \E i \in 1 .. Len(peers) : peers[i] = FirstPeer
<1>1. CASE peers = <<>>
  BY <1>1 DEF FirstPeer, Place
<1>2. CASE peers # <<>>
  <2>1. 1 \in 1 .. Len(peers) /\ peers[1] \in Peer
    BY <1>2, EmptySeq, LenProperties, ElementOfSeq
  <2> QED
    BY <1>2, <2>1 DEF FirstPeer, Place
<1> QED
  BY <1>1, <1>2

(* The next element is a peer of the list, or there is none.               *)
LEMMA NextInList ==
  ASSUME NEW l \in Seq(Peer), NEW p
  PROVE  /\ NextIn(l, p) \in Place
         /\ NextIn(l, p) # NoPeer => \E i \in 1 .. Len(l) : l[i] = NextIn(l, p)
<1>1. CASE \E i \in 1 .. Len(l) - 1 : l[i] = p
  <2> DEFINE j == CHOOSE i \in 1 .. Len(l) - 1 : l[i] = p
  <2>1. j \in 1 .. Len(l) - 1
    BY <1>1
  <2>2. NextIn(l, p) = l[1 + j]
    BY <1>1 DEF NextIn
  <2> HIDE DEF j
  <2>3. 1 + j \in 1 .. Len(l)
    BY <2>1, LenProperties
  <2> QED
    BY <2>2, <2>3, ElementOfSeq DEF Place
<1>2. CASE ~(\E i \in 1 .. Len(l) - 1 : l[i] = p)
  BY <1>2 DEF NextIn, Place
<1> QED
  BY <1>1, <1>2

(* list.Remove leaves elements of the list, each of them once.             *)
LEMMA WithoutProperties ==
  ASSUME NEW l \in Seq(Peer), IsInjective(l), NEW p
  PROVE  /\ Without(l, p) \in Seq(Peer)
         /\ IsInjective(Without(l, p))
         /\ Len(Without(l, p)) <= Len(l)
         /\ \A i \in 1 .. Len(Without(l, p)) :
               \E j \in 1 .. Len(l) : Without(l, p)[i] = l[j]
<1>0. Len(l) \in Nat /\ DOMAIN l = 1 .. Len(l)
  BY LenProperties
<1>1. CASE \E i \in DOMAIN l : l[i] = p
  <2> DEFINE k == CHOOSE i \in DOMAIN l : l[i] = p
             r == RemoveAt(l, k)
  <2>1. k \in 1 .. Len(l)
    BY <1>0, <1>1
  <2>2. Without(l, p) = r
    BY <1>1 DEF Without
  <2> HIDE DEF k
  <2>3. /\ r \in Seq(Peer)
        /\ Len(r) = Len(l) - 1
        /\ \A j \in 1 .. Len(l) - 1 : r[j] = IF j < k THEN l[j] ELSE l[j + 1]
    BY <2>1, RemoveAtProperties
  <2> HIDE DEF r
  <2>4. DOMAIN r = 1 .. Len(l) - 1
    BY <2>3, LenProperties
  <2>5. ASSUME NEW i \in 1 .. Len(r)
        PROVE  \E j \in 1 .. Len(l) : r[i] = l[j]
    <3>1. i \in 1 .. Len(l) /\ i + 1 \in 1 .. Len(l)
      BY <1>0, <2>3
    <3> QED
      BY <2>3, <3>1
  <2>6. ASSUME NEW a \in DOMAIN r, NEW b \in DOMAIN r, r[a] = r[b]
        PROVE  a = b
    <3> DEFINE at(j) == IF j < k THEN j ELSE j + 1
    <3>1. at(a) \in DOMAIN l /\ at(b) \in DOMAIN l
      BY <1>0, <2>4, <2>1
    <3>2. l[at(a)] = l[at(b)]
      BY <2>3, <2>4, <2>6
    <3>3. at(a) = at(b)
      BY <3>1, <3>2 DEF IsInjective
    <3> QED
      BY <3>3, <2>1, <2>4, <1>0
  <2> QED
    BY <1>0, <2>2, <2>3, <2>5, <2>6 DEF IsInjective
<1>2. CASE ~(\E i \in DOMAIN l : l[i] = p)
  BY <1>0, <1>2 DEF Without
<1> QED
  BY <1>1, <1>2

(* Appending a new element keeps a list free of repetitions.               *)
LEMMA AppendInjectiveNew ==
  ASSUME NEW l \in Seq(Peer), IsInjective(l), NEW p \in Peer,
         \A i \in 1 .. Len(l) : l[i] # p
  PROVE  IsInjective(Append(l, p))
<1>1. /\ Append(l, p) \in Seq(Peer)
      /\ Len(Append(l, p)) = Len(l) + 1
      /\ \A i \in 1 .. Len(l) : Append(l, p)[i] = l[i]
      /\ Append(l, p)[Len(l) + 1] = p
  BY AppendProperties
<1>2. DOMAIN Append(l, p) = 1 .. Len(l) + 1 /\ DOMAIN l = 1 .. Len(l) /\ Len(l) \in Nat
  BY <1>1, LenProperties
<1> DEFINE m == Append(l, p)
<1> HIDE DEF m
<1>3. ASSUME NEW a \in 1 .. Len(l) + 1, NEW b \in 1 .. Len(l) + 1, m[a] = m[b]
      PROVE  a = b
  <2>1. CASE a = Len(l) + 1
    BY <2>1, <1>1, <1>2, <1>3 DEF m
  <2>2. CASE b = Len(l) + 1
    BY <2>2, <1>1, <1>2, <1>3 DEF m
  <2>3. CASE a # Len(l) + 1 /\ b # Len(l) + 1
    <3>1. a \in 1 .. Len(l) /\ b \in 1 .. Len(l)
      BY <2>3, <1>2
    <3> QED
      BY <3>1, <1>1, <1>2, <1>3 DEF IsInjective, m
  <2> QED
    BY <2>1, <2>2, <2>3
<1> QED
  BY <1>2, <1>3 DEF IsInjective, m

-----------------------------------------------------------------------------
(* What the shared parts of actions do.                                    *)

(* Walking touches the one walker.                                         *)
LEMMA WalksUpdate ==
  ASSUME WalkInv, NEW t \in Walker, NEW kind \in Kind, NEW at \in Place, NEW target \in Place,
         Walks(t, Walk(kind, at, target))
  PROVE  /\ walk' \in [Walker -> Walks0]
         /\ walk'[t].kind = kind /\ walk'[t].at = at /\ walk'[t].target = target
         /\ \A u \in Walker \ {t} : walk'[u] = walk[u]
<1>1. Walk(kind, at, target) \in Walks0
  BY DEF Walk, Walks0
<1>2. walk' = [walk EXCEPT ![t] = Walk(kind, at, target)]
  BY DEF Walks
<1>3. walk'[t] = Walk(kind, at, target)
  BY <1>2 DEF WalkInv
<1> QED
  BY <1>1, <1>2, <1>3 DEF WalkInv, Walk

(* A message is queued where there is room for it.                         *)
LEMMA QueueStaysBounded ==
  ASSUME FieldsInv, NEW p \in Peer, QueueMessage(p)
  PROVE  queue' \in [Peer -> 0 .. QueueSize]
<1>1. CASE connected[p] = 1
  <2>1. queue[p] \in 0 .. QueueSize /\ queue[p] < QueueSize
        /\ queue' = [queue EXCEPT ![p] = queue[p] + 1]
    BY <1>1 DEF QueueMessage, FieldsInv
  <2>2. queue[p] + 1 \in 0 .. QueueSize
    BY <2>1, PeerAssumption
  <2> QED
    BY <2>1, <2>2 DEF FieldsInv
<1>2. CASE connected[p] # 1
  BY <1>2 DEF QueueMessage, FieldsInv
<1> QED
  BY <1>1, <1>2

(* Peer.Start leaves room for nothing but the handshake.                   *)
LEMMA StartFields ==
  ASSUME FieldsInv, NEW p \in Peer, Start(p)
  PROVE  /\ conn' \in [Peer -> {"none", "nil", "up", "broken"}]
         /\ connected' \in [Peer -> 0 .. 1]
         /\ queue' \in [Peer -> 0 .. QueueSize]
         /\ in' \in [Peer -> {"none", "run", "done"}]
         /\ out' \in [Peer -> {"none", "run", "done"}]
         /\ conn'[p] = "up" /\ in'[p] = "run"
         /\ \A q \in Peer \ {p} : conn'[q] = conn[q] /\ in'[q] = in[q]
<1>1. 1 \in 0 .. QueueSize
  BY PeerAssumption
<1> QED
  BY <1>1 DEF FieldsInv, Start

(* Peer.Stop: what FirstStop and StopAgain do to the fields.               *)
StopsOnly(p) ==
    /\ conn' \in [Peer -> {"none", "nil", "up", "broken"}]
    /\ connected' = connected /\ versionKnown' = versionKnown
    /\ disconnect' \in [Peer -> 0 .. 2]
    /\ quit' \subseteq quit \cup {p}
    /\ panicked' \in BOOLEAN
    /\ \A q \in Peer : conn[q] # "none" => conn'[q] # "none"
    /\ \A q \in Peer \ {p} : conn'[q] = conn[q]
    /\ connected[p] = 0 => conn' = conn

(* The first stop of a peer touches its own fields.                        *)
LEMMA FirstStopFields ==
  ASSUME FieldsInv, NEW p \in Peer, NEW t, NEW kind, FirstStop(t, kind, p)
  PROVE  StopsOnly(p)
<1>1. /\ conn' = IF connected[p] = 1 THEN [conn EXCEPT ![p] = "broken"] ELSE conn
      /\ disconnect' = [disconnect EXCEPT ![p] = IF WriteFails(p) THEN 2 ELSE 1]
      /\ quit' = quit \cup {p}
      /\ UNCHANGED <<connected, versionKnown>>
  BY DEF FirstStop
<1>2. disconnect' \in [Peer -> 0 .. 2]
  BY <1>1 DEF FieldsInv
<1>3. panicked' \in BOOLEAN
  <2>1. panicked' = (p \in quit)
    BY DEF FirstStop
  <2> QED
    BY <2>1
<1> QED
  BY <1>1, <1>2, <1>3 DEF FieldsInv, StopsOnly

(* Stopping a peer again touches nothing of it.                            *)
LEMMA StopAgainFields ==
  ASSUME FieldsInv, NEW p \in Peer, StopAgain(p)
  PROVE  StopsOnly(p) /\ UNCHANGED <<conn, quit>>
<1>1. panicked' \in BOOLEAN
  BY DEF StopAgain, FieldsInv
<1> QED
  BY <1>1 DEF FieldsInv, StopAgain, StopsOnly

(* Either touches nothing but the peer.                                    *)
LEMMA StopFields ==
  ASSUME FieldsInv, NEW p \in Peer, NEW t, Stop(t, p)
  PROVE  StopsOnly(p)
BY FirstStopFields, StopAgainFields DEF Stop

(* A failing write stops the peer it writes to.                            *)
LEMMA WriteFields ==
  ASSUME FieldsInv, NEW p \in Peer, writeMessage(p)
  PROVE  StopsOnly(p)
<1>1. CASE Stop(Out(p), p)
  BY <1>1, StopFields
<1>2. CASE UNCHANGED <<fields, walk, panicked>>
  <2>1. panicked' \in BOOLEAN
    BY <1>2 DEF FieldsInv
  <2> QED
    BY <1>2, <2>1 DEF FieldsInv, fields, StopsOnly
<1> QED
  BY <1>1, <1>2 DEF writeMessage

(* The walk of a goroutine stands on a peer.                               *)
LEMMA Standing ==
  ASSUME WalkInv, NEW t \in Walker, NEW kind, At(t, kind)
  PROVE  walk[t].at \in Peer /\ walk[t].kind = kind
BY DEF WalkInv, Walks0, Place, At

-----------------------------------------------------------------------------
(* The types of the fields, action by action.                              *)
LEMMA EventBounded ==
  ASSUME FieldsInv, Event
  PROVE  events' \in 0 .. MaxEvents
BY PeerAssumption DEF FieldsInv, Event

(* A step of a peer keeps the types of the fields.                         *)
LEMMA PeerStepFields ==
  ASSUME FieldsInv, WalkInv, NEW p \in Peer,
         \/ FindRoom(p) \/ PushBack(p) \/ Dialed(p) \/ DialFails(p) \/ Break(p)
         \/ Read(p) \/ ReadDisc(p) \/ InboundEnds(p) \/ Outbound(p) \/ Service(p)
  PROVE  FieldsInv'
<1> USE DEF fields
<1>1. CASE FindRoom(p)
  BY <1>1 DEF FindRoom, FieldsInv
<1>2. CASE PushBack(p)
  <2>1. CASE p \in Inbound
    <3>1. Start(p) /\ UNCHANGED <<disconnect, versionKnown, quit, cut, panicked, events>>
          /\ adding' = adding \ {p}
      BY <1>2, <2>1 DEF PushBack
    <3>2. /\ conn' \in [Peer -> {"none", "nil", "up", "broken"}]
          /\ connected' \in [Peer -> 0 .. 1]
          /\ queue' \in [Peer -> 0 .. QueueSize]
          /\ in' \in [Peer -> {"none", "run", "done"}]
          /\ out' \in [Peer -> {"none", "run", "done"}]
      BY <3>1, StartFields
    <3> QED
      BY <3>1, <3>2 DEF FieldsInv
  <2>2. CASE p \notin Inbound
    BY <1>2, <2>2 DEF PushBack, FieldsInv
  <2> QED
    BY <2>1, <2>2
<1>3. CASE Dialed(p)
  <2>1. /\ conn' \in [Peer -> {"none", "nil", "up", "broken"}]
        /\ connected' \in [Peer -> 0 .. 1]
        /\ queue' \in [Peer -> 0 .. QueueSize]
        /\ in' \in [Peer -> {"none", "run", "done"}]
        /\ out' \in [Peer -> {"none", "run", "done"}]
    BY <1>3, StartFields DEF Dialed
  <2>2. disconnect' \in [Peer -> 0 .. 2]
    BY <1>3 DEF Dialed, FieldsInv
  <2> QED
    BY <1>3, <2>1, <2>2 DEF Dialed, FieldsInv
<1>4. CASE DialFails(p)
  <2>1. StopsOnly(p)
    BY <1>4, StopFields DEF DialFails
  <2>2. UNCHANGED <<adding, queue, out, cut, events>> /\ in' = [in EXCEPT ![p] = "done"]
    BY <1>4 DEF DialFails
  <2> QED
    BY <2>1, <2>2 DEF FieldsInv, StopsOnly
<1>5. CASE Break(p)
  <2>1. events' \in 0 .. MaxEvents
    BY <1>5, EventBounded DEF Break
  <2> QED
    BY <1>5, <2>1 DEF Break, FieldsInv
<1>6. CASE Read(p)
  <2>1. queue' \in [Peer -> 0 .. QueueSize]
    BY <1>6, QueueStaysBounded DEF Read
  <2>2. versionKnown' \in [Peer -> BOOLEAN]
    BY <1>6 DEF Read, FieldsInv
  <2> QED
    BY <1>6, <2>1, <2>2 DEF Read, FieldsInv
<1>7. CASE ReadDisc(p)
  <2>1. StopsOnly(p)
    BY <1>7, FirstStopFields DEF ReadDisc
  <2>2. events' \in 0 .. MaxEvents
    BY <1>7, EventBounded DEF ReadDisc
  <2> QED
    BY <1>7, <2>1, <2>2 DEF ReadDisc, FieldsInv, StopsOnly
<1>8. CASE InboundEnds(p)
  <2>1. StopsOnly(p)
    BY <1>8, StopAgainFields DEF InboundEnds
  <2> QED
    BY <1>8, <2>1 DEF InboundEnds, FieldsInv, StopsOnly
<1>9. CASE Write(p)
  <2>1. StopsOnly(p)
    BY <1>9, WriteFields DEF Write
  <2>2. queue[p] > 0 /\ queue' = [queue EXCEPT ![p] = queue[p] - 1]
    BY <1>9 DEF Write
  <2>3. queue[p] - 1 \in 0 .. QueueSize
    BY <2>2, PeerAssumption DEF FieldsInv
  <2>4. queue' \in [Peer -> 0 .. QueueSize]
    BY <2>2, <2>3 DEF FieldsInv
  <2> QED
    BY <1>9, <2>1, <2>4 DEF Write, FieldsInv, StopsOnly
<1>10. CASE Ping(p)
  <2>1. StopsOnly(p)
    BY <1>10, StopFields DEF Ping
  <2> QED
    BY <1>10, <2>1 DEF Ping, FieldsInv, StopsOnly
<1>11. CASE OutboundEnds(p)
  <2>1. 0 \in 0 .. QueueSize
    BY PeerAssumption
  <2> QED
    BY <1>11, <2>1 DEF OutboundEnds, FieldsInv
<1>12. CASE Service(p)
  <2>1. events' \in 0 .. MaxEvents
    BY <1>12, EventBounded DEF Service
  <2> QED
    BY <1>12, <2>1 DEF Service, FieldsInv
<1> QED
  BY <1>1, <1>2, <1>3, <1>4, <1>5, <1>6, <1>7, <1>8, <1>9, <1>10, <1>11, <1>12 DEF Outbound

(* So does the beginning of a walk.                                        *)
LEMMA BeginFields ==
  ASSUME FieldsInv, NEW t, NEW kind, Begin(t, kind)
  PROVE  FieldsInv'
<1>1. events' \in 0 .. MaxEvents
  BY EventBounded DEF Begin
<1> QED
  BY <1>1 DEF Begin, FieldsInv, fields

(* And so does a step of one.                                              *)
LEMMA WalkStepFields ==
  ASSUME FieldsInv, ListInv, WalkInv, NEW t \in Walker, WalkStep(t)
  PROVE  FieldsInv'
<1> USE DEF fields
<1>1. CASE VisitBroadcast(t)
  <2>1. walk[t].at \in Peer
    BY <1>1, Standing DEF VisitBroadcast
  <2>2. queue' \in [Peer -> 0 .. QueueSize]
    BY <1>1, <2>1, QueueStaysBounded DEF VisitBroadcast
  <2> QED
    BY <1>1, <2>2 DEF VisitBroadcast, FieldsInv
<1>2. CASE VisitReap(t)
  BY <1>2 DEF VisitReap, FieldsInv
<1>3. CASE VisitRemove(t)
  BY <1>3 DEF VisitRemove, FieldsInv
<1>4. CASE VisitStop(t)
  <2>1. walk[t].at \in Peer
    BY <1>4, Standing DEF VisitStop
  <2>2. StopsOnly(walk[t].at)
    BY <1>4, <2>1, FirstStopFields, StopAgainFields DEF VisitStop
  <2> QED
    BY <1>4, <2>1, <2>2 DEF VisitStop, FieldsInv, StopsOnly
<1>5. CASE WalkEnds(t)
  <2>1. cut' \subseteq Peer
    <3>1. CASE Listed(walk[t].target) /\ walk[t].kind \in Removing
      <4>1. walk[t].target \in Peer
        BY <3>1, ElementOfSeq, LenProperties DEF Listed, ListInv
      <4> QED
        BY <1>5, <4>1 DEF WalkEnds, FieldsInv
    <3>2. CASE ~(Listed(walk[t].target) /\ walk[t].kind \in Removing)
      BY <1>5, <3>2 DEF WalkEnds, FieldsInv, Removing
    <3> QED
      BY <3>1, <3>2
  <2> QED
    BY <1>5, <2>1 DEF WalkEnds, FieldsInv
<1> QED
  BY <1>1, <1>2, <1>3, <1>4, <1>5 DEF WalkStep

-----------------------------------------------------------------------------
(* What becomes of connections and readers.  Only a peer that has a        *)
(* connection, or is being dialled, can be stopped.                        *)
Kept ==
    /\ \A q \in Peer : conn[q] # "none" => conn'[q] # "none"
    /\ \A q \in Peer : in'[q] = "none" => in[q] = "none"
    /\ \A q \in quit' : q \in quit \/ conn[q] # "none"

(* No connection comes about either.                                       *)
Settled == Kept /\ \A q \in Peer : conn[q] = "none" => conn'[q] = "none"

(* Stopping makes no connection.                                           *)
LEMMA StopSettles ==
  ASSUME FieldsInv, NEW p \in Peer, conn[p] # "none", StopsOnly(p),
         in' = in \/ in' = [in EXCEPT ![p] = "done"]
  PROVE  Settled
<1>1. \A q \in Peer : in'[q] = "none" => in[q] = "none"
  BY DEF FieldsInv
<1>2. \A q \in quit' : q \in quit \/ conn[q] # "none"
  BY DEF StopsOnly
<1>3. \A q \in Peer : conn[q] = "none" => conn'[q] = "none"
  BY DEF StopsOnly
<1> QED
  BY <1>1, <1>2, <1>3 DEF StopsOnly, Settled, Kept

(* Entering the list connects that peer and no other.                      *)
LEMMA PushBackKeeps ==
  ASSUME FieldsInv, NEW p \in Peer, PushBack(p)
  PROVE  /\ Kept
         /\ conn'[p] # "none"
         /\ \A q \in Peer \ {p} : conn'[q] = conn[q]
<1>1. CASE p \in Inbound
  BY <1>1, StartFields DEF PushBack, Kept
<1>2. CASE p \notin Inbound
  BY <1>2 DEF PushBack, Kept, FieldsInv
<1> QED
  BY <1>1, <1>2

(* No other step of a peer makes a connection.                             *)
LEMMA PeerStepSettles ==
  ASSUME FieldsInv, WalkInv, NEW p \in Peer,
         \/ FindRoom(p) \/ Dialed(p) \/ DialFails(p) \/ Break(p)
         \/ Read(p) \/ ReadDisc(p) \/ InboundEnds(p) \/ Outbound(p) \/ Service(p)
  PROVE  Settled
<1> USE DEF fields
<1>1. CASE FindRoom(p)
  BY <1>1 DEF FindRoom, Settled, Kept
<1>2. CASE Dialed(p)
  <2>1. /\ conn[p] = "nil" /\ conn'[p] = "up" /\ in'[p] = "run"
        /\ \A q \in Peer \ {p} : conn'[q] = conn[q] /\ in'[q] = in[q]
    BY <1>2, StartFields DEF Dialed
  <2> QED
    BY <1>2, <2>1 DEF Dialed, Settled, Kept
<1>3. CASE DialFails(p)
  BY <1>3, StopFields, StopSettles DEF DialFails
<1>4. CASE Break(p)
  BY <1>4 DEF Break, Settled, Kept, FieldsInv
<1>5. CASE Read(p)
  BY <1>5 DEF Read, Settled, Kept
<1>6. CASE ReadDisc(p)
  <2>1. conn[p] # "none" /\ UNCHANGED in /\ StopsOnly(p)
    BY <1>6, FirstStopFields DEF ReadDisc, Reading
  <2> QED
    BY <2>1, StopSettles
<1>7. CASE InboundEnds(p)
  <2>1. UNCHANGED <<conn, quit>> /\ in' = [in EXCEPT ![p] = "done"]
    BY <1>7, StopAgainFields DEF InboundEnds
  <2> QED
    BY <2>1 DEF Settled, Kept, FieldsInv
<1>8. CASE Write(p)
  <2>1. CASE conn[p] = "broken"
    <3>1. StopsOnly(p) /\ UNCHANGED in
      BY <1>8, WriteFields DEF Write
    <3> QED
      BY <2>1, <3>1, StopSettles
  <2>2. CASE conn[p] # "broken"
    BY <1>8, <2>2 DEF Write, writeMessage, Settled, Kept
  <2> QED
    BY <2>1, <2>2
<1>9. CASE Ping(p)
  <2>1. conn[p] = "broken" /\ StopsOnly(p) /\ UNCHANGED in
    BY <1>9, StopFields DEF Ping
  <2> QED
    BY <2>1, StopSettles
<1>10. CASE OutboundEnds(p)
  BY <1>10 DEF OutboundEnds, Settled, Kept
<1>11. CASE Service(p)
  BY <1>11 DEF Service, Settled, Kept
<1> QED
  BY <1>1, <1>2, <1>3, <1>4, <1>5, <1>6, <1>7, <1>8, <1>9, <1>10, <1>11 DEF Outbound

(* Nor does a step of a walk.                                              *)
LEMMA WalkStepSettles ==
  ASSUME FieldsInv, WalkInv, NEW t \in Walker, WalkStep(t)
  PROVE  Settled
<1> USE DEF fields
<1>1. CASE VisitStop(t)
  <2>1. walk[t].at \in Peer /\ conn[walk[t].at] # "none"
    BY <1>1, Standing DEF VisitStop, At, WalkInv
  <2>2. StopsOnly(walk[t].at)
    BY <1>1, <2>1, FirstStopFields, StopAgainFields DEF VisitStop
  <2> QED
    BY <1>1, <2>1, <2>2, StopSettles DEF VisitStop
<1>2. CASE VisitBroadcast(t) \/ VisitReap(t) \/ VisitRemove(t) \/ WalkEnds(t)
  BY <1>2 DEF VisitBroadcast, VisitReap, VisitRemove, WalkEnds, Settled, Kept
<1> QED
  BY <1>1, <1>2 DEF WalkStep

(* Nor does its beginning.                                                 *)
LEMMA BeginSettles ==
  ASSUME NEW t, NEW kind, Begin(t, kind)
  PROVE  Settled
BY DEF Begin, fields, Settled, Kept

-----------------------------------------------------------------------------
(* The list.                                                               *)

(* While the list and the peers about to enter it stay, so does ListInv.   *)
LEMMA ListSame ==
  ASSUME FieldsInv, ListInv, Settled, UNCHANGED <<peers, adding>>
  PROVE  ListInv'
<1>1. \A i \in 1 .. Len(peers) : peers[i] \in Peer
  BY ElementOfSeq DEF ListInv
<1> QED
  BY <1>1 DEF ListInv, Settled, Kept, FieldsInv

(* The list without a peer is as good and no longer.                       *)
LEMMA ListWithout ==
  ASSUME FieldsInv, ListInv, NEW p, peers' = Without(peers, p), UNCHANGED <<conn, adding>>
  PROVE  ListInv' /\ Len(peers') <= Len(peers)
<1>1. /\ peers' \in Seq(Peer)
      /\ IsInjective(peers')
      /\ Len(peers') <= Len(peers)
      /\ \A i \in 1 .. Len(peers') : \E j \in 1 .. Len(peers) : peers'[i] = peers[j]
  BY WithoutProperties DEF ListInv
<1>2. \A i \in 1 .. Len(peers') : conn'[peers'[i]] # "none"
  BY <1>1 DEF ListInv
<1> QED
  BY <1>1, <1>2 DEF ListInv

(* Finding room reserves one place.                                        *)
LEMMA FindRoomList ==
  ASSUME FieldsInv, ListInv, NEW p \in Peer, FindRoom(p)
  PROVE  ListInv' /\ Cardinality(adding') = Cardinality(adding) + 1
<1>1. /\ UNCHANGED <<peers, conn>>
      /\ conn[p] = "none" /\ p \notin adding
      /\ adding' = adding \cup {p}
  BY DEF FindRoom, fields
<1>2. IsFiniteSet(adding') /\ Cardinality(adding') = Cardinality(adding) + 1
  BY <1>1, FS_AddElement DEF ListInv
<1> QED
  BY <1>1, <1>2 DEF ListInv

(* Entering the list fills the place that was reserved.                    *)
LEMMA PushBackList ==
  ASSUME FieldsInv, ListInv, NEW p \in Peer, PushBack(p)
  PROVE  /\ ListInv'
         /\ peers' = Append(peers, p)
         /\ Len(peers') = Len(peers) + 1
         /\ Cardinality(adding') = Cardinality(adding) - 1
<1>1. p \in adding /\ peers' = Append(peers, p) /\ adding' = adding \ {p}
  BY DEF PushBack
<1>2. conn[p] = "none"
  BY <1>1 DEF ListInv
<1>3. IsFiniteSet(adding') /\ Cardinality(adding') = Cardinality(adding) - 1
  BY <1>1, FS_RemoveElement DEF ListInv
<1>4. /\ peers' \in Seq(Peer)
      /\ Len(peers') = Len(peers) + 1
      /\ \A i \in 1 .. Len(peers) : peers'[i] = peers[i]
      /\ peers'[Len(peers) + 1] = p
  BY <1>1, AppendProperties DEF ListInv
<1>5. IsInjective(peers')
  BY <1>1, <1>2, AppendInjectiveNew DEF ListInv
<1>6. conn'[p] # "none" /\ \A q \in Peer \ {p} : conn'[q] = conn[q]
  BY PushBackKeeps, StartFields DEF PushBack, FieldsInv
<1>7. ASSUME NEW i \in 1 .. Len(peers') PROVE conn'[peers'[i]] # "none"
  <2>1. CASE i = Len(peers) + 1
    BY <2>1, <1>4, <1>6
  <2>2. CASE i # Len(peers) + 1
    <3>1. i \in 1 .. Len(peers)
      BY <2>2, <1>4, LenProperties DEF ListInv
    <3> QED
      BY <3>1, <1>4, <1>6, ElementOfSeq DEF ListInv
  <2> QED
    BY <2>1, <2>2
<1>8. \A q \in adding' : conn'[q] = "none"
  BY <1>1, <1>6 DEF ListInv, FieldsInv
<1> QED
  BY <1>1, <1>3, <1>4, <1>5, <1>7, <1>8 DEF ListInv

(* A step of a peer keeps the list good.                                   *)
LEMMA PeerStepList ==
  ASSUME FieldsInv, ListInv, WalkInv, NEW p \in Peer,
         \/ FindRoom(p) \/ PushBack(p) \/ Dialed(p) \/ DialFails(p) \/ Break(p)
         \/ Read(p) \/ ReadDisc(p) \/ InboundEnds(p) \/ Outbound(p) \/ Service(p)
  PROVE  ListInv'
<1>1. CASE FindRoom(p)
  BY <1>1, FindRoomList
<1>2. CASE PushBack(p)
  BY <1>2, PushBackList
<1>3. CASE \/ Dialed(p) \/ DialFails(p) \/ Break(p) \/ Read(p) \/ ReadDisc(p)
           \/ InboundEnds(p) \/ Outbound(p) \/ Service(p)
  <2>1. Settled
    BY <1>3, PeerStepSettles
  <2>2. UNCHANGED <<peers, adding>>
    BY <1>3 DEF Dialed, DialFails, Break, Read, ReadDisc, InboundEnds, Outbound, Write,
                Ping, OutboundEnds, Service
  <2> QED
    BY <2>1, <2>2, ListSame
<1> QED
  BY <1>1, <1>2, <1>3

(* A walk only removes from the list.                                      *)
LEMMA WalkStepList ==
  ASSUME FieldsInv, ListInv, WalkInv, NEW t \in Walker, WalkStep(t)
  PROVE  /\ ListInv' /\ Len(peers') <= Len(peers) /\ UNCHANGED adding
         /\ \A i \in 1 .. Len(peers') : \E j \in 1 .. Len(peers) : peers'[i] = peers[j]
<1>0. Len(peers) \in Nat
  BY LenProperties DEF ListInv
<1>1. CASE UNCHANGED peers
  <2>1. UNCHANGED adding
    BY DEF WalkStep, VisitBroadcast, VisitReap, VisitRemove, VisitStop, WalkEnds
  <2> QED
    BY <1>0, <1>1, <2>1, WalkStepSettles, ListSame
<1>2. CASE ~UNCHANGED peers
  <2>1. VisitReap(t) \/ VisitRemove(t)
    BY <1>2 DEF WalkStep, VisitBroadcast, VisitStop, WalkEnds
  <2>2. peers' = Without(peers, walk[t].at) /\ UNCHANGED <<conn, adding>>
    BY <1>2, <2>1 DEF VisitReap, VisitRemove, removePeerElement, fields
  <2> QED
    BY <2>2, ListWithout, WithoutProperties DEF ListInv
<1> QED
  BY <1>1, <1>2

-----------------------------------------------------------------------------
(* The walks.                                                              *)

(* No goroutine begins a walk or takes a step of one.                      *)
LEMMA WalkSame ==
  ASSUME WalkInv, Kept, UNCHANGED walk
  PROVE  WalkInv'
<1>1. \A t \in Walker : walk[t].at \in Peer \cup {NoPeer}
  BY DEF WalkInv, Walks0, Place
<1> QED
  BY <1>1 DEF WalkInv, Kept

(* One goroutine does, and it is none whose peer has not started.          *)
LEMMA WalkUpdated ==
  ASSUME WalkInv, Kept, NEW t \in Walker, NEW kind \in Kind, NEW at \in Place,
         NEW target \in Place, Walks(t, Walk(kind, at, target)),
         at # NoPeer => conn'[at] # "none",
         \A p \in Peer : in'[p] = "none" => t # In(p)
  PROVE  WalkInv'
<1>1. /\ walk' \in [Walker -> Walks0]
      /\ walk'[t].at = at
      /\ \A u \in Walker \ {t} : walk'[u] = walk[u]
  BY WalksUpdate
<1>2. ASSUME NEW u \in Walker, walk'[u].at # NoPeer
      PROVE  conn'[walk'[u].at] # "none"
  <2>1. CASE u = t
    BY <1>1, <1>2, <2>1
  <2>2. CASE u # t
    <3>1. walk'[u] = walk[u] /\ walk[u].at \in Peer
      BY <1>1, <1>2, <2>2 DEF WalkInv, Walks0, Place
    <3> QED
      BY <1>2, <3>1 DEF WalkInv, Kept
  <2> QED
    BY <2>1, <2>2
<1>3. ASSUME NEW p \in Peer, in'[p] = "none"
      PROVE  walk'[In(p)].kind = "none"
  <2>1. In(p) \in Walker /\ In(p) # t /\ in[p] = "none"
    BY <1>3, Goroutines DEF Kept
  <2> QED
    BY <1>1, <2>1 DEF WalkInv
<1> QED
  BY <1>1, <1>2, <1>3 DEF WalkInv

(* Walks begin at the front, which is an element or nil.                   *)
LEMMA FrontConnected ==
  ASSUME ListInv, Kept
  PROVE  FirstPeer \in Place /\ (FirstPeer # NoPeer => conn'[FirstPeer] # "none")
<1>1. \A i \in 1 .. Len(peers) : peers[i] \in Peer /\ conn[peers[i]] # "none"
  BY ElementOfSeq DEF ListInv
<1>2. FirstPeer # NoPeer => \E i \in 1 .. Len(peers) : peers[i] = FirstPeer
  BY FirstPeerInList DEF ListInv
<1>3. FirstPeer \in Place
  BY FirstPeerInList DEF ListInv
<1> QED
  BY <1>1, <1>2, <1>3 DEF Kept

(* Where a walk goes next, somebody is connected.                          *)
LEMMA NextConnected ==
  ASSUME ListInv, Kept, NEW l \in Seq(Peer), NEW p,
         \A i \in 1 .. Len(l) : \E j \in 1 .. Len(peers) : l[i] = peers[j]
  PROVE  NextIn(l, p) \in Place /\ (NextIn(l, p) # NoPeer => conn'[NextIn(l, p)] # "none")
<1>1. \A i \in 1 .. Len(peers) : peers[i] \in Peer /\ conn[peers[i]] # "none"
  BY ElementOfSeq DEF ListInv
<1>2. NextIn(l, p) # NoPeer => \E i \in 1 .. Len(l) : l[i] = NextIn(l, p)
  BY NextInList
<1>3. NextIn(l, p) \in Place
  BY NextInList
<1> QED
  BY <1>1, <1>2, <1>3 DEF Kept

(* What a goroutine of the peer p does to its walk: nothing, or it begins  *)
(* one at the front.                                                       *)
Begins(t) ==
    \/ UNCHANGED walk
    \/ \E kind \in Kind, p \in Place :
          Walks(t, Walk(kind, FirstPeer, p)) /\ walk[t].kind = "none"

(* The first stop of a peer begins the walk that removes it.               *)
LEMMA FirstStopBegins ==
  ASSUME NEW t, NEW p \in Peer, FirstStop(t, "remove", p), walk[t].kind = "none"
  PROVE  Begins(t)
BY DEF FirstStop, RemovePeer, Begins, Kind, Place

(* Any stop begins that walk or none.                                      *)
LEMMA StopBegins ==
  ASSUME NEW t, NEW p \in Peer, Stop(t, p), walk[t].kind = "none"
  PROVE  Begins(t)
<1>1. CASE FirstStop(t, "remove", p)
  BY <1>1, FirstStopBegins
<1>2. CASE StopAgain(p) /\ UNCHANGED walk
  BY <1>2 DEF Begins
<1> QED
  BY <1>1, <1>2 DEF Stop

(* So does a step of a peer, with one of its own two walkers.              *)
LEMMA PeerStepBegins ==
  ASSUME FieldsInv, WalkInv, NEW p \in Peer,
         \/ FindRoom(p) \/ PushBack(p) \/ Dialed(p) \/ DialFails(p) \/ Break(p)
         \/ Read(p) \/ ReadDisc(p) \/ InboundEnds(p) \/ Outbound(p) \/ Service(p)
  PROVE  Begins(Out(p)) \/ (Begins(In(p)) /\ in'[p] # "none")
<1>1. CASE \/ FindRoom(p) \/ PushBack(p) \/ Dialed(p) \/ Break(p) \/ Read(p)
           \/ InboundEnds(p) \/ OutboundEnds(p)
  BY <1>1 DEF FindRoom, PushBack, Dialed, Break, Read, InboundEnds, OutboundEnds, Begins
<1>2. CASE DialFails(p)
  <2>1. Stop(In(p), p) /\ walk[In(p)].kind = "none"
    BY <1>2 DEF DialFails, WalkInv
  <2>2. in'[p] # "none"
    BY <1>2 DEF DialFails, FieldsInv
  <2> QED
    BY <2>1, <2>2, StopBegins
<1>3. CASE ReadDisc(p)
  <2>1. FirstStop(In(p), "remove", p) /\ walk[In(p)].kind = "none"
    BY <1>3 DEF ReadDisc, Reading, Idle
  <2>2. in'[p] # "none"
    BY <1>3 DEF ReadDisc, Reading
  <2> QED
    BY <2>1, <2>2, FirstStopBegins
<1>4. CASE Write(p)
  <2>1. walk[Out(p)].kind = "none" /\ writeMessage(p)
    BY <1>4 DEF Write, Draining, Idle
  <2>2. CASE Stop(Out(p), p)
    BY <2>1, <2>2, StopBegins
  <2>3. CASE UNCHANGED walk
    BY <2>3 DEF Begins
  <2> QED
    BY <2>1, <2>2, <2>3 DEF writeMessage
<1>5. CASE Ping(p)
  BY <1>5, StopBegins DEF Ping, Draining, Idle
<1>6. CASE Service(p)
  BY <1>6 DEF Service, Draining, Idle, Begins, Kind, Place
<1> QED
  BY <1>1, <1>2, <1>3, <1>4, <1>5, <1>6 DEF Outbound

(* A walk that begins is as good as any.                                   *)
LEMMA BeginsWalk ==
  ASSUME ListInv, WalkInv, Kept, NEW t \in Walker, Begins(t),
         \A p \in Peer : in'[p] = "none" => t # In(p)
  PROVE  WalkInv'
<1>1. CASE UNCHANGED walk
  BY <1>1, WalkSame
<1>2. CASE \E kind \in Kind, p \in Place : Walks(t, Walk(kind, FirstPeer, p))
  <2>1. PICK kind \in Kind, p \in Place : Walks(t, Walk(kind, FirstPeer, p))
    BY <1>2
  <2> QED
    BY <2>1, FrontConnected, WalkUpdated
<1> QED
  BY <1>1, <1>2 DEF Begins

(* A step of a peer keeps the walks good.                                  *)
LEMMA PeerStepWalk ==
  ASSUME FieldsInv, ListInv, WalkInv, NEW p \in Peer,
         \/ FindRoom(p) \/ PushBack(p) \/ Dialed(p) \/ DialFails(p) \/ Break(p)
         \/ Read(p) \/ ReadDisc(p) \/ InboundEnds(p) \/ Outbound(p) \/ Service(p)
  PROVE  WalkInv'
<1>1. Kept
  BY PeerStepSettles, PushBackKeeps DEF Settled
<1>2. CASE Begins(Out(p))
  BY <1>1, <1>2, Goroutines, BeginsWalk
<1>3. CASE Begins(In(p)) /\ in'[p] # "none"
  <2>1. \A q \in Peer : in'[q] = "none" => In(p) # In(q)
    BY <1>3, Goroutines
  <2> QED
    BY <1>1, <1>3, <2>1, Goroutines, BeginsWalk
<1> QED
  BY <1>2, <1>3, PeerStepBegins

(* The beginning of a walk of the server keeps them good.                  *)
LEMMA BeginWalk ==
  ASSUME FieldsInv, ListInv, WalkInv, NEW t \in Server, NEW kind \in Kind, Begin(t, kind)
  PROVE  WalkInv' /\ Begins(t)
<1>1. Kept /\ t \in Walker /\ \A p \in Peer : t # In(p)
  BY BeginSettles, Goroutines DEF Settled, Walker
<1>2. Begins(t)
  BY DEF Begin, Idle, Begins, Place
<1> QED
  BY <1>1, <1>2, BeginsWalk

(* A goroutine on a walk is not that of a peer that has not started.       *)
LEMMA WalkingStarted ==
  ASSUME WalkInv, Kept, NEW t \in Walker, walk[t].kind # "none",
         NEW p \in Peer, in'[p] = "none"
  PROVE  t # In(p)
BY DEF WalkInv, Kept

(* One step along the list: the kind and the target of a walk stay.        *)
LEMMA AdvanceWalk ==
  ASSUME ListInv, WalkInv, Kept, NEW t \in Walker, walk[t].kind # "none",
         NEW l \in Seq(Peer), Advance(t, l),
         \A i \in 1 .. Len(l) : \E j \in 1 .. Len(peers) : l[i] = peers[j]
  PROVE  /\ WalkInv'
         /\ walk'[t].kind = walk[t].kind /\ walk'[t].target = walk[t].target
         /\ \A u \in Walker \ {t} : walk'[u] = walk[u]
<1>1. walk[t].kind \in Kind /\ walk[t].target \in Place
  BY DEF WalkInv, Walks0
<1>2. Walks(t, Walk(walk[t].kind, NextIn(l, walk[t].at), walk[t].target))
  BY DEF Advance
<1>3. NextIn(l, walk[t].at) \in Place
      /\ (NextIn(l, walk[t].at) # NoPeer => conn'[NextIn(l, walk[t].at)] # "none")
  BY NextConnected
<1>4. \A p \in Peer : in'[p] = "none" => t # In(p)
  BY WalkingStarted
<1>5. WalkInv'
  BY <1>1, <1>2, <1>3, <1>4, WalkUpdated
<1> QED
  BY <1>1, <1>2, <1>3, <1>5, WalksUpdate

(* Steps that only move along the list, possibly the one after a removal.  *)
LEMMA VisitAdvances ==
  ASSUME ListInv, NEW t \in Walker,
         \/ VisitBroadcast(t) \/ VisitReap(t) \/ VisitRemove(t)
         \/ VisitStop(t) /\ Advance(t, peers)
  PROVE  /\ walk[t].kind # "none"
         /\ \E l \in Seq(Peer) :
               /\ Advance(t, l)
               /\ \A i \in 1 .. Len(l) : \E j \in 1 .. Len(peers) : l[i] = peers[j]
<1>1. walk[t].kind # "none"
  BY DEF VisitBroadcast, VisitReap, VisitRemove, VisitStop, At
<1>2. peers \in Seq(Peer) /\ \A i \in 1 .. Len(peers) : \E j \in 1 .. Len(peers) : peers[i] = peers[j]
  BY DEF ListInv
<1>3. CASE Advance(t, peers)
  BY <1>1, <1>2, <1>3
<1>4. CASE Advance(t, Without(peers, walk[t].at))
  <2> DEFINE l == Without(peers, walk[t].at)
  <2>1. l \in Seq(Peer) /\ \A i \in 1 .. Len(l) : \E j \in 1 .. Len(peers) : l[i] = peers[j]
    BY WithoutProperties DEF ListInv
  <2> HIDE DEF l
  <2>2. Advance(t, l)
    BY <1>4 DEF l
  <2> QED
    BY <1>1, <2>1, <2>2
<1> QED
  BY <1>3, <1>4 DEF VisitBroadcast, VisitReap, VisitRemove, removePeerElement

(* Ethereum.Stop begins to remove the peer it stands on.                   *)
LEMMA StopBeginsClosing ==
  ASSUME ListInv, WalkInv, Kept, NEW t \in Walker, VisitStop(t),
         FirstStop(t, "close", walk[t].at)
  PROVE  /\ WalkInv'
         /\ walk'[t].kind = "close" /\ walk'[t].target = walk[t].at
         /\ \A u \in Walker \ {t} : walk'[u] = walk[u]
<1>1. walk[t].at \in Place /\ "close" \in Kind /\ walk[t].kind # "none"
  BY Standing DEF VisitStop, At, Place, Kind
<1>2. Walks(t, Walk("close", FirstPeer, walk[t].at))
  BY DEF FirstStop, RemovePeer
<1>3. FirstPeer \in Place /\ (FirstPeer # NoPeer => conn'[FirstPeer] # "none")
  BY FrontConnected
<1>4. \A p \in Peer : in'[p] = "none" => t # In(p)
  BY <1>1, WalkingStarted
<1>5. WalkInv'
  BY <1>1, <1>2, <1>3, <1>4, WalkUpdated
<1> QED
  BY <1>1, <1>2, <1>3, <1>5, WalksUpdate

(* The end of a walk: the goroutine is free, goes on stopping peers after  *)
(* a removal, or broadcasts after it has reaped.                           *)
LEMMA EndWalk ==
  ASSUME ListInv, WalkInv, Kept, NEW t \in Walker, WalkEnds(t)
  PROVE  /\ WalkInv'
         /\ walk'[t].kind \in Kind \ Removing
         /\ \A u \in Walker \ {t} : walk'[u] = walk[u]
<1> DEFINE next == NextIn(peers, walk[t].target)
<1>1. PICK kind \in {"none", "stop", "broadcast"}, at \in {NoPeer, FirstPeer, next} :
           Walks(t, Walk(kind, at, NoPeer))
  <2>1. CASE walk[t].kind = "close"
    BY <2>1 DEF WalkEnds
  <2>2. CASE walk[t].kind # "close" /\ walk[t].kind = "reap" /\ t \notin Server
    BY <2>2 DEF WalkEnds
  <2>3. CASE walk[t].kind # "close" /\ ~(walk[t].kind = "reap" /\ t \notin Server)
    BY <2>3 DEF WalkEnds, NoWalk, Walk
  <2> QED
    BY <2>1, <2>2, <2>3
<1>2. next \in Place /\ (next # NoPeer => conn'[next] # "none")
  <2>1. peers \in Seq(Peer) /\ \A i \in 1 .. Len(peers) : \E j \in 1 .. Len(peers) : peers[i] = peers[j]
    BY DEF ListInv
  <2> QED
    BY <2>1, NextConnected
<1>3. FirstPeer \in Place /\ (FirstPeer # NoPeer => conn'[FirstPeer] # "none")
  BY FrontConnected
<1> HIDE DEF next
<1>4. kind \in Kind \ Removing /\ at \in Place /\ NoPeer \in Place
      /\ (at # NoPeer => conn'[at] # "none")
  BY <1>1, <1>2, <1>3 DEF Kind, Removing, Place
<1>5. \A p \in Peer : in'[p] = "none" => t # In(p)
  BY WalkingStarted DEF WalkEnds
<1>6. WalkInv'
  BY <1>1, <1>4, <1>5, WalkUpdated
<1> QED
  BY <1>1, <1>4, <1>6, WalksUpdate

(* A step of a walk keeps them good.                                       *)
LEMMA WalkStepWalk ==
  ASSUME FieldsInv, ListInv, WalkInv, NEW t \in Walker, WalkStep(t)
  PROVE  WalkInv'
<1>1. Kept
  BY WalkStepSettles DEF Settled
<1>2. CASE \/ VisitBroadcast(t) \/ VisitReap(t) \/ VisitRemove(t)
           \/ VisitStop(t) /\ Advance(t, peers)
  BY <1>1, <1>2, VisitAdvances, AdvanceWalk
<1>3. CASE VisitStop(t) /\ FirstStop(t, "close", walk[t].at)
  BY <1>1, <1>3, StopBeginsClosing
<1>4. CASE WalkEnds(t)
  BY <1>1, <1>4, EndWalk
<1> QED
  BY <1>2, <1>3, <1>4 DEF WalkStep, VisitStop

-----------------------------------------------------------------------------
(* The inductive invariant.                                                *)

(* The invariant holds of the server as it starts.                         *)
LEMMA InvInit ==
  ASSUME Init
  PROVE  IInv
<1>1. /\ peers = Established /\ adding = {} /\ quit = {} /\ cut = {}
      /\ events = 0 /\ panicked = FALSE
      /\ queue = [p \in Peer |-> 0] /\ disconnect = [p \in Peer |-> 0]
      /\ walk = [t \in Walker |-> NoWalk]
  BY DEF Init
<1>2. /\ conn = [p \in Peer |-> IF p \in Range(Established) THEN "up" ELSE "none"]
      /\ connected = [p \in Peer |-> IF p \in Range(Established) THEN 1 ELSE 0]
      /\ versionKnown = [p \in Peer |-> p \in Range(Established)]
      /\ in = [p \in Peer |-> IF p \in Range(Established) THEN "run" ELSE "none"]
      /\ out = [p \in Peer |-> IF p \in Range(Established) THEN "run" ELSE "none"]
  BY DEF Init
<1>3. FieldsInv
  <2>1. 0 \in 0 .. MaxEvents /\ 0 \in 0 .. QueueSize
    BY PeerAssumption
  <2>2. versionKnown \in [Peer -> BOOLEAN]
    BY <1>2
  <2>3. /\ conn \in [Peer -> {"none", "nil", "up", "broken"}]
        /\ connected \in [Peer -> 0 .. 1]
        /\ in \in [Peer -> {"none", "run", "done"}]
        /\ out \in [Peer -> {"none", "run", "done"}]
    BY <1>2
  <2>4. queue \in [Peer -> 0 .. QueueSize] /\ disconnect \in [Peer -> 0 .. 2]
    BY <1>1, <2>1
  <2>5. adding \subseteq Peer /\ quit \subseteq Peer /\ cut \subseteq Peer
        /\ events \in 0 .. MaxEvents
    BY <1>1, <2>1
  <2>6. panicked \in BOOLEAN
    BY <1>1
  <2> QED
    BY <2>2, <2>3, <2>4, <2>5, <2>6 DEF FieldsInv
<1>4. ListInv
  <2>1. peers \in Seq(Peer) /\ IsInjective(peers)
    BY <1>1, PeerAssumption
  <2>2. ASSUME NEW i \in 1 .. Len(peers) PROVE conn[peers[i]] # "none"
    <3>1. i \in DOMAIN Established /\ peers[i] = Established[i] /\ peers[i] \in Peer
      BY <1>1, <2>1, LenProperties, ElementOfSeq
    <3>2. peers[i] \in Range(Established)
      BY <3>1 DEF Range
    <3> QED
      BY <1>2, <3>1, <3>2
  <2>3. IsFiniteSet(adding)
    BY <1>1, FS_EmptySet
  <2> QED
    BY <1>1, <2>1, <2>2, <2>3 DEF ListInv
<1>5. WalkInv
  <2>1. NoWalk \in Walks0 /\ NoWalk.kind = "none" /\ NoWalk.at = NoPeer
    BY DEF NoWalk, Walks0, Kind, Place
  <2>2. \A p \in Peer : In(p) \in Walker
    BY Goroutines
  <2> QED
    BY <1>1, <2>1, <2>2 DEF WalkInv
<1>6. QuitInv
  BY <1>1 DEF QuitInv
<1> QED
  BY <1>3, <1>4, <1>5, <1>6 DEF IInv

(* A peer that was told to quit is still one that was connected.           *)
LEMMA QuitStep ==
  ASSUME FieldsInv, FieldsInv', QuitInv, Kept
  PROVE  QuitInv'
BY DEF FieldsInv, QuitInv, Kept

(* Every step keeps the invariant.                                         *)
LEMMA InvNext ==
  ASSUME IInv, [Next]_vars
  PROVE  IInv'
<1> USE DEF IInv
<1>1. CASE UNCHANGED vars
  BY <1>1 DEF vars, fields, FieldsInv, ListInv, WalkInv, QuitInv
<1>2. ASSUME NEW p \in Peer,
             \/ FindRoom(p) \/ PushBack(p) \/ Dialed(p) \/ DialFails(p) \/ Break(p)
             \/ Read(p) \/ ReadDisc(p) \/ InboundEnds(p) \/ Outbound(p) \/ Service(p)
      PROVE  IInv'
  <2>1. Kept
    BY <1>2, PeerStepSettles, PushBackKeeps DEF Settled
  <2> QED
    BY <1>2, <2>1, PeerStepFields, PeerStepList, PeerStepWalk, QuitStep
<1>3. ASSUME NEW t \in Server, NEW kind \in {"broadcast", "reap", "stop"}, Begin(t, kind)
      PROVE  IInv'
  <2>1. kind \in Kind /\ Settled
    BY <1>3, BeginSettles DEF Kind
  <2>2. UNCHANGED <<peers, adding>>
    BY <1>3 DEF Begin
  <2>3. ListInv'
    BY <2>1, <2>2, ListSame
  <2> QED
    BY <1>3, <2>1, <2>3, BeginFields, BeginWalk, QuitStep DEF Settled
<1>4. ASSUME NEW t \in Walker, WalkStep(t)
      PROVE  IInv'
  <2>1. Kept
    BY <1>4, WalkStepSettles DEF Settled
  <2> QED
    BY <1>4, <2>1, WalkStepFields, WalkStepList, WalkStepWalk, QuitStep
<1> QED
  BY <1>1, <1>2, <1>3, <1>4 DEF Next, Broadcast, ReapDeadPeers, StopAll

(* The invariant implies the types.                                        *)
LEMMA InvImpliesTypeOK ==
  ASSUME IInv
  PROVE  TypeOK
<1>1. Range(peers) \subseteq Peer
  <2>1. \A i \in DOMAIN peers : peers[i] \in Peer
    BY LenProperties, ElementOfSeq DEF IInv, ListInv
  <2> QED
    BY <2>1 DEF Range
<1>2. \A t \in Walker : walk[t].kind \in Kind
  BY DEF IInv, WalkInv, Walks0
<1> QED
  BY <1>1, <1>2 DEF IInv, FieldsInv, ListInv, TypeOK, Kind

(* Type correctness: the list has no peer twice, and an output queue never *)
(* holds more than the channel does (QueueMessage blocks instead).         *)
THEOREM TypeCorrect == Spec => []TypeOK
<1>1. IInv /\ [Next]_vars => IInv'
  BY InvNext
<1>2. Init => IInv
  BY InvInit
<1>3. IInv => TypeOK
  BY InvImpliesTypeOK
<1> QED
  BY <1>1, <1>2, <1>3, PTL DEF Spec

-----------------------------------------------------------------------------
(* The number of peers.                                                    *)

(* There is no peer at first.                                              *)
LEMMA BoundInit ==
  ASSUME Init
  PROVE  PeersBounded
<1>1. Len(peers) <= MaxPeers /\ Len(peers) \in Nat
  BY PeerAssumption, LenProperties DEF Init
<1>2. Cardinality(adding) = 0
  BY FS_EmptySet DEF Init
<1> QED
  BY <1>1, <1>2, PeerAssumption DEF PeersBounded

(* No step makes the list and the places reserved more than there may be.  *)
LEMMA BoundNext ==
  ASSUME IInv, PeersBounded, [Next]_vars
  PROVE  PeersBounded'
<1>0. Len(peers) \in Nat /\ Cardinality(adding) \in Nat /\ MaxPeers \in Nat /\ Adders \in Nat
  BY LenProperties, FS_CardinalityType, PeerAssumption DEF IInv, ListInv
<1>1. CASE UNCHANGED <<peers, adding>>
  BY <1>1 DEF PeersBounded
<1>2. ASSUME NEW p \in Peer, FindRoom(p)
      PROVE  PeersBounded'
  <2>1. Len(peers) < MaxPeers /\ Cardinality(adding) < Adders /\ peers' = peers
    BY <1>2 DEF FindRoom, HasRoom
  <2>2. Cardinality(adding') = Cardinality(adding) + 1
    BY <1>2, FindRoomList DEF IInv
  <2> QED
    BY <1>0, <2>1, <2>2 DEF PeersBounded
<1>3. ASSUME NEW p \in Peer, PushBack(p)
      PROVE  PeersBounded'
  <2>1. Len(peers') = Len(peers) + 1 /\ Cardinality(adding') = Cardinality(adding) - 1
    BY <1>3, PushBackList DEF IInv
  <2> QED
    BY <1>0, <2>1 DEF PeersBounded
<1>4. ASSUME NEW t \in Walker, WalkStep(t)
      PROVE  PeersBounded'
  <2>1. Len(peers') <= Len(peers) /\ Len(peers') \in Nat /\ adding' = adding
    BY <1>4, WalkStepList, LenProperties DEF IInv, ListInv
  <2> QED
    BY <1>0, <2>1 DEF PeersBounded
<1>5. ASSUME NEW p \in Peer,
             \/ Dialed(p) \/ DialFails(p) \/ Break(p) \/ Read(p) \/ ReadDisc(p)
             \/ InboundEnds(p) \/ Outbound(p) \/ Service(p)
      PROVE  UNCHANGED <<peers, adding>>
  BY <1>5 DEF Dialed, DialFails, Break, Read, ReadDisc, InboundEnds, Outbound, Write,
              Ping, OutboundEnds, Service
<1>6. ASSUME NEW t \in Server, Broadcast(t) \/ ReapDeadPeers(t) \/ StopAll(t)
      PROVE  UNCHANGED <<peers, adding>>
  BY <1>6 DEF Broadcast, ReapDeadPeers, StopAll, Begin
<1> QED
  BY <1>1, <1>2, <1>3, <1>4, <1>5, <1>6 DEF Next, vars

(* The number of peers is checked before a peer is pushed: however many    *)
(* are accepted and dialled, those admitted and those about to be stay     *)
(* below MaxPeers plus the goroutines that add (AddPeer, ConnectToPeer).   *)
THEOREM PeersAreBounded == Spec => []PeersBounded
<1>1. IInv /\ [Next]_vars => IInv'
  BY InvNext
<1>2. Init => IInv /\ PeersBounded
  BY InvInit, BoundInit
<1>3. IInv /\ PeersBounded /\ [Next]_vars => PeersBounded'
  BY BoundNext
<1> QED
  BY <1>1, <1>2, <1>3, PTL DEF Spec

-----------------------------------------------------------------------------
(* Stopped peers.                                                          *)

(* Removals under way stay under way when one goroutine that is on none    *)
(* begins a walk.                                                          *)
LEMMA BeginsKeepsRemovals ==
  ASSUME WalkInv, NEW t \in Walker, Begins(t), NEW q, BeingRemoved(q)
  PROVE  BeingRemoved(q)'
<1>1. PICK u \in Walker : walk[u].kind \in Removing /\ walk[u].target = q
  BY DEF BeingRemoved, Removing
<1>2. CASE UNCHANGED walk
  BY <1>2 DEF BeingRemoved
<1>3. CASE \E kind \in Kind, p \in Place :
              Walks(t, Walk(kind, FirstPeer, p)) /\ walk[t].kind = "none"
  <2>1. u # t
    BY <1>1, <1>3 DEF Removing
  <2>2. walk'[u] = walk[u]
    BY <1>3, <2>1 DEF Walks, WalkInv
  <2> QED
    BY <1>1, <2>2 DEF BeingRemoved, Removing
<1> QED
  BY <1>2, <1>3 DEF Begins

(* Whoever closes a quit channel begins to remove the peer.                *)
LEMMA FirstStopRemoves ==
  ASSUME FieldsInv, WalkInv, NEW t \in Walker, NEW p \in Peer, FirstStop(t, "remove", p)
  PROVE  BeingRemoved(p)'
<1>1. walk' = [walk EXCEPT ![t] = Walk("remove", FirstPeer, p)]
  BY DEF FirstStop, RemovePeer, Walks
<1>2. walk'[t].kind = "remove" /\ walk'[t].target = p
  BY <1>1 DEF WalkInv, Walk
<1> QED
  BY <1>2 DEF BeingRemoved

(* Who is stopped for the first time is being removed.                     *)
LEMMA StopRemoves ==
  ASSUME FieldsInv, WalkInv, NEW t \in Walker, NEW p \in Peer, Stop(t, p)
  PROVE  quit' \subseteq quit \cup {p} /\ (p \in quit' => p \in quit \/ BeingRemoved(p)')
<1>1. quit' \subseteq quit \cup {p}
  BY StopFields DEF StopsOnly
<1>2. CASE FirstStop(t, "remove", p)
  BY <1>1, <1>2, FirstStopRemoves
<1>3. CASE StopAgain(p)
  BY <1>1, <1>3 DEF StopAgain
<1> QED
  BY <1>1, <1>2, <1>3 DEF Stop

(* The same for any step of a peer.                                        *)
LEMMA PeerStepRemoves ==
  ASSUME FieldsInv, WalkInv, NEW p \in Peer,
         \/ FindRoom(p) \/ PushBack(p) \/ Dialed(p) \/ DialFails(p) \/ Break(p)
         \/ Read(p) \/ ReadDisc(p) \/ InboundEnds(p) \/ Outbound(p) \/ Service(p)
  PROVE  quit' \subseteq quit \cup {p} /\ (p \in quit' => p \in quit \/ BeingRemoved(p)')
<1>1. CASE \/ FindRoom(p) \/ PushBack(p) \/ Dialed(p) \/ Break(p) \/ Read(p)
           \/ InboundEnds(p) \/ OutboundEnds(p) \/ Service(p)
  BY <1>1 DEF FindRoom, PushBack, Dialed, Break, Read, InboundEnds, StopAgain,
              OutboundEnds, Service, fields
<1>2. CASE DialFails(p)
  BY <1>2, Goroutines, StopRemoves DEF DialFails
<1>3. CASE ReadDisc(p)
  <2>1. FirstStop(In(p), "remove", p)
    BY <1>3 DEF ReadDisc
  <2>2. quit' \subseteq quit \cup {p}
    BY <2>1, FirstStopFields DEF StopsOnly
  <2> QED
    BY <2>1, <2>2, Goroutines, FirstStopRemoves
<1>4. CASE Write(p)
  <2>1. CASE Stop(Out(p), p)
    BY <2>1, Goroutines, StopRemoves
  <2>2. CASE UNCHANGED quit
    BY <2>2
  <2> QED
    BY <1>4, <2>1, <2>2 DEF Write, writeMessage, fields
<1>5. CASE Ping(p)
  BY <1>5, Goroutines, StopRemoves DEF Ping
<1> QED
  BY <1>1, <1>2, <1>3, <1>4, <1>5 DEF Outbound

(* A peer that enters the list has not been stopped.                       *)
LEMMA PeerStepListed ==
  ASSUME IInv, NEW p \in Peer,
         \/ FindRoom(p) \/ PushBack(p) \/ Dialed(p) \/ DialFails(p) \/ Break(p)
         \/ Read(p) \/ ReadDisc(p) \/ InboundEnds(p) \/ Outbound(p) \/ Service(p),
         NEW q \in quit', Listed(q)'
  PROVE  Listed(q)
<1>1. CASE PushBack(p)
  <2>1. /\ peers' = Append(peers, p) /\ p \in adding /\ q \in quit
        /\ Append(peers, p) \in Seq(Peer)
        /\ Len(Append(peers, p)) = Len(peers) + 1
        /\ \A i \in 1 .. Len(peers) : Append(peers, p)[i] = peers[i]
        /\ Append(peers, p)[Len(peers) + 1] = p
    BY <1>1, AppendProperties DEF PushBack, IInv, ListInv
  <2>2. q # p
    BY <2>1 DEF IInv, ListInv, QuitInv
  <2>3. PICK i \in 1 .. Len(peers) + 1 : peers'[i] = q
    BY <2>1, LenProperties DEF Listed
  <2>4. i # Len(peers) + 1
    BY <2>1, <2>2, <2>3
  <2>5. i \in 1 .. Len(peers) /\ DOMAIN peers = 1 .. Len(peers)
    BY <2>4, LenProperties DEF IInv, ListInv
  <2> QED
    BY <2>1, <2>3, <2>5 DEF Listed
<1>2. CASE UNCHANGED peers
  BY <1>2 DEF Listed
<1> QED
  BY <1>1, <1>2 DEF FindRoom, Dialed, DialFails, Break, Read, ReadDisc, InboundEnds,
                    Outbound, Write, Ping, OutboundEnds, Service

(* A step of a peer keeps StoppedIsRemoved.                                *)
LEMMA PeerStepStopped ==
  ASSUME IInv, StoppedIsRemoved, NEW p \in Peer,
         \/ FindRoom(p) \/ PushBack(p) \/ Dialed(p) \/ DialFails(p) \/ Break(p)
         \/ Read(p) \/ ReadDisc(p) \/ InboundEnds(p) \/ Outbound(p) \/ Service(p)
  PROVE  StoppedIsRemoved'
<1>1. UNCHANGED cut
  BY DEF FindRoom, PushBack, Dialed, DialFails, Break, Read, ReadDisc, InboundEnds,
         Outbound, Write, Ping, OutboundEnds, Service
<1>2. ASSUME NEW q \in quit', Listed(q)'
      PROVE  BeingRemoved(q)' \/ q \in cut'
  <2>1. CASE q \in quit
    <3>1. Listed(q)
      BY <1>2, PeerStepListed
    <3>2. BeingRemoved(q) \/ q \in cut
      BY <2>1, <3>1 DEF StoppedIsRemoved
    <3>3. Begins(Out(p)) \/ Begins(In(p))
      BY PeerStepBegins DEF IInv
    <3> QED
      BY <1>1, <3>2, <3>3, Goroutines, BeginsKeepsRemovals DEF IInv
  <2>2. CASE q \notin quit
    BY <1>2, <2>2, PeerStepRemoves DEF IInv
  <2> QED
    BY <2>1, <2>2
<1> QED
  BY <1>2 DEF StoppedIsRemoved

(* Walks keep what they remove until they end, and then either it is out   *)
(* of the list or the walk was cut.                                        *)
LEMMA WalkStepListed ==
  ASSUME IInv, NEW t \in Walker, WalkStep(t), NEW q, Listed(q)'
  PROVE  Listed(q)
<1>1. /\ peers \in Seq(Peer) /\ peers' \in Seq(Peer)
      /\ \A i \in 1 .. Len(peers') : \E j \in 1 .. Len(peers) : peers'[i] = peers[j]
  BY WalkStepList DEF IInv, ListInv
<1> QED
  BY <1>1, LenProperties DEF Listed

(* A walk ends only once the peer is out of the list.                      *)
LEMMA WalkStepStopped ==
  ASSUME IInv, StoppedIsRemoved, NEW t \in Walker, WalkStep(t)
  PROVE  StoppedIsRemoved'
<1>0. FieldsInv /\ ListInv /\ WalkInv /\ Kept
  BY WalkStepSettles DEF IInv, Settled
<1>1. CASE \/ VisitBroadcast(t) \/ VisitReap(t) \/ VisitRemove(t)
           \/ VisitStop(t) /\ Advance(t, peers)
  <2>1. UNCHANGED <<quit, cut>>
    <3>1. CASE VisitStop(t) /\ Advance(t, peers)
      <4>1. CASE StopAgain(walk[t].at)
        BY <3>1, <4>1 DEF VisitStop, StopAgain
      <4>2. CASE FirstStop(t, "close", walk[t].at)
        <5>1. walk' = [walk EXCEPT ![t] = Walk("close", FirstPeer, walk[t].at)]
          BY <4>2 DEF FirstStop, RemovePeer, Walks
        <5>2. walk'[t].kind = "close"
          BY <5>1, <1>0 DEF WalkInv, Walk
        <5>3. walk[t].kind = "stop"
          BY <3>1 DEF VisitStop, At
        <5>4. walk'[t].kind = walk[t].kind
          BY <1>0, <3>1, VisitAdvances, AdvanceWalk
        <5> QED
          BY <5>2, <5>3, <5>4
      <4> QED
        BY <3>1, <4>1, <4>2 DEF VisitStop
    <3>2. CASE VisitBroadcast(t) \/ VisitReap(t) \/ VisitRemove(t)
      BY <3>2 DEF VisitBroadcast, VisitReap, VisitRemove, fields
    <3> QED
      BY <1>1, <3>1, <3>2
  <2>2. /\ walk'[t].kind = walk[t].kind /\ walk'[t].target = walk[t].target
        /\ \A u \in Walker \ {t} : walk'[u] = walk[u]
    BY <1>0, <1>1, VisitAdvances, AdvanceWalk
  <2>3. \A q : BeingRemoved(q) => BeingRemoved(q)'
    BY <2>2 DEF BeingRemoved
  <2> QED
    BY <2>1, <2>3, WalkStepListed DEF StoppedIsRemoved
<1>2. CASE VisitStop(t) /\ FirstStop(t, "close", walk[t].at)
  <2>1. /\ walk'[t].kind = "close" /\ walk'[t].target = walk[t].at
        /\ \A u \in Walker \ {t} : walk'[u] = walk[u]
    BY <1>0, <1>2, StopBeginsClosing
  <2>2. walk[t].kind = "stop" /\ UNCHANGED cut /\ quit' = quit \cup {walk[t].at}
    BY <1>2 DEF VisitStop, At, FirstStop
  <2>3. \A q : BeingRemoved(q) => BeingRemoved(q)'
    BY <2>1, <2>2 DEF BeingRemoved
  <2>4. ASSUME NEW q \in quit', Listed(q)'
        PROVE  BeingRemoved(q)' \/ q \in cut'
    <3>1. CASE q \in quit
      BY <2>2, <2>3, <2>4, <3>1, WalkStepListed DEF StoppedIsRemoved
    <3>2. CASE q = walk[t].at
      <4>1. walk'[t].target = q /\ walk'[t].kind \in {"remove", "close"}
        BY <2>1, <3>2
      <4> QED
        BY <4>1 DEF BeingRemoved
    <3> QED
      BY <2>2, <2>4, <3>1, <3>2
  <2> QED
    BY <2>2, <2>4 DEF StoppedIsRemoved
<1>3. CASE WalkEnds(t)
  <2>1. /\ UNCHANGED <<quit, peers>>
        /\ cut' = IF walk[t].kind \in Removing /\ Listed(walk[t].target)
                  THEN cut \cup {walk[t].target} ELSE cut
    BY <1>3 DEF WalkEnds, fields, Removing
  <2>2. \A u \in Walker \ {t} : walk'[u] = walk[u]
    BY <1>0, <1>3, EndWalk
  <2>3. ASSUME NEW q \in quit, Listed(q)
        PROVE  BeingRemoved(q)' \/ q \in cut'
    <3>1. CASE q \in cut
      BY <2>1, <3>1
    <3>2. CASE BeingRemoved(q)
      <4>1. PICK u \in Walker : walk[u].kind \in Removing /\ walk[u].target = q
        BY <3>2 DEF BeingRemoved, Removing
      <4>2. CASE u = t
        BY <2>1, <2>3, <4>1, <4>2
      <4>3. CASE u # t
        BY <2>2, <4>1, <4>3 DEF BeingRemoved, Removing
      <4> QED
        BY <4>2, <4>3
    <3> QED
      BY <2>3, <3>1, <3>2 DEF StoppedIsRemoved
  <2> QED
    BY <2>1, <2>3, WalkStepListed DEF StoppedIsRemoved
<1> QED
  BY <1>1, <1>2, <1>3 DEF WalkStep, VisitStop

(* Every step keeps StoppedIsRemoved.                                      *)
LEMMA StoppedNext ==
  ASSUME IInv, StoppedIsRemoved, [Next]_vars
  PROVE  StoppedIsRemoved'
<1>1. CASE UNCHANGED vars
  BY <1>1 DEF vars, fields, StoppedIsRemoved, BeingRemoved, Listed
<1>2. ASSUME NEW t \in Server, NEW kind \in {"broadcast", "reap", "stop"}, Begin(t, kind)
      PROVE  StoppedIsRemoved'
  <2>1. UNCHANGED <<peers, quit, cut>>
    BY <1>2 DEF Begin, fields
  <2>2. t \in Walker /\ kind \in Kind
    BY DEF Walker, Kind
  <2>3. Begins(t)
    BY <1>2, <2>2, BeginWalk DEF IInv
  <2>4. \A q : BeingRemoved(q) => BeingRemoved(q)'
    BY <2>2, <2>3, BeginsKeepsRemovals DEF IInv
  <2> QED
    BY <2>1, <2>4 DEF StoppedIsRemoved, Listed
<1> QED
  BY <1>1, <1>2, PeerStepStopped, WalkStepStopped DEF Next, Broadcast, ReapDeadPeers, StopAll

(* A stopped peer leaves the list, whoever stops it and whatever else goes *)
(* on, unless its removal walk was cut by another removal (Peer.Stop,      *)
(* RemovePeer, eachPeer).                                                  *)
THEOREM StoppedLeave == Spec => []StoppedIsRemoved
<1>1. IInv /\ [Next]_vars => IInv'
  BY InvNext
<1>2. Init => IInv /\ StoppedIsRemoved
  BY InvInit DEF Init, StoppedIsRemoved
<1>3. IInv /\ StoppedIsRemoved /\ [Next]_vars => StoppedIsRemoved'
  BY StoppedNext
<1> QED
  BY <1>1, <1>2, <1>3, PTL DEF Spec
=============================================================================
