------------------------------ MODULE PeerSet ------------------------------
(***************************************************************************)
(* The peers of one node: the list kept by ethereum.go and the life of a   *)
(* Peer in peer.go, from the accepted or dialled connection to Stop.       *)
(*                                                                         *)
(* The list is a container/list that goroutines walk, extend and shorten   *)
(* without a common lock (peerMut only covers the removal itself), so      *)
(* every element a walk visits is a step of its own.  The Next of a        *)
(* removed element is nil: a walk that stands on one ends there.             *)
(* Messages are counted, not told apart; what they say is the subject of   *)
(* module PeerSync.                                                        *)
(***************************************************************************)
EXTENDS Naturals, FiniteSets, SequencesExt

CONSTANTS
    Peer,       \* connections that may come about
    Inbound,    \* those that are accepted; the others are dialled
    Established,  \* the list to begin with
    Host,       \* the host at the other end of each
    PeerDisc,   \* peers with CapPeerDiscTy: their service timer broadcasts
    NoPeer,     \* a nil list element
    Adders,     \* how many goroutines may add a peer at the same time
    Server,     \* goroutines that broadcast, reap or shut the node down
    MaxPeers,   \* Ethereum.MaxPeers
    QueueSize,  \* outputBufferSize (50)
    MaxEvents     \* bound on the events that disturb the list

ASSUME PeerAssumption ==
    /\ Inbound \subseteq Peer
    /\ PeerDisc \subseteq Peer
    /\ NoPeer \notin Peer
    /\ Established \in Seq(Peer) /\ IsInjective(Established)
    /\ Len(Established) <= MaxPeers
    /\ \A p \in Peer : <<p, "in">> \notin Server /\ <<p, "out">> \notin Server
    /\ DOMAIN Host = Peer
    /\ MaxPeers \in Nat \ {0}
    /\ Adders \in Nat \ {0}
    /\ QueueSize \in Nat \ {0}
    /\ MaxEvents \in Nat

(* The two goroutines of a peer.  The first dials before it reads.         *)
In(p)  == <<p, "in">>
Out(p) == <<p, "out">>
Walker == {In(p) : p \in Peer} \cup {Out(p) : p \in Peer} \cup Server

VARIABLES
    peers,         \* the list
    adding,        \* peers that goroutines have found room for
    conn,          \* each peer's connection
    connected, disconnect, versionKnown,   \* fields of Peer
    quit,          \* peers whose quit channel is closed
    queue,         \* how many messages each output queue holds
    in, out,       \* what HandleInbound and HandleOutbound are doing
    walk,          \* each goroutine's walk along the list
    cut,           \* peers their own RemovePeer did not reach
    events,          \* connections lost, refused or stopped, and
                   \* turns of the service timer
    panicked       \* a quit channel was closed twice

fields == <<conn, connected, disconnect, versionKnown, quit>>
vars   == <<peers, adding, fields, queue, in, out, walk, cut, events, panicked>>

NoWalk == [kind |-> "none", at |-> NoPeer, target |-> NoPeer]

(* Some peers are connected already and have shaken hands.                 *)
Init ==
    /\ peers = Established
    /\ adding = {}
    /\ LET If(p, yes, no) == IF p \in Range(Established) THEN yes ELSE no IN
       /\ conn = [p \in Peer |-> If(p, "up", "none")]
       /\ connected = [p \in Peer |-> If(p, 1, 0)]
       /\ versionKnown = [p \in Peer |-> p \in Range(Established)]
       /\ in = [p \in Peer |-> If(p, "run", "none")]
       /\ out = [p \in Peer |-> If(p, "run", "none")]
    /\ disconnect = [p \in Peer |-> 0]
    /\ quit = {}
    /\ queue = [p \in Peer |-> 0]
    /\ walk = [t \in Walker |-> NoWalk]
    /\ cut = {}
    /\ events = 0
    /\ panicked = FALSE

Listed(p) == \E i \in DOMAIN peers : peers[i] = p

FirstPeer == IF peers = <<>> THEN NoPeer ELSE peers[1]

(* Element.Next in the list l.                                             *)
NextIn(l, p) ==
    IF \E i \in 1 .. Len(l) - 1 : l[i] = p
    THEN l[1 + CHOOSE i \in 1 .. Len(l) - 1 : l[i] = p]
    ELSE NoPeer

(* The list l after list.Remove(p).                                        *)
Without(l, p) ==
    IF \E i \in DOMAIN l : l[i] = p
    THEN RemoveAt(l, CHOOSE i \in DOMAIN l : l[i] = p)
    ELSE l

(* A panic ends the whole process: nothing is enabled afterwards.          *)
Idle(t) == ~panicked /\ walk[t].kind = "none"

Walk(kind, at, target) == [kind |-> kind, at |-> at, target |-> target]

Event == ~panicked /\ events < MaxEvents /\ events' = events + 1

Walks(t, w) == walk' = [walk EXCEPT ![t] = w]

-----------------------------------------------------------------------------
(* Peer.Stop, called by goroutine t.  Only the call that finds the counter *)
(* at zero goes on: it closes quit, says goodbye (a write that fails calls *)
(* Stop once more), closes the connection and walks the list to remove p.  *)
(* The counter is kept up to 2.                                            *)

WriteFails(p) == conn[p] = "broken" /\ versionKnown[p] /\ connected[p] = 1

(* Mutant of RemovePeer: the peer is left to the reaper.                   *)
RemovePeerLater(t, kind, p) == UNCHANGED walk

RemovePeer(t, kind, p) == Walks(t, Walk(kind, FirstPeer, p))

FirstStop(t, kind, p) ==
    /\ disconnect[p] = 0
    /\ disconnect' = [disconnect EXCEPT ![p] = IF WriteFails(p) THEN 2 ELSE 1]
    /\ quit' = quit \cup {p}
    /\ panicked' = (p \in quit)
    /\ conn' = IF connected[p] = 1 THEN [conn EXCEPT ![p] = "broken"] ELSE conn
    /\ RemovePeer(t, kind, p)
    /\ UNCHANGED <<connected, versionKnown>>

StopAgain(p) ==
    /\ disconnect[p] # 0
    /\ disconnect' = [disconnect EXCEPT ![p] = 2]
    /\ UNCHANGED <<conn, connected, versionKnown, quit, panicked>>

Stop(t, p) ==
    \/ FirstStop(t, "remove", p)
    \/ StopAgain(p) /\ UNCHANGED walk

(* Mutant of QueueMessage: a queue without a limit.                        *)
QueueMessageUnbounded(p) == queue' = [queue EXCEPT ![p] = @ + connected[p]]

(* Sending to a full channel blocks; a peer that is still dialled misses   *)
(* the message.                                                            *)
QueueMessage(p) ==
    IF connected[p] = 1
    THEN queue[p] < QueueSize /\ queue' = [queue EXCEPT ![p] = @ + 1]
    ELSE UNCHANGED queue

-----------------------------------------------------------------------------
(* AddPeer and ConnectToPeer.                                              *)

(* Mutant of HasRoom: off by one.                                          *)
HasRoomForOneMore == Len(peers) <= MaxPeers

HasRoom == Len(peers) < MaxPeers

(* A peer whose connection is not there yet is not compared.               *)
AlreadyConnected(p) ==
    \E q \in Range(peers) : conn[q] # "nil" /\ Host[q] = Host[p]

FindRoom(p) ==
    /\ ~panicked
    /\ Cardinality(adding) < Adders
    /\ conn[p] = "none" /\ p \notin adding
    /\ HasRoom
    /\ p \in Inbound \/ ~AlreadyConnected(p)
    /\ adding' = adding \cup {p}
    /\ UNCHANGED <<peers, fields, queue, in, out, walk, cut, panicked, events>>

(* Peer.Start queues the handshake and starts the two goroutines.          *)
Start(p) ==
    /\ conn' = [conn EXCEPT ![p] = "up"]
    /\ connected' = [connected EXCEPT ![p] = 1]
    /\ queue' = [queue EXCEPT ![p] = 1]
    /\ in'  = [in EXCEPT ![p] = "run"]
    /\ out' = [out EXCEPT ![p] = "run"]

PushBack(p) ==
    /\ ~panicked
    /\ p \in adding
    /\ peers' = Append(peers, p)
    /\ adding' = adding \ {p}
    /\ IF p \in Inbound
       THEN Start(p)
       ELSE /\ conn' = [conn EXCEPT ![p] = "nil"]
            /\ UNCHANGED <<connected, queue, in, out>>
    /\ UNCHANGED <<disconnect, versionKnown, quit, walk, cut, panicked, events>>

(* NewOutboundPeer's goroutine.  It resets disconnect, whoever stopped the *)
(* peer while it was dialling.                                             *)
Dialed(p) ==
    /\ ~panicked
    /\ conn[p] = "nil" /\ in[p] = "none"
    /\ Start(p)
    /\ disconnect' = [disconnect EXCEPT ![p] = 0]
    /\ UNCHANGED <<peers, adding, versionKnown, quit, walk, cut, panicked, events>>

DialFails(p) ==
    /\ ~panicked
    /\ conn[p] = "nil" /\ in[p] = "none"
    /\ Stop(In(p), p)
    /\ in' = [in EXCEPT ![p] = "done"]
    /\ UNCHANGED <<peers, adding, queue, out, cut, events>>

-----------------------------------------------------------------------------
(* HandleInbound.  A connection that breaks is not noticed by the reader:  *)
(* ReadMessages takes the error for an empty read.                         *)

Break(p) ==
    /\ Event
    /\ conn[p] = "up"
    /\ conn' = [conn EXCEPT ![p] = "broken"]
    /\ UNCHANGED <<peers, adding, connected, disconnect, versionKnown, quit,
                   queue, in, out, walk, cut, panicked>>

Reading(p) == in[p] = "run" /\ Idle(In(p)) /\ disconnect[p] = 0 /\ conn[p] = "up"

(* The first message of a peer is its handshake; a handler answers with a  *)
(* message to the same peer, and QueueMessage blocks on a full queue.      *)
Read(p) ==
    /\ Reading(p)
    /\ QueueMessage(p)
    /\ versionKnown' = [versionKnown EXCEPT ![p] = TRUE]
    /\ UNCHANGED <<peers, adding, conn, connected, disconnect, quit,
                   in, out, walk, cut, panicked, events>>

(* A Disc message, a foreign protocol version or our own public key.       *)
ReadDisc(p) ==
    /\ Reading(p)
    /\ Event
    /\ FirstStop(In(p), "remove", p)
    /\ UNCHANGED <<peers, adding, queue, in, out, cut>>

InboundEnds(p) ==
    /\ in[p] = "run"
    /\ Idle(In(p))
    /\ StopAgain(p)
    /\ in' = [in EXCEPT ![p] = "done"]
    /\ UNCHANGED <<peers, adding, queue, out, walk, cut, events>>

-----------------------------------------------------------------------------
(* HandleOutbound: one turn of its select.                                 *)

Draining(p) == out[p] = "run" /\ Idle(Out(p))

(* A write to a broken connection stops the peer; before the version is    *)
(* known only the handshake is written, the rest is dropped.               *)
writeMessage(p) ==
    \/ /\ conn[p] = "broken"
       /\ Stop(Out(p), p)
    \/ /\ conn[p] = "broken" => ~versionKnown[p]
       /\ UNCHANGED <<fields, walk, panicked>>

(* Mutant of Write: keeps what it may not write yet.                       *)
WriteLater(p) ==
    /\ Draining(p)
    /\ versionKnown[p]
    /\ queue[p] > 0
    /\ queue' = [queue EXCEPT ![p] = @ - 1]
    /\ writeMessage(p)
    /\ UNCHANGED <<peers, adding, in, out, cut, events>>

Write(p) ==
    /\ Draining(p)
    /\ queue[p] > 0
    /\ queue' = [queue EXCEPT ![p] = @ - 1]
    /\ writeMessage(p)
    /\ UNCHANGED <<peers, adding, in, out, cut, events>>

(* Mutant of Ping: the error of the write is ignored.                      *)
PingIgnoresError(p) ==
    Draining(p) /\ conn[p] = "broken" /\ versionKnown[p] /\ UNCHANGED vars

(* The ping timer; only a broken connection makes a difference here.       *)
Ping(p) ==
    /\ Draining(p)
    /\ conn[p] = "broken"
    /\ versionKnown[p]
    /\ Stop(Out(p), p)
    /\ UNCHANGED <<peers, adding, queue, in, out, cut, events>>

(* The service timer: peersMessage reaps, then the list is broadcast.      *)
Service(p) ==
    /\ Draining(p)
    /\ p \in PeerDisc
    /\ Event
    /\ Walks(Out(p), Walk("reap", FirstPeer, NoPeer))
    /\ UNCHANGED <<peers, adding, fields, queue, in, out, cut, panicked>>

OutboundEnds(p) ==
    /\ Draining(p)
    /\ p \in quit
    /\ queue' = [queue EXCEPT ![p] = 0]
    /\ out' = [out EXCEPT ![p] = "done"]
    /\ UNCHANGED <<peers, adding, fields, in, walk, cut, panicked, events>>

-----------------------------------------------------------------------------
(* Walks along the list (eachPeer).                                        *)

Begin(t, kind) ==
    /\ Idle(t)
    /\ Event
    /\ Walks(t, Walk(kind, FirstPeer, NoPeer))
    /\ UNCHANGED <<peers, adding, fields, queue, in, out, cut, panicked>>

Broadcast(t)     == Begin(t, "broadcast")
ReapDeadPeers(t) == Begin(t, "reap")
StopAll(t)       == Begin(t, "stop")

At(t, kind) == ~panicked /\ walk[t].kind = kind /\ walk[t].at # NoPeer

Advance(t, l) == Walks(t, Walk(walk[t].kind, NextIn(l, walk[t].at), walk[t].target))

(* The callback of BroadcastMsg.                                           *)
VisitBroadcast(t) ==
    /\ At(t, "broadcast")
    /\ QueueMessage(walk[t].at)
    /\ Advance(t, peers)
    /\ UNCHANGED <<peers, adding, fields, in, out, cut, panicked, events>>

removePeerElement(t) ==
    /\ peers' = Without(peers, walk[t].at)
    /\ Advance(t, Without(peers, walk[t].at))

(* reapPeers looks for a counter of exactly one.  The other condition, a   *)
(* silent inbound peer, compares seconds with nanoseconds and waits some   *)
(* 9500 years.                                                             *)
VisitReap(t) ==
    /\ At(t, "reap")
    /\ IF disconnect[walk[t].at] = 1 THEN removePeerElement(t)
       ELSE Advance(t, peers) /\ UNCHANGED peers
    /\ UNCHANGED <<adding, fields, queue, in, out, cut, panicked, events>>

(* RemovePeer; within Ethereum.Stop the walk of Stop waits for it.         *)
VisitRemove(t) ==
    /\ At(t, "remove") \/ At(t, "close")
    /\ IF walk[t].at = walk[t].target THEN removePeerElement(t)
       ELSE Advance(t, peers) /\ UNCHANGED peers
    /\ UNCHANGED <<adding, fields, queue, in, out, cut, panicked, events>>

(* Ethereum.Stop stops the peer it stands on, and goes on where that peer  *)
(* was; a counter that is not zero changes nothing but itself.             *)
VisitStop(t) ==
    /\ At(t, "stop")
    /\ \/ FirstStop(t, "close", walk[t].at)
       \/ StopAgain(walk[t].at) /\ Advance(t, peers)
    /\ UNCHANGED <<peers, adding, queue, in, out, cut, events>>

(* The end of the list, or of a removed element.  Ethereum.Stop is called  *)
(* once.                                                                   *)
WalkEnds(t) ==
    /\ ~panicked
    /\ walk[t].kind \notin {"none", "stop"}
    /\ walk[t].at = NoPeer
    /\ LET w == walk[t] IN
       /\ Walks(t, IF w.kind = "close"
                   THEN Walk("stop", NextIn(peers, w.target), NoPeer)
                   ELSE IF w.kind = "reap" /\ t \notin Server
                   THEN Walk("broadcast", FirstPeer, NoPeer)
                   ELSE NoWalk)
       /\ cut' = IF w.kind \in {"remove", "close"} /\ Listed(w.target)
                 THEN cut \cup {w.target} ELSE cut
    /\ UNCHANGED <<peers, adding, fields, queue, in, out, panicked, events>>

-----------------------------------------------------------------------------
WalkStep(t) ==
    \/ VisitBroadcast(t) \/ VisitReap(t) \/ VisitRemove(t)
    \/ VisitStop(t) \/ WalkEnds(t)

Outbound(p) == Write(p) \/ Ping(p) \/ OutboundEnds(p)

Next ==
    \/ \E p \in Peer : \/ FindRoom(p) \/ PushBack(p)
                       \/ Dialed(p) \/ DialFails(p) \/ Break(p)
                       \/ Read(p) \/ ReadDisc(p) \/ InboundEnds(p)
                       \/ Outbound(p) \/ Service(p)
    \/ \E t \in Server : Broadcast(t) \/ ReapDeadPeers(t) \/ StopAll(t)
    \/ \E t \in Walker : WalkStep(t)

Spec == Init /\ [][Next]_vars

(***************************************************************************)
(* Goroutines that can run do so, the ping timer keeps ticking, and        *)
(* senders that wait for a channel are served in turn.  Nothing is assumed *)
(* of the network, of the peers and of the other timers.                   *)
(***************************************************************************)
LiveSpec ==
    /\ Spec
    /\ \A p \in Peer : WF_vars(Outbound(p))
    /\ \A t \in Walker : WF_vars(WalkStep(t))
    /\ \A t \in Server : SF_vars(VisitBroadcast(t))

-----------------------------------------------------------------------------
\* Type invariant: no output queue ever holds more than the channel does.
TypeOK ==
    /\ Range(peers) \subseteq Peer
    /\ IsInjective(peers)
    /\ adding \subseteq Peer
    /\ conn \in [Peer -> {"none", "nil", "up", "broken"}]
    /\ connected \in [Peer -> 0 .. 1]
    /\ disconnect \in [Peer -> 0 .. 2]
    /\ versionKnown \in [Peer -> BOOLEAN]
    /\ quit \subseteq Peer
    /\ queue \in [Peer -> 0 .. QueueSize]
    /\ in \in [Peer -> {"none", "run", "done"}]
    /\ out \in [Peer -> {"none", "run", "done"}]
    /\ \A t \in Walker : walk[t].kind \in {"none", "broadcast", "reap", "remove", "close", "stop"}
    /\ cut \subseteq Peer
    /\ events \in 0 .. MaxEvents
    /\ panicked \in BOOLEAN

(* Goroutines that check the number of peers and push afterwards exceed    *)
(* MaxPeers together, but never by more than there are of them but one,    *)
(* those about to push included.                                           *)
PeersBounded ==
    Len(peers) + Cardinality(adding) < MaxPeers + Adders

(* A peer whose quit channel is closed leaves the list: if it is still     *)
(* there, either the RemovePeer of its one effective Stop is on its way,   *)
(* or that walk stood on an element another goroutine removed.             *)
BeingRemoved(p) ==
    \E t \in Walker : walk[t].kind \in {"remove", "close"} /\ walk[t].target = p

StoppedIsRemoved ==
    \A p \in quit : Listed(p) => BeingRemoved(p) \/ p \in cut

(* A connection that broke after the handshake is noticed although the     *)
(* reader takes the error for silence: the peer leaves the list, unless    *)
(* its walk was cut or HandleOutbound itself waits in a broadcast.         *)
BrokenIsDropped ==
    \A p \in Peer :
        conn[p] = "broken" /\ versionKnown[p] /\ Listed(p)
            ~> ~Listed(p) \/ p \in cut \/ walk[Out(p)].kind = "broadcast" \/ panicked

(* Whoever broadcasts, holding a mutex perhaps, gets to the end of the     *)
(* list or waits for a peer that cannot help it any more: one whose        *)
(* HandleOutbound has ended, for it drains its queue only once, or waits   *)
(* in a broadcast of its own.  What may not be written before the          *)
(* handshake is dropped, not kept.                                         *)
NobodyDrains(p) == out[p] = "done" \/ walk[Out(p)].kind = "broadcast"

BroadcastEnds ==
    \A t \in Server :
        walk[t].kind = "broadcast" ~>
            \/ walk[t].kind # "broadcast"
            \/ At(t, "broadcast") /\ NobodyDrains(walk[t].at)
            \/ panicked
=============================================================================
