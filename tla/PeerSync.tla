------------------------------ MODULE PeerSync ------------------------------
(***************************************************************************)
(* Two connected nodes bring each other's block chains up to date:         *)
(* peer.go (HandleInbound, handleHandshake, CatchupWithPeer,               *)
(* FindCommonParentBlock) on top of the chain's queries                    *)
(* (ethchain/block_chain.go, GetChainFromHash, GetChain,                   *)
(* FindCanonicalChain) and of StateManager.Process.                        *)
(*                                                                         *)
(* A node has one Peer, the other node.  Handling one message is one step: *)
(* the interleavings inside Process are those of module BlockChain, and    *)
(* what the node keeps of its chain is the stored blocks and the current   *)
(* one.  A connection is a TCP stream, so messages arrive in order or are  *)
(* lost together with the connection.  Transactions and peer lists (TxPool *)
(* and PeerSet) leave the state kept here alone, and so does the list of   *)
(* transactions CatchupWithPeer asks for.                                  *)
(***************************************************************************)
EXTENDS BlockHeaders, SequencesExt

CONSTANTS
    Node,           \* the two nodes
    Dialer,         \* the one that connects
    Start,          \* what the nodes may begin with: functions from Node to
                    \* the stored blocks and the current one, [known, head]
    Fresh,          \* the blocks that may be mined meanwhile
    Requested,      \* blocksRequested of an inbound Peer (10)
    RequestedZero,  \* what FindCommonParentBlock makes of zero (20)
    MaxChain,       \* amountOfBlocks of a MsgGetChainTy (100)
    MaxRequested,   \* bound on the doubling of blocksRequested
    MaxFaults       \* bound on lost messages and lost connections

ASSUME NodeAssumption ==
    /\ Cardinality(Node) = 2
    /\ Dialer \in Node

ASSUME StartAssumption ==
    \A s \in Start : \A n \in Node :
        /\ s[n] \in [known : SUBSET Block, head : Block]
        /\ Genesis \in s[n].known
        /\ s[n].head \in s[n].known

(* A header holds the hash of the block before, so no block is its own     *)
(* ancestor; the blocks that exist are finitely many.                      *)
ASSUME AncestryAssumption ==
    /\ IsFiniteSet(Block)
    /\ \A S \in (SUBSET Block) \ {{}} :
          \E b \in S : b = Genesis \/ PrevHash[b] \notin S

ASSUME LimitAssumption ==
    /\ Fresh \subseteq Block
    /\ {Requested, RequestedZero, MaxChain, MaxRequested} \subseteq Nat \ {0}
    /\ Requested <= MaxRequested
    /\ RequestedZero <= MaxRequested
    /\ MaxFaults \in Nat

VARIABLES
    node,   \* each node's chain and its Peer for the other node
    net,    \* the messages on their way to each node
    faults  \* messages and connections lost so far

vars == <<node, net, faults>>

Other(n) == CHOOSE m \in Node : m # n

Handshake      == [type |-> "handshake", blocks |-> <<>>]
Blocks(chain)  == [type |-> "block",      blocks |-> chain]
GetChain(hs)   == [type |-> "getChain",   blocks |-> hs]
NotInChain     == [type |-> "notInChain", blocks |-> <<>>]

(* A node with its chain and the Peer a connection starts with: NewPeer    *)
(* for the side that is called, NewOutboundPeer for the side that calls.   *)
NewPeer(n, chain) ==
    [known |-> chain.known, head |-> chain.head, up |-> TRUE,
     versionKnown |-> FALSE, catchingUp |-> FALSE, diverted |-> FALSE, out |-> <<>>,
     blocksRequested |-> IF n = Dialer THEN 0 ELSE Requested]

Init ==
    /\ \E s \in Start : node = [n \in Node |-> NewPeer(n, s[n])]
    /\ net = [n \in Node |-> <<Handshake>>]
    /\ faults = 0

The(S) == CHOOSE x \in S : TRUE

QueueMessage(p, msg) == [p EXCEPT !.out = Append(@, msg)]

-----------------------------------------------------------------------------
(* Queries of the block chain.  b # NoBlock stands on the current chain as *)
(* far as it is stored.                                                    *)

HasBlock(p, b) == b \in p.known

CurrentChain(p) ==
    LET below[b \in Block] ==
            IF PrevHash[b] \in p.known THEN {b} \cup below[PrevHash[b]] ELSE {b}
    IN  below[p.head]

HasBlockWithPrevHash(p, h) == \E b \in CurrentChain(p) : PrevHash[b] = h

(* The block before b; a nil block, shown as NoBlock, when b is not stored. *)
Parent(p, b) == IF HasBlock(p, b) THEN PrevHash[b] ELSE NoBlock

(* What k rounds of a loop make of an empty list.                          *)
Repeat(k, Round(_)) ==
    LET list[i \in 0 .. k] ==
            IF i = 0 THEN <<>> ELSE The({Round(l) : l \in {list[i - 1]}})
    IN  list[k]

(* The block that a list of blocks, newest first, goes on with.            *)
Below(p, list, first) == IF list = <<>> THEN first ELSE Parent(p, Last(list))

(* GetChain: the stored ancestors of b and b itself, newest first, at most *)
(* k of them, down to the genesis block.                                   *)
Lengthened(p, list, b) == IF HasBlock(p, b) THEN Append(list, b) ELSE list

Ancestors(p, b, k) == Repeat(k, LAMBDA list : Lengthened(p, list, Below(p, list, b)))

SmallerOf(a, b) == IF a < b THEN a ELSE b

(* How many blocks GetChainFromHash sends at most.  lastNumber -           *)
(* parentNumber is unsigned, but it is not what ends the loop when the     *)
(* parent is above the head: num >= parentNumber fails from the start.     *)
Span(p, h) ==
    IF Number[h] >= Number[p.head] THEN 0
    ELSE SmallerOf(Number[p.head] - Number[h], MaxChain)

(* GetChainFromHash: from the block Span above h's number on the current   *)
(* chain downwards, newest first, ending early at h itself.  A block that  *)
(* is not stored is a nil dereference, shown as NoBlock.                   *)
Skipped(p, k) ==
    LET down[i \in 0 .. k] == IF i = 0 THEN p.head ELSE Parent(p, down[i - 1])
    IN  down[k]

LengthenedTo(p, list, b, h) ==
    IF b = h THEN list ELSE Append(list, IF HasBlock(p, b) THEN b ELSE NoBlock)

GetChainFromHash(p, h) ==
    LET first == Skipped(p, Number[p.head] - Number[h] - Span(p, h))
    IN  Repeat(Span(p, h), LAMBDA list : LengthenedTo(p, list, Below(p, list, first), h))

(* FindCanonicalChain: the incoming chain without its oldest block, newest *)
(* first up to the common block, against the current chain down to the     *)
(* common block, the genesis block uncounted.                              *)
ChainDifficulty(chain, common) ==
    LET sum[i \in 1 .. Len(chain)] ==
            IF i = Len(chain) \/ chain[i] = common THEN 0
            ELSE CalculateBlockTD(chain[i]) + sum[i + 1]
    IN  sum[1]

CurChainDifficulty(p, common) ==
    LET sum[b \in Block] ==
            IF b = common \/ ~HasBlock(p, PrevHash[b]) THEN 0
            ELSE CalculateBlockTD(b) + sum[PrevHash[b]]
    IN  sum[p.head]

-----------------------------------------------------------------------------
(* What the handlers call.                                                 *)

Panic(p) == [p EXCEPT !.up = FALSE]

CatchupWithPeer(p) ==
    IF p.catchingUp THEN p
    ELSE QueueMessage([p EXCEPT !.catchingUp = TRUE], GetChain(<<p.head>>))

(* Mutant of SyncWithPeerToLastKnown: forgets that the answer has come.    *)
SyncWithPeerStillCatchingUp(p) == CatchupWithPeer(p)

SyncWithPeerToLastKnown(p) == CatchupWithPeer([p EXCEPT !.catchingUp = FALSE])

(* Sends the oldest hash first.                                            *)
FindCommonParentBlock(p) ==
    LET n == IF p.blocksRequested = 0 THEN RequestedZero ELSE p.blocksRequested
    IN  IF p.catchingUp THEN p
        ELSE QueueMessage([p EXCEPT !.catchingUp = TRUE, !.blocksRequested = n],
                          GetChain(Reverse(Ancestors(p, p.head, n))))

(* Mutant of Doubled: the search never goes deeper.                        *)
DoubledNever(p) == p

Doubled(p) ==
    [p EXCEPT !.blocksRequested = SmallerOf(2 * @, MaxRequested)]

(* StateManager.Process: a block that passes becomes the current one,      *)
(* whatever chain it is on, and goes to every peer.                        *)
Verdict(p, b) ==
    IF ~HasBlock(p, PrevHash[b]) THEN "parent"
    ELSE IF HasBlock(p, b) \/ ValidateBlock(b, p.head) THEN "ok"
    ELSE "validation"

Process(p, b) ==
    IF Verdict(p, b) # "ok" \/ HasBlock(p, b) THEN p
    ELSE QueueMessage([p EXCEPT !.known = @ \cup {b}, !.head = b], Blocks(<<b>>))

(* The loop over a message, oldest block first, until one fails; a pair    *)
(* of the node and the error.                                              *)
ProcessAll(p, chain) ==
    LET step(q, b) == IF q.err # "ok" THEN q
                      ELSE [p |-> Process(q.p, b), err |-> Verdict(q.p, b)]
        after[i \in 1 .. Len(chain) + 1] ==
            IF i = Len(chain) + 1 THEN [p |-> p, err |-> "ok"]
            ELSE The({step(q, chain[i]) : q \in {after[i + 1]}})
    IN  after[1]

(* Mutant of ResetTillBlockHash: deletes the block it goes back to.        *)
ResetTillBlockHashDeletingNew(p, common) ==
    [p EXCEPT !.known = @ \ {common}, !.head = common]

(* ResetTillBlockHash.  Of the abandoned chain it deletes the last block.  *)
ResetTillBlockHash(p, common) ==
    [p EXCEPT !.known = @ \ {p.head}, !.head = common]

(* The positions of a message at which our chain and the peer's part.      *)
Splits(p, chain) ==
    {i \in DOMAIN chain : /\ ~HasBlock(p, chain[i])
                          /\ HasBlockWithPrevHash(p, PrevHash[chain[i]])}

(* The search of a diverted peer for the oldest split.                     *)
(* Mutant of Beats: a tie goes to the incoming chain.                      *)
BeatsOnTie(p, chain, common) ==
    ChainDifficulty(chain, common) >= CurChainDifficulty(p, common)

Beats(p, chain, common) ==
    ChainDifficulty(chain, common) > CurChainDifficulty(p, common)

Weigh(p, chain, common) ==
    IF ~Beats(p, chain, common) THEN p
    ELSE IF ~HasBlock(p, common) THEN Panic(p)
    ELSE SyncWithPeerToLastKnown(ResetTillBlockHash(p, common))

Divert(p, chain) ==
    IF Splits(p, chain) = {} THEN p
    ELSE The({Weigh([p EXCEPT !.diverted = FALSE], chain, PrevHash[chain[i]]) :
                 i \in {Max(Splits(p, chain))}})

-----------------------------------------------------------------------------
(* One handler for each message HandleInbound may read.                    *)

handleHandshake(p) == SyncWithPeerToLastKnown([p EXCEPT !.versionKnown = TRUE])

(* The blocks of a message are processed, and how that ends decides        *)
(* whether the node asks for more.                                         *)
Continue(q, err, chain) ==
    CASE err = "parent"     -> SyncWithPeerToLastKnown(q)
      [] err = "validation" -> [q EXCEPT !.catchingUp = FALSE]
      [] err = "ok" /\ chain = <<>> -> [q EXCEPT !.catchingUp = FALSE]
      [] err = "ok" /\ q.catchingUp /\ Len(chain) > 1 -> SyncWithPeerToLastKnown(q)
      [] OTHER -> q

ProcessBlocks(p, chain) ==
    The({Continue(r.p, r.err, chain) : r \in {ProcessAll(p, chain)}})

(* Without the oldest block of the message the node asks for more.         *)
Deeper(p, chain) ==
    IF ~p.up THEN p
    ELSE IF HasBlock(p, chain[Len(chain)]) THEN ProcessBlocks(p, chain)
    ELSE FindCommonParentBlock([Doubled(p) EXCEPT !.catchingUp = FALSE])

handleBlocks(p, chain) ==
    IF Len(chain) - 1 > 1 /\ p.diverted
    THEN The({Deeper(q, chain) : q \in {Divert(p, chain)}})
    ELSE ProcessBlocks(p, chain)

(* The first hash we know decides.                                         *)
Reply(p, chain) ==
    IF NoBlock \in Range(chain) THEN Panic(p) ELSE QueueMessage(p, Blocks(chain))

handleGetChain(p, hashes) ==
    LET ours == {i \in DOMAIN hashes : HasBlock(p, hashes[i])} IN
    IF hashes = <<>> THEN p
    ELSE IF ours = {} THEN QueueMessage(p, NotInChain)
    ELSE The({Reply(p, c) : c \in {GetChainFromHash(p, hashes[Min(ours)])}})

handleNotInChain(p) ==
    FindCommonParentBlock([(IF p.diverted THEN Doubled(p) ELSE p)
                               EXCEPT !.diverted = TRUE, !.catchingUp = FALSE])

Handled(p, msg) ==
    CASE msg.type = "handshake"  -> handleHandshake(p)
      [] msg.type = "block"      -> handleBlocks(p, msg.blocks)
      [] msg.type = "getChain"   -> handleGetChain(p, msg.blocks)
      [] msg.type = "notInChain" -> handleNotInChain(p)

-----------------------------------------------------------------------------
(* One turn of the read loop; HandleOutbound sends what the handler queued. *)
HandleInbound(n) ==
    /\ node[n].up
    /\ net[n] # <<>>
    /\ \E q \in {node[n]}, msg \in {Head(net[n])} : \E p \in {Handled(q, msg)} :
          /\ node' = [node EXCEPT ![n] = [p EXCEPT !.out = <<>>]]
          /\ net' = [m \in Node |-> IF m = n THEN Tail(net[n]) ELSE net[m] \o p.out]
    /\ UNCHANGED faults

(* The miner's block is processed and goes to the peer.  writeMessage      *)
(* drops what leaves the queue before the version of the peer is known.    *)
Mine(n, b) ==
    /\ node[n].up
    /\ PrevHash[b] = node[n].head
    /\ \E p \in {Process(node[n], b)} :
          /\ p.head = b
          /\ node' = [node EXCEPT ![n] = [p EXCEPT !.out = <<>>]]
          /\ \/ net' = [m \in Node |-> IF m = n THEN net[n] ELSE net[m] \o p.out]
             \/ ~p.versionKnown /\ UNCHANGED net
    /\ UNCHANGED faults

(* ReadMessages.  A frame that two reads cut in half is lost, and so are   *)
(* the frames the second read brings with its second half: what does not   *)
(* begin with the magic token is thrown away.                              *)
Lose(n) ==
    /\ faults < MaxFaults
    /\ node[n].up
    /\ \E k \in DOMAIN net[n] : net' = [net EXCEPT ![n] = SubSeq(@, k + 1, Len(@))]
    /\ faults' = faults + 1
    /\ UNCHANGED node

(* The connection breaks and the dialer connects again.                    *)
Reconnect ==
    /\ faults < MaxFaults
    /\ \A n \in Node : node[n].up
    /\ node' = [n \in Node |-> NewPeer(n, node[n])]
    /\ net' = [n \in Node |-> <<Handshake>>]
    /\ faults' = faults + 1

Next ==
    \/ Reconnect
    \/ \E n \in Node : HandleInbound(n) \/ Lose(n) \/ \E b \in Fresh : Mine(n, b)

Spec == Init /\ [][Next]_vars

(* The read loops run.  Mining, lost messages and connections are not fair. *)
LiveSpec == Spec /\ \A n \in Node : WF_vars(HandleInbound(n))

-----------------------------------------------------------------------------
Consecutive(chain) ==
    \A i \in 1 .. Len(chain) - 1 : chain[i + 1] = PrevHash[chain[i]]

MessageOK(msg) ==
    /\ msg.type \in {"handshake", "block", "getChain", "notInChain"}
    /\ msg.blocks \in Seq(Block)

\* Type invariant: whatever order resets and messages come in, a node's head is
\* one of the blocks it stores.
TypeOK ==
    /\ \A n \in Node : LET p == node[n] IN
          /\ p.known \subseteq Block
          /\ p.head \in p.known
          /\ {p.up, p.versionKnown, p.catchingUp, p.diverted} \subseteq BOOLEAN
          /\ p.blocksRequested \in 0 .. MaxRequested
          /\ \A i \in DOMAIN net[n] : MessageOK(net[n][i])
    /\ faults \in 0 .. MaxFaults

(* All ancestors of a block, stored or not, and their total difficulty.    *)
Ancestry[b \in Block] ==
    IF b = Genesis THEN {b} ELSE {b} \cup Ancestry[PrevHash[b]]

ChainTD == [b \in Block |-> MapThenSumSet(CalculateBlockTD, Ancestry[b] \ {Genesis})]

(* A node gives its current block up only when the message that makes it   *)
(* do so holds a block of a chain with more total difficulty, although     *)
(* FindCanonicalChain does not count the oldest block of the message.      *)
ResetOnlyForHeavier ==
    [][\A n \in Node : node[n].head \notin node'[n].known =>
          \E b \in Range(Head(net[n]).blocks) : ChainTD[b] > ChainTD[node[n].head]]_vars

Agree == \A n \in Node : node[n].head = node[Other(n)].head

(* As long as one node's chain extends the other's and nothing is lost,    *)
(* the two nodes end up with the same current block, whoever called whom,  *)
(* however many blocks one is behind and whatever is mined meanwhile:      *)
(* catchingUp never stays set with no answer on its way.                   *)
OneChain == \E n \in Node : node[n].head \in Ancestry[node[Other(n)].head]

FollowerCatchesUp == [](OneChain /\ faults = 0) => <>[]Agree

(* Two nodes that hold one chain each, parted for at least three blocks    *)
(* that fit one reply, end up on the heavier one when nothing is lost,     *)
(* provided it is heavier even without its oldest block: the lighter node  *)
(* finds the common block, however often it has to ask further back.       *)
Parted(n) == Ancestry[node[n].head] \ Ancestry[node[Other(n)].head]

Forked(n) ==
    /\ \A m \in Node : /\ node[m].known = Ancestry[node[m].head]
                       /\ Cardinality(Parted(m)) \in 3 .. MaxChain - 1
    /\ \E oldest \in Parted(n) :
          /\ PrevHash[oldest] \notin Parted(n)
          /\ ChainTD[node[n].head] - CalculateBlockTD(oldest)
                > ChainTD[node[Other(n)].head]

OnHeaviest == \A n \in Node : \A b \in node[n].known :
                 ChainTD[b] <= ChainTD[node[n].head]

HeavierForkWins ==
    (\E n \in Node : Forked(n)) /\ [](faults = 0) => <>[](Agree /\ OnHeaviest)
=============================================================================
