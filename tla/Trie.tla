--------------------------------- MODULE Trie ---------------------------------
(***************************************************************************)
(* The Merkle trie and its node cache (ethutil/trie.go) with the compact   *)
(* key encoding (encoding.go) and as much of RLP and of the untyped Value  *)
(* (rlp.go, value.go) as they depend on.                                   *)
(*                                                                         *)
(* An item is what the code keeps in an interface{}: a Go string, a byte   *)
(* slice (all a decoder makes), a list or nil.  A string is <<"text">> and *)
(* its bytes, a stored value <<"val", id, length>>, or a hash, which is    *)
(* injective: <<"sha", encoding>>.  Encoding forgets which Go type held a  *)
(* string, and the code takes different paths for the two.                 *)
(*                                                                         *)
(* The operations are the calls a State makes on its trie, and Reload, the *)
(* trie a block decoded from the database gets.  History variables say     *)
(* what the trie should hold.                                              *)
(***************************************************************************)
EXTENDS Integers, SequencesExt

CONSTANTS
    Terminator,     \* 16 in the code, where nibbles are 0 .. 15
    Keys,           \* keys, as sequences of nibbles
    Values,         \* values as they are stored: <<"val", id, length>>
    Deletable,      \* keys Delete is called with
    Stored,         \* insertions made and synced before the first call
    CacheLimit,     \* 200 in the code
    MaxOps

VARIABLES
    db,             \* hashes of the nodes in the database
    trie,           \* [root, prevRoot, nodes, dirty]: Trie with its Cache
    snapshot,       \* State.Snapshot: a copy of the trie, or NoSnapshot
    map,            \* history: what the trie holds
    claimed,        \* history: root and contents at the last Sync
    form,           \* history: fresh, decoded, or deleted from when decoded
    orphan,         \* history: reverted to a root that was never synced
    lost,           \* history: Undo of an orphan, Sync that skipped nodes
    ops             \* bounded by MaxOps

history == <<claimed, form, orphan, lost>>
vars == <<db, trie, snapshot, map, history, ops>>

NoSnapshot == [none |-> TRUE]
Empty      == <<"text">>
NoValue    == Empty
Nil        == <<"nil">>
GoString(x) == <<"string", x>>
Bytes(x)    == <<"bytes", x>>
List(s)     == <<"list", s>>

\* The({F(x) : x \in {e}}) is F(e), with e evaluated once.
The(S) == CHOOSE x \in S : TRUE

IsList(item)    == item[1] = "list"
Slots           == Terminator + 1
EmptyStringSlice == [i \in 1 .. Slots |-> GoString(Empty)]

-----------------------------------------------------------------------------
(* RLP: what is encoded, how long it is, and what decoding makes of it.    *)

RECURSIVE Encode(_), EncodedLen(_), ItemsLen(_), Decode(_)

Encode(item) ==
    CASE item = Nil -> List(<<>>)
      [] IsList(item) -> List([i \in DOMAIN item[2] |-> Encode(item[2][i])])
      [] OTHER -> item[2]

Header(n) == IF n < 56 THEN 1 ELSE IF n < 256 THEN 2 ELSE 3
StringLen(x) == CASE x[1] = "text" -> Len(x) - 1
                  [] x[1] = "val" -> x[3]
                  [] x[1] = "sha" -> 32
ItemsLen(encs) == IF encs = <<>> THEN 0 ELSE EncodedLen(Head(encs)) + ItemsLen(Tail(encs))
EncodedLen(enc) ==
    IF IsList(enc) THEN LET n == ItemsLen(enc[2]) IN Header(n) + n
    ELSE LET n == StringLen(enc) IN IF n = 1 THEN 1 ELSE Header(n) + n

DecodeEmptyAsNil(enc) ==
    IF IsList(enc) THEN List([i \in DOMAIN enc[2] |-> Decode(enc[2][i])])
    ELSE IF enc = Empty THEN Nil ELSE Bytes(enc)
Decode(enc) ==
    IF IsList(enc) THEN List([i \in DOMAIN enc[2] |-> Decode(enc[2][i])]) ELSE Bytes(enc)

\* Value.Len, Value.Str and Value.Bytes: Bytes of a Go string is empty.
ItemLen(item) ==
    CASE item = Nil -> 0
      [] IsList(item) -> Len(item[2])
      [] OTHER -> StringLen(item[2])
Str(item)       == IF item = Nil \/ IsList(item) THEN Empty ELSE item[2]
ValueBytes(item) == IF item[1] = "bytes" THEN item[2] ELSE Empty

\* Value.Get: out of range, and of anything but a list, is nil.
Get(item, i) == IF IsList(item) /\ i < Len(item[2]) THEN item[2][i + 1] ELSE Nil

-----------------------------------------------------------------------------
(* Keys.                                                                   *)

CompactHexDecode(key) == Append(key, Terminator)

CompactEncode(hex) ==
    LET ends == Last(hex) = Terminator
        digits == IF ends THEN Front(hex) ELSE hex
        odd == Len(digits) % 2
        flags == (IF ends THEN 2 ELSE 0) + odd
        all == (IF odd = 1 THEN <<flags>> ELSE <<flags, 0>>) \o digits
    IN  Empty \o [i \in 1 .. Len(all) \div 2 |-> 16 * all[2 * i - 1] + all[2 * i]]

CompactDecode(str) ==
    LET base == [i \in 1 .. 2 * (Len(str) - 1) |->
                    IF i % 2 = 1 THEN str[i \div 2 + 2] \div 16 ELSE str[i \div 2 + 1] % 16]
        all == IF base[1] >= 2 THEN Append(base, Terminator) ELSE base
    IN  IF base[1] % 2 = 1 THEN Tail(all) ELSE Tail(Tail(all))

From(seq, n) == SubSeq(seq, n + 1, Len(seq))

\* A key ends with a terminator, so the slices the code compares never run
\* past both of the keys.
MatchingNibbleLengthShort(a, b) ==
    Cardinality({n \in 1 .. Len(b) - 1 : IsPrefix(SubSeq(b, 1, n), a)})
MatchingNibbleLength(a, b) ==
    Cardinality({n \in 1 .. Len(b) : IsPrefix(SubSeq(b, 1, n), a)})

-----------------------------------------------------------------------------
(* The cache.  These return the cache after the call and the result.       *)

CacheOf(t)     == [nodes |-> t.nodes, dirty |-> t.dirty]
With(c, t)     == [t EXCEPT !.nodes = c.nodes, !.dirty = c.dirty]
NoNodes        == [sha \in {} |-> 0]
Node(v, dirty) == [value |-> v, dirty |-> dirty]

Put(c, item) ==
    The({IF EncodedLen(enc) < 32 THEN <<c, item>>
         ELSE << [nodes |-> (<<"sha", enc>> :> Node(item, TRUE)) @@ c.nodes, dirty |-> TRUE],
                 Bytes(<<"sha", enc>>) >> :
            enc \in {Encode(item)}})

\* A node the database has not is cached as nil.
CacheGet(c, d, key) ==
    LET value == IF key \in d THEN Decode(key[2]) ELSE Nil
    IN  IF key \in DOMAIN c.nodes THEN <<c, c.nodes[key].value>>
        ELSE <<[c EXCEPT !.nodes = @ @@ (key :> Node(value, FALSE))], value>>

GetNode(c, d, item) ==
    IF Get(item, 0) # Nil \/ Str(item) = Empty THEN <<c, item>>
    ELSE CacheGet(c, d, ValueBytes(item))

-----------------------------------------------------------------------------
(* The trie.                                                               *)

RECURSIVE GetState(_, _, _, _), InsertState(_, _, _, _, _), DeleteState(_, _, _, _)

GetBelow(c, d, current, key) ==
    LET k == CompactDecode(Str(Get(current, 0)))
    IN  CASE ItemLen(current) = 2 /\ IsPrefix(k, key) ->
                GetState(c, d, Get(current, 1), From(key, Len(k)))
          [] ItemLen(current) = Slots -> GetState(c, d, Get(current, Head(key)), Tail(key))
          [] OTHER -> <<c, GoString(Empty)>>

GetState(c, d, node, key) ==
    IF key = <<>> \/ ItemLen(node) = 0 THEN <<c, node>>
    ELSE The({GetBelow(found[1], d, found[2], key) : found \in {GetNode(c, d, node)}})

\* A node that is a Go string counts as empty, whatever it holds.
NoNode(node) == node = Nil \/ node[1] = "string" \/ ItemLen(node) = 0
TwoNode(key, item) == List(<<GoString(CompactEncode(key)), item>>)
Copied(current) ==
    [i \in 1 .. Slots |-> IF Get(current, i - 1) = Nil THEN GoString(Empty) ELSE Get(current, i - 1)]

InsertBranch(c, d, current, key, value) ==
    The({Put(r[1], List([Copied(current) EXCEPT ![Head(key) + 1] = r[2]])) :
            r \in {InsertState(c, d, Get(current, Head(key)), Tail(key), value)}})

\* The key differs from the node's after n nibbles: a branch for the two.
Expand(c, d, k, v, key, value, n) ==
    The({The({Put(new[1], List([EmptyStringSlice EXCEPT ![k[n + 1] + 1] = old[2],
                                                        ![key[n + 1] + 1] = new[2]])) :
                 new \in {InsertState(old[1], d, GoString(Empty), From(key, n + 1), value)}}) :
            old \in {InsertState(c, d, GoString(Empty), From(k, n + 1), v)}})

InsertTwo(c, d, current, key, value) ==
    LET k == CompactDecode(Str(Get(current, 0)))
        v == Get(current, 1)
        n == MatchingNibbleLength(key, k)
    IN  IF k = key THEN Put(c, TwoNode(key, value))
        ELSE The({IF n = 0 THEN r ELSE Put(r[1], TwoNode(SubSeq(key, 1, n), r[2])) :
                     r \in {IF n = Len(k) THEN InsertState(c, d, v, From(key, n), value)
                            ELSE Expand(c, d, k, v, key, value, n)}})

InsertState(c, d, node, key, value) ==
    IF key = <<>> THEN <<c, value>>
    ELSE IF NoNode(node) THEN Put(c, TwoNode(key, value))
    ELSE The({IF ItemLen(found[2]) = 2 THEN InsertTwo(found[1], d, found[2], key, value)
              ELSE InsertBranch(found[1], d, found[2], key, value) :
                 found \in {GetNode(c, d, node)}})

\* A branch collapses when one slot differs from the Go string "": the empty
\* slots of a decoded branch are byte slices and count as taken.
Taken(slots) == {i \in 0 .. Terminator : slots[i + 1] # GoString(Empty)}

Collapse(c, d, slots) ==
    LET i == The(Taken(slots))
    IN  IF Cardinality(Taken(slots)) # 1 THEN <<c, List(slots)>>
        ELSE IF i = Terminator THEN <<c, TwoNode(<<i>>, slots[i + 1])>>
        ELSE The({<< child[1],
                     IF ItemLen(child[2]) = Slots THEN TwoNode(<<i>>, slots[i + 1])
                     ELSE TwoNode(<<i>> \o CompactDecode(Str(Get(child[2], 0))),
                                  GoString(Str(Get(child[2], 1)))) >> :
                     child \in {GetNode(c, d, slots[i + 1])}})

DeleteBranch(c, d, current, key) ==
    LET slots == Copied(current)
    IN  The({The({Put(rest[1], rest[2]) :
                     rest \in {Collapse(slot[1], d, [slots EXCEPT ![Head(key) + 1] = slot[2]])}}) :
                slot \in {DeleteState(c, d, slots[Head(key) + 1], Tail(key))}})

\* What is left below a two-item node is joined to it when it is one, too.
JoinNever(r, child, current, k) ==
    Put(child[1], List(<<GoString(Str(Get(current, 0))), r[2]>>))
Join(r, child, current, k) ==
    Put(child[1], IF ItemLen(child[2]) = 2
                  THEN TwoNode(k \o CompactDecode(Str(Get(child[2], 0))), Get(child[2], 1))
                  ELSE List(<<GoString(Str(Get(current, 0))), r[2]>>))

DeleteTwo(c, d, node, current, key) ==
    LET k == CompactDecode(Str(Get(current, 0)))
    IN  IF k = key THEN <<c, GoString(Empty)>>
        ELSE IF ~IsPrefix(k, key) THEN <<c, node>>
        ELSE The({The({Join(r, child, current, k) : child \in {GetNode(r[1], d, r[2])}}) :
                     r \in {DeleteState(c, d, Get(current, 1), From(key, Len(k)))}})

DeleteState(c, d, node, key) ==
    IF key = <<>> \/ NoNode(node) THEN <<c, GoString(Empty)>>
    ELSE The({IF ItemLen(found[2]) = 2 THEN DeleteTwo(found[1], d, node, found[2], key)
              ELSE DeleteBranch(found[1], d, found[2], key) :
                 found \in {GetNode(c, d, node)}})

NewTrie(root) == [root |-> root, prevRoot |-> root, nodes |-> NoNodes, dirty |-> FALSE]

Lookup(t, d, key) == GetState(CacheOf(t), d, t.root, CompactHexDecode(key))

-----------------------------------------------------------------------------
(* TrieIterator.                                                           *)

RECURSIVE IterateNode(_, _, _, _), ShasOf(_, _, _)

FetchNode(c, d, key, sha) == IterateNode(c, d, key, CacheGet(c, d, sha)[2])

\* The calls of the callback, in order.  An inline node below a two-item node
\* is visited without the key that leads to it.
IterateNode(c, d, key, item) ==
    LET k == CompactDecode(Str(Get(item, 0)))
        Slot(i) == Get(item, i)
        Calls[i \in 0 .. Slots] ==
            IF i = Slots THEN <<>>
            ELSE (IF i = Terminator /\ ItemLen(Slot(i)) # 0 THEN << <<key \o <<i>>, Slot(i)>> >>
                  ELSE IF Str(Slot(i)) = Empty THEN IterateNode(c, d, key \o <<i>>, Slot(i))
                  ELSE FetchNode(c, d, key \o <<i>>, Str(Slot(i)))) \o Calls[i + 1]
    IN  IF ItemLen(item) = 0 THEN <<>>
        ELSE IF ItemLen(item) = Slots THEN Calls[0]
        ELSE IF Str(Slot(1)) = Empty THEN IterateNode(c, d, key, Slot(1))
        ELSE IF Last(k) = Terminator THEN << <<key \o k, Slot(1)>> >>
        ELSE FetchNode(c, d, key \o k, ValueBytes(Slot(1)))

Each(t, d) == FetchNode(CacheOf(t), d, <<>>, ValueBytes(t.root))

\* Collect: the nodes it fetches below an item, and the hashes it returns.
\* Of the children of a branch it returns the second, whichever it is at.
ShasOf(c, d, item) ==
    LET ends == ItemLen(item) = 2 /\ Last(CompactDecode(Str(Get(item, 0)))) = Terminator
        below == IF ItemLen(item) = 0 \/ (ends /\ Str(Get(item, 1)) # Empty) THEN {}
                 ELSE IF ItemLen(item) = 2 THEN {1} ELSE 0 .. Terminator - 1
        inline == UNION {ShasOf(c, d, Get(item, i)) :
                            i \in {j \in below : Str(Get(item, j)) = Empty}}
        hashed == {Str(Get(item, i)) : i \in {j \in below : Str(Get(item, j)) # Empty}}
    IN  inline
        \cup UNION {{<<"fetched", sha>>} \cup ShasOf(c, d, CacheGet(c, d, sha)[2]) : sha \in hashed}
        \cup IF hashed = {} THEN {} ELSE {<<"returned", ValueBytes(Get(item, 1))>>}

Collect(t, d) ==
    LET root == ValueBytes(t.root)
    IN  {<<"fetched", root>>} \cup ShasOf(CacheOf(t), d, CacheGet(CacheOf(t), d, root)[2])

-----------------------------------------------------------------------------
(* The calls.                                                              *)

Step == ops < MaxOps /\ ~lost /\ ops' = ops + 1

Update(key, value) ==
    /\ Step
    /\ \E r \in {InsertState(CacheOf(trie), db, trie.root, CompactHexDecode(key),
                             GoString(value))} :
          trie' = [With(r[1], trie) EXCEPT !.root = r[2]]
    /\ map' = [map EXCEPT ![key] = value]
    /\ UNCHANGED <<db, snapshot, history>>

\* Deleting an absent key that is a prefix of a longer one reads past the
\* slice of its nibbles and panics: not called here.
Delete(key) ==
    /\ Step
    /\ map[key] # NoValue
    /\ \E r \in {DeleteState(CacheOf(trie), db, trie.root, CompactHexDecode(key))} :
          trie' = [With(r[1], trie) EXCEPT !.root = r[2]]
    /\ map' = [map EXCEPT ![key] = NoValue]
    /\ form' = IF form = "fresh" THEN form ELSE "shrunk"
    /\ UNCHANGED <<db, snapshot, claimed, orphan, lost>>

\* A read fills the cache.
Read(key) ==
    /\ Step
    /\ \E r \in {Lookup(trie, db, key)} : trie' = With(r[1], trie)
    /\ trie' # trie
    /\ UNCHANGED <<db, snapshot, map, history>>

Dirty(nodes) == {sha \in DOMAIN nodes : nodes[sha].dirty}
Overfull(nodes) == Cardinality(DOMAIN nodes) > CacheLimit

\* Commit writes nothing when it thinks the cache clean.
Commit(t) ==
    [t EXCEPT !.dirty = FALSE,
              !.nodes = IF ~t.dirty THEN @
                        ELSE IF Overfull(@) THEN NoNodes
                        ELSE [sha \in DOMAIN @ |-> Node(@[sha].value, FALSE)]]
WrittenIfFits(t) == IF t.dirty /\ ~Overfull(t.nodes) THEN Dirty(t.nodes) ELSE {}
Written(t) == IF t.dirty THEN Dirty(t.nodes) ELSE {}

Sync ==
    /\ Step
    /\ db' = db \cup Written(trie)
    /\ trie' = [Commit(trie) EXCEPT !.prevRoot = trie.root]
    /\ claimed' = [root |-> trie.root, map |-> map]
    /\ form' = IF form = "fresh" /\ trie.dirty /\ Overfull(trie.nodes) THEN "decoded" ELSE form
    /\ lost' = (~trie.dirty /\ ~(Dirty(trie.nodes) \subseteq db))
    /\ orphan' = FALSE
    /\ UNCHANGED <<snapshot, map>>

Undone(t) ==
    [t EXCEPT !.nodes = [sha \in DOMAIN @ \ Dirty(@) |-> @[sha]],
              !.dirty = FALSE, !.root = t.prevRoot]

Undo ==
    /\ Step
    /\ trie' = Undone(trie)
    /\ map' = IF orphan THEN map ELSE claimed.map
    /\ lost' = orphan
    /\ form' = IF form = "fresh" /\ Dirty(trie.nodes) \cap db # {} THEN "decoded" ELSE form
    /\ UNCHANGED <<db, snapshot, claimed, orphan>>

\* Trie.Copy: its own nodes, clean, and the present root as the one to go
\* back to.
CopyOf(t) == [t EXCEPT !.prevRoot = t.root, !.dirty = FALSE]

TakeSnapshot ==
    /\ Step
    /\ snapshot' = [none |-> FALSE, trie |-> CopyOf(trie), map |-> map]
    /\ UNCHANGED <<db, trie, map, history>>

\* State.Revert puts the copy itself in place.
Revert ==
    /\ Step
    /\ snapshot # NoSnapshot
    /\ trie' = snapshot.trie
    /\ map' = snapshot.map
    /\ orphan' = (Encode(snapshot.trie.prevRoot) # Encode(claimed.root))
    /\ snapshot' = NoSnapshot
    /\ UNCHANGED <<db, claimed, form, lost>>

\* A restart, or the next block: the root comes decoded from the database.
Reload ==
    /\ Step
    /\ trie' = NewTrie(Decode(Encode(claimed.root)))
    /\ map' = claimed.map
    /\ snapshot' = NoSnapshot
    /\ form' = IF form = "shrunk" THEN form ELSE "decoded"
    /\ orphan' = FALSE
    /\ UNCHANGED <<db, claimed, lost>>

\* State.Purge, when a contract commits suicide: the nodes go from the
\* database at once, whatever becomes of the block.
Purge ==
    /\ Step
    /\ trie.root # GoString(Empty)
    /\ \E found \in {Collect(trie, db)} :
          LET fetched == {f[2] : f \in {g \in found : g[1] = "fetched"}}
              shas == {f[2] : f \in {g \in found : g[1] = "returned"}}
              nodes == trie.nodes @@ [sha \in fetched |-> Node(CacheGet(CacheOf(trie), db, sha)[2], FALSE)]
          IN  /\ trie' = [trie EXCEPT !.nodes = [sha \in DOMAIN nodes \ shas |-> nodes[sha]]]
              /\ db' = db \ shas
              /\ lost' = (shas \ {Empty} # {})
    /\ UNCHANGED <<snapshot, map, claimed, form, orphan>>

RECURSIVE Filled(_, _)
Filled(r, pairs) ==
    IF pairs = <<>> THEN [NewTrie(r[2]) EXCEPT !.nodes = r[1].nodes, !.dirty = r[1].dirty]
    ELSE Filled(InsertState(r[1], {}, r[2], CompactHexDecode(Head(pairs)[1]),
                            GoString(Head(pairs)[2])), Tail(pairs))

Init ==
    /\ \E pairs \in Stored :
          \E t \in {Filled(<<[nodes |-> NoNodes, dirty |-> FALSE], GoString(Empty)>>, pairs)} :
             /\ db = Dirty(t.nodes)
             /\ trie = [Commit(t) EXCEPT !.prevRoot = t.root]
             /\ map = [k \in Keys |-> IF \E p \in ToSet(pairs) : p[1] = k
                                      THEN (CHOOSE p \in ToSet(pairs) : p[1] = k)[2] ELSE NoValue]
             /\ form = IF Overfull(t.nodes) THEN "decoded" ELSE "fresh"
    /\ claimed = [root |-> trie.root, map |-> map]
    /\ snapshot = NoSnapshot
    /\ orphan = FALSE /\ lost = FALSE
    /\ ops = 0

Next ==
    \/ \E k \in Keys, v \in Values : Update(k, v)
    \/ \E k \in Deletable : Delete(k)
    \/ \E k \in Keys : Read(k)
    \/ Sync \/ Undo \/ TakeSnapshot \/ Revert \/ Reload \/ Purge

Spec == Init /\ [][Next]_vars

-----------------------------------------------------------------------------
(* Properties.                                                             *)

\* Every cached node is stored under its own hash, and every root the trie
\* can go back to is a string or a list.
TypeOK ==
    /\ \A sha \in DOMAIN trie.nodes :
          \/ trie.nodes[sha].value = Nil
          \/ sha = <<"sha", Encode(trie.nodes[sha].value)>>
    /\ {trie.root[1], trie.prevRoot[1]} \subseteq {"string", "bytes", "list"}
    /\ \A sha \in db : sha[1] = "sha"
    /\ ops \in 0 .. MaxOps

Holds(t, contents) == \A k \in Keys : Str(Lookup(t, db, k)[2]) = contents[k]

\* Every stored value is called back once.
Visits(t, contents) ==
    \E seen \in {Each(t, db)} :
       /\ Len(seen) = Cardinality({k \in Keys : contents[k] # NoValue})
       /\ \A v \in Values : Cardinality({i \in DOMAIN seen : Str(seen[i][2]) = v})
                           = Cardinality({k \in Keys : contents[k] = v})

\* Whatever was inserted, deleted, synced, undone, copied or decoded, a key
\* reads as what was last stored under it (Update, Get, Undo, Copy), and the
\* iterator finds every value, in a trie whose root is a hash as EachStorage
\* expects.
LookupAgrees ==
    ~lost => Holds(trie, map) /\ (trie.root[1] = "bytes" => Visits(trie, map))

\* What Sync left can be read from the database alone ("Save the cached value
\* to the database", trie.go:147).
SyncIsDurable == Holds(NewTrie(Decode(Encode(claimed.root))), claimed.map)

\* The same, unless what was synced or undone was a copy made by Revert that
\* holds nodes nobody wrote and does not know of them.
SyncIsDurableUnlessLost == ~lost => SyncIsDurable

\* The root depends on the contents alone, not on the order of the calls nor
\* on which nodes had been decoded: it is the one built from scratch.  Only a
\* deletion from decoded branches, which never collapse, is left out.
RECURSIVE Build(_)
Build(pairs) ==
    LET keys == {p[1] : p \in pairs}
        some == CHOOSE p \in pairs : TRUE
        shared == {n \in 0 .. Len(some[1]) : \A k \in keys : IsPrefix(SubSeq(some[1], 1, n), k)}
        m == CHOOSE n \in shared : \A o \in shared : o <= n
        Slot(i) == {<<Tail(p[1]), p[2]>> : p \in {q \in pairs : q[1][1] = i}}
        item == IF m > 0
                THEN List(<<CompactEncode(SubSeq(some[1], 1, m)),
                            Build({<<From(p[1], m), p[2]>> : p \in pairs})>>)
                ELSE List([i \in 1 .. Slots |-> Build(Slot(i - 1))])
    IN  IF pairs = {} THEN Empty
        ELSE IF keys = {<<>>} THEN some[2]
        ELSE The({IF EncodedLen(e) < 32 THEN e ELSE <<"sha", e>> : e \in {item}})

RootIsCanonical ==
    form # "shrunk" /\ ~lost =>
        Encode(trie.root) =
            Build({<<CompactHexDecode(k), map[k]>> : k \in {k \in Keys : map[k] # NoValue}})
=============================================================================
