-------------------------------- MODULE Ledger --------------------------------
(***************************************************************************)
(* What a block does to the world state: ApplyTransactions, EvalScript and *)
(* AccumelateRewards (ethchain/state_manager.go), ProcessTransaction       *)
(* (transaction_pool.go), the state objects (state.go, state_object.go)    *)
(* and the instructions of vm.go that leave their closure.                 *)
(*                                                                         *)
(* A state object is decoded afresh whenever it is fetched: the copies a   *)
(* running transaction holds (the sender's account, the object of every    *)
(* closure) know nothing of each other, and the last one written back      *)
(* wins.  Their storage is shared: it is a trie behind a pointer (heap),   *)
(* and State.states keeps the pointer of every object written back.        *)
(* Addresses are numbers with a non-zero first byte: big.Int.Bytes, which  *)
(* CALL and SUICIDE use, cuts leading zeros off.                           *)
(***************************************************************************)
EXTENDS Vm

CONSTANTS
    Genesis,                \* the state before the block: object by address
    Bodies,                 \* lists of transactions a block may hold
    NoAddress,              \* the empty recipient of a contract creation
    CreateAddress(_, _),    \* ethutil.CreateAddress and Transaction.CreationAddress
    BlockVars,              \* what the block instructions push: by opcode
    Coinbase, Uncles,       \* addresses to reward: of the block, of its uncles
    BlockReward, UncleReward, UncleInclusionReward

Transaction ==
    [from : Nat, nonce : Nat, to : Nat, value : Nat, gas : Nat, price : Nat,
     data : Seq(Byte), creates : BOOLEAN]

ASSUME BodyAssumption == \A body \in Bodies : body \in Seq(Transaction)

ASSUME GenesisAssumption ==
    /\ DOMAIN Genesis \subseteq Nat
    /\ Genesis \in [DOMAIN Genesis -> [amount : Nat, nonce : Nat, code : Seq(Byte),
                                       root : {Genesis[a].root : a \in DOMAIN Genesis}]]
    /\ \A a \in DOMAIN Genesis : LET root == Genesis[a].root
                                IN  root \in [DOMAIN root -> Nat] /\ DOMAIN root \subseteq Nat

ASSUME BlockAssumption ==
    /\ NoAddress \in Nat /\ Coinbase \in Nat /\ Uncles \in Seq(Nat)
    /\ BlockVars \in [Op.PREVHASH .. Op.DIFFICULTY -> Int]
    /\ BlockReward \in Nat /\ UncleReward \in Nat /\ UncleInclusionReward \in Nat

Senders == UNION {{body[i].from : i \in DOMAIN body} : body \in Bodies}

\* What hashes are taken to be: numbers, and the address of a contract, the
\* hash of its creator's address and nonce, is not that of a key somebody
\* signs transactions with.
HashesAreNumbers   == \A bytes \in Seq(Byte) : Sha3(bytes) \in Nat
AddressesAreNumbers == \A a, n \in Nat : CreateAddress(a, n) \in Nat \ {0}
NoCollision        == \A a, n \in Nat : CreateAddress(a, n) \notin Senders

VARIABLES
    state,          \* trie: encoded objects; states: cached storage; heap
    txs,            \* transactions of the block left to apply
    phase,
    frames,         \* running closures, innermost last
    account,        \* EvalScript's copy of the sender
    txGas,          \* totalGasUsed of ApplyTransaction
    receipts,       \* receipts: transaction, cumulative gas
    processed,      \* history: sender and nonce of what ProcessTransaction moved
    burnt,          \* history: gas charged for the steps of this transaction
    returned        \* history: gas given back to the account

ledger  == <<txs, phase, txGas, receipts, processed>>
machine == <<frames, account, burnt, returned>>
vars    == <<state, ledger, machine>>

GasTx  == 500
Idle   == [addr |-> NoAddress, amount |-> 0, nonce |-> 0, store |-> 0, code |-> <<>>]
NoItems == [loc \in {} |-> 0]

-----------------------------------------------------------------------------
(* State objects.                                                          *)

Exists(st, a) == a \in DOMAIN st.trie
Root(st, obj) == IF obj.store = 0 THEN NoItems ELSE st.heap[obj.store]

\* NewStateObjectFromBytes: an object with a storage trie of its own.
Decoded(st, a) == [addr |-> a, amount |-> st.trie[a].amount, nonce |-> st.trie[a].nonce,
                   store |-> Len(st.heap) + 1, code |-> st.trie[a].code]
WithStore(st, root) == [st EXCEPT !.heap = Append(@, root)]

\* GetAccount never looks at the cached storage; a new account has none.
GetAccount(st, a) ==
    IF Exists(st, a) THEN Decoded(st, a) ELSE [Idle EXCEPT !.addr = a]
GetStateObject(st, a) ==
    IF a \in DOMAIN st.states THEN [Decoded(st, a) EXCEPT !.store = st.states[a]]
    ELSE Decoded(st, a)
AfterGet(st, a) == IF Exists(st, a) THEN WithStore(st, st.trie[a].root) ELSE st

\* f with the value v at x.
With(f, x, v) == [y \in DOMAIN f \cup {x} |-> IF y = x THEN v ELSE f[y]]

\* RLP drops the sign of an amount.
UpdateStateObjectSigned(st, obj) ==
    [st EXCEPT !.trie = With(@, obj.addr, [amount |-> obj.amount, nonce |-> obj.nonce,
                                           root |-> Root(st, obj), code |-> obj.code])]
UpdateStateObject(st, obj) ==
    [st EXCEPT
       !.states = IF obj.store = 0 \/ obj.addr \in DOMAIN @ THEN @
                  ELSE With(@, obj.addr, obj.store),
       !.trie = With(@, obj.addr, [amount |-> Abs(obj.amount), nonce |-> obj.nonce,
                                   root |-> Root(st, obj), code |-> obj.code])]

AddAmount(obj, n) == [obj EXCEPT !.amount = @ + n]

GetMem(st, obj, loc) ==
    IF Abs(loc) \in DOMAIN st.heap[obj.store] THEN st.heap[obj.store][Abs(loc)] ELSE 0
SetStorage(st, obj, loc, val) ==
    [st EXCEPT !.heap[obj.store] = With(@, Abs(loc), Abs(val))]

\* Snapshot copies the storage of every cached object; the copies are what
\* Revert puts in place.
Nested(st) == SetToSeq(DOMAIN st.states)
Copied(st) ==
    [st EXCEPT !.heap = @ \o [i \in DOMAIN Nested(st) |-> @[st.states[Nested(st)[i]]]]]
SnapshotShared(st) == [trie |-> st.trie, states |-> st.states]
Snapshot(st) ==
    [trie |-> st.trie,
     states |-> [a \in DOMAIN st.states |->
                    Len(st.heap) + CHOOSE i \in DOMAIN Nested(st) : Nested(st)[i] = a]]
Revert(st, snapshot) == [st EXCEPT !.trie = snapshot.trie, !.states = snapshot.states]

\* What can be read from a state.
View(st) == [trie |-> st.trie, storage |-> [a \in DOMAIN st.states |-> st.heap[st.states[a]]]]

-----------------------------------------------------------------------------
(* A transaction.                                                          *)

NewContract(st, a, amount) ==
    [addr |-> a, amount |-> amount, nonce |-> 0, store |-> Len(st.heap) + 1, code |-> <<>>]

WrongNonceAllowsOld(sender, tx) == sender.nonce < tx.nonce
WrongNonce(sender, tx) == sender.nonce # tx.nonce

DataGas(tx) == (Len(tx.data) \div 32) * 100
GasCost(tx) == tx.gas * tx.price
Total(tx)   == tx.value + GasCost(tx)

\* ProcessTransaction: the state after it, the gas it counts and its error.
\* The receiver is read before the sender is written; sent to oneself, the
\* value stays and only the fee goes.
ProcessTransaction(st, tx) ==
    LET sender == GetAccount(st, tx.from)
        st1 == AfterGet(st, tx.from)
        receiver == GetAccount(st1, tx.to)
        st2 == AfterGet(st1, tx.to)
        paid(n) == [sender EXCEPT !.amount = @ - n, !.nonce = @ + 1]
        fail(err, gas) == [state |-> st1, gas |-> gas, err |-> err]
    IN  IF WrongNonce(sender, tx) THEN fail("nonce", 0)
        ELSE IF sender.amount < Total(tx) THEN fail("funds", DataGas(tx))
        ELSE [state |-> IF tx.to = tx.from
                        THEN UpdateStateObject(st2, paid(GasTx * tx.price))
                        ELSE UpdateStateObject(
                                UpdateStateObject(st2, AddAmount(receiver, tx.value)),
                                paid(Total(tx))),
              gas |-> DataGas(tx) + IF tx.to = tx.from THEN GasTx ELSE 0,
              err |-> "none"]

\* MakeStateObject: the value is credited to the contract as well.
MakeStateObject(st, tx) ==
    LET contract == NewContract(st, CreateAddress(tx.from, tx.nonce), tx.value)
        st1 == UpdateStateObject(WithStore(st, NoItems), contract)
    IN  [state |-> [st1 EXCEPT !.states = With(@, contract.addr, contract.store)],
         object |-> contract]

Receipt(tx, gas) ==
    [tx |-> tx, used |-> gas + IF receipts = <<>> THEN 0 ELSE Last(receipts).used]

\* ApplyTransaction up to the first instruction.  Of the errors only the one
\* about the nonce of a message keeps the transaction out of the receipts; a
\* contract creation wraps it and gets its receipt.
ApplyTransaction ==
    /\ phase = "apply" /\ txs # <<>>
    /\ LET tx == Head(txs)
           p == ProcessTransaction(state, tx)
           st1 == AfterGet(p.state, tx.to)
           made == MakeStateObject(p.state, tx)
           object == IF tx.creates THEN made.object ELSE GetStateObject(p.state, tx.to)
           st == IF tx.creates THEN made.state ELSE st1
           script == IF tx.creates THEN tx.data ELSE object.code
           sender == GetAccount(st, tx.from)
           runs == /\ p.err = "none"
                   /\ tx.creates \/ (Exists(p.state, tx.to) /\ object.code # <<>>)
           paysTwice == GasCost(tx) > sender.amount
       IN  /\ processed' = IF p.err = "none"
                           THEN Append(processed, <<tx.from, tx.nonce>>) ELSE processed
           /\ txs' = IF runs THEN txs ELSE Tail(txs)
           /\ phase' = IF ~runs THEN "apply" ELSE IF paysTwice THEN "crashed" ELSE "run"
           /\ state' = IF ~runs THEN IF tx.creates THEN p.state ELSE st1
                       ELSE AfterGet(st, tx.from)
           /\ receipts' = IF runs \/ (p.err = "nonce" /\ ~tx.creates) THEN receipts
                          ELSE Append(receipts, Receipt(tx, p.gas))
           /\ txGas' = IF runs THEN p.gas ELSE 0
           /\ account' = IF runs THEN [sender EXCEPT !.amount = @ - GasCost(tx)] ELSE account
           /\ frames' = IF runs /\ ~paysTwice
                        THEN << NewClosure("tx", 0, tx.from, object, script, tx.data, tx.gas,
                                           [tx |-> tx]) >>
                        ELSE frames
    /\ burnt' = 0 /\ returned' = 0

-----------------------------------------------------------------------------
(* The running closure.                                                    *)

Inner == Len(frames)
Frame == frames[Inner]

Env ==
    [op \in BlockOps |-> CASE op = Op.ORIGIN -> account.addr
                          [] op = Op.CALLVALUE -> frames[1].resume.tx.value
                          [] op = Op.GASPRICE -> frames[1].resume.tx.price
                          [] OTHER -> BlockVars[op]]

Known == LocalOps \cup {Op.STOP, Op.SLOAD, Op.SSTORE, Op.CREATE, Op.CALL, Op.RETURN, Op.SUICIDE}

\* Fetches an instruction and charges for it.  A frame that cannot go on is
\* not ok.
Peeks(op) == IF op = Op.CREATE THEN 3 ELSE IF op = Op.SSTORE THEN 2 ELSE 0
Charged(f) ==
    LET op == OpOf(f)
        stored == IF op = Op.SSTORE THEN GetMem(state, f.object, f.stack[2]) ELSE 0
        paid == UseGas(f, StepGas(f, op, stored))
    IN  IF ~f.ok \/ f.pc < 0 \/ Len(f.stack) < Peeks(op) THEN Panic(f)
        ELSE IF ~HasGas(f, StepGas(f, op, stored)) THEN Panic(f)
        ELSE IF op \notin Known \/ Len(f.stack) < Requires(op) THEN Panic(paid)
        ELSE paid

Continue(f) == frames' = [frames EXCEPT ![Inner] = f]

\* In the actions below f is the innermost closure, the step paid for.
LocalStep(f) ==
    /\ f.ok /\ OpOf(f) \in LocalOps
    /\ \E env \in {Env} : Continue(Local(f, OpOf(f), env))
    /\ UNCHANGED <<state, ledger, account, returned>>

StorageStep(f) ==
    /\ f.ok
    /\ \/ /\ OpOf(f) = Op.SLOAD
          /\ Continue(Next1(Push(Drop(f, 1), GetMem(state, f.object, Top(f, 1)))))
          /\ UNCHANGED state
       \/ /\ OpOf(f) = Op.SSTORE
          /\ Continue(Next1(Drop(f, 2)))
          /\ state' = SetStorage(state, f.object, Top(f, 1), Top(f, 2))
    /\ UNCHANGED <<ledger, account, returned>>

\* CALL.  The value is added to the callee and taken from nobody; no gas
\* means all of it.
Call(f) ==
    /\ f.ok /\ OpOf(f) = Op.CALL
    /\ LET d == Next1(Drop(f, 7))
           addr == Abs(Top(f, 1))
           gas == IF Top(f, 3) = 0 THEN f.gas ELSE Top(f, 3)
           st == Copied(state)
           contract == AddAmount(GetStateObject(st, addr), Top(f, 2))
           enter == NewClosure("call", Inner, f.object.addr, contract, contract.code,
                               MemGet(f.mem, Top(f, 4), Top(f, 5)), gas,
                               [snapshot |-> Snapshot(state), before |-> View(state),
                                offset |-> Top(f, 6), size |-> Top(f, 7)])
       IN  IF f.gas < Top(f, 3)
           THEN Continue(Push(d, 0)) /\ UNCHANGED state
           ELSE IF ~CanRead(f.mem, Top(f, 4), Top(f, 5))
           THEN Continue(Panic(f)) /\ UNCHANGED state
           ELSE IF ~Exists(state, addr)
           THEN Continue(Push(d, 0)) /\ UNCHANGED state
           ELSE /\ frames' = Append([frames EXCEPT ![Inner] = UseGas(d, gas)], enter)
                /\ state' = AfterGet(st, addr)
    /\ UNCHANGED <<ledger, account, returned>>

\* CREATE.  The init script gets all the gas and runs on the creator's own
\* object; what is left goes to whoever called the creator.
Create(f) ==
    /\ f.ok /\ OpOf(f) = Op.CREATE
    /\ LET d == Next1(Drop(f, 3))
           nonce == IF f.callee = 0 THEN account.nonce ELSE frames[f.callee].object.nonce
           contract == NewContract(Copied(state), CreateAddress(f.caller, nonce), Top(f, 1))
           enter == NewClosure("create", f.callee, f.caller, f.object,
                               MemGet(f.mem, Top(f, 2), Top(f, 3)), <<>>, f.gas,
                               [snapshot |-> Snapshot(state), before |-> View(state),
                                contract |-> contract])
       IN  IF ~CanRead(f.mem, Top(f, 2), Top(f, 3))
           THEN Continue(Panic(f)) /\ UNCHANGED state
           ELSE /\ frames' = Append([frames EXCEPT ![Inner] = UseGas(d, f.gas)], enter)
                /\ state' = WithStore(Copied(state), NoItems)
    /\ UNCHANGED <<ledger, account, returned>>

-----------------------------------------------------------------------------
(* The end of a closure.  Whatever gas is left goes back to its callee.    *)

Refund(f) == IF f.callee = 0 THEN f.gas ELSE 0
Paid(f)   == AddAmount(account, Refund(f) * frames[1].resume.tx.price)
Below(f)  == [i \in 1 .. Inner - 1 |-> IF i = f.callee THEN ReturnGas(frames[i], f.gas)
                                       ELSE frames[i]]

ResumeCall(f, p, ret) ==
    IF f.resume.offset < 0 \/ f.resume.size < 0 THEN Panic(Push(p, 1))
    ELSE [Push(p, 1) EXCEPT !.mem = MemSet(@, f.resume.offset, f.resume.size, ret)]

\* Back in the caller: a failed closure is reverted, the object of the
\* other one is written back.
Resume(f, ret, err, st) ==
    LET p == Below(f)[Inner - 1]
        object == IF f.kind = "call" THEN f.object ELSE f.resume.contract
    IN  /\ state' = IF err THEN Revert(st, f.resume.snapshot) ELSE UpdateStateObject(st, object)
        /\ frames' = [Below(f) EXCEPT ![Inner - 1] =
                        IF err THEN Push(p, 0)
                        ELSE IF f.kind = "call" THEN ResumeCall(f, p, ret)
                        ELSE Push(p, object.addr)]
        /\ account' = Paid(f)
        /\ UNCHANGED ledger

\* Back in EvalScript and ApplyTransaction: both copies are written back,
\* failed or not; what an init script returns becomes the code.
EvalScriptEnd(f, ret, err, st) ==
    LET tx == f.resume.tx
        st1 == UpdateStateObject(UpdateStateObject(st, Paid(f)), f.object)
    IN  /\ state' = IF tx.creates /\ ~err
                    THEN UpdateStateObject(st1, [f.object EXCEPT !.code = ret]) ELSE st1
        /\ receipts' = Append(receipts, Receipt(tx, txGas + f.used))
        /\ txs' = Tail(txs)
        /\ phase' = "apply"
        /\ txGas' = 0
        /\ frames' = <<>>
        /\ account' = Idle
        /\ UNCHANGED processed

Leave(f, ret, err, st) ==
    /\ returned' = returned + Refund(f)
    /\ IF Inner = 1 THEN EvalScriptEnd(f, ret, err, st) ELSE Resume(f, ret, err, st)

Return(f) ==
    /\ f.ok /\ OpOf(f) = Op.RETURN
    /\ IF CanRead(f.mem, Top(f, 1), Top(f, 2))
       THEN Leave(f, MemGet(f.mem, Top(f, 1), Top(f, 2)), FALSE, state)
       ELSE Leave(f, <<>>, TRUE, state)

Stop(f) == f.ok /\ OpOf(f) = Op.STOP /\ Leave(f, <<>>, FALSE, state)

\* SUICIDE pays the receiver and leaves the contract its amount.  Purge
\* deletes hashed nodes below the root of the storage trie: the few
\* neighbouring locations of this model's storages have none.
Suicide(f) ==
    /\ f.ok /\ OpOf(f) = Op.SUICIDE
    /\ LET a == Abs(Top(f, 1))
       IN  Leave(f, <<>>, FALSE,
                 UpdateStateObject(AfterGet(state, a),
                                   AddAmount(GetAccount(state, a), f.object.amount)))

\* Out of gas, an unknown instruction, or a panic that RunClosure recovers.
Fail(f) == ~f.ok /\ Leave(f, <<>>, TRUE, state)

RunClosure ==
    /\ phase = "run"
    /\ \E f \in {Charged(Frame)} :
          /\ burnt' = burnt + Frame.gas - f.gas
          /\ \/ LocalStep(f) \/ StorageStep(f) \/ Call(f) \/ Create(f)
             \/ Return(f) \/ Stop(f) \/ Suicide(f) \/ Fail(f)

-----------------------------------------------------------------------------
\* CalculateBlockReward adds the gas used up to every receipt and its price.
CalculateBlockReward ==
    Iterate(Len(receipts), Len(Uncles) * UncleInclusionReward + BlockReward,
            LAMBDA base, i : base + receipts[i].used + receipts[i].tx.price)

Reward(st, a, n) == UpdateStateObject(AfterGet(st, a), AddAmount(GetAccount(st, a), n))

AccumelateRewards ==
    /\ phase = "apply" /\ txs = <<>>
    /\ \E paid \in {Reward(state, Coinbase, CalculateBlockReward)} :
          state' = Iterate(Len(Uncles), paid,
                           LAMBDA st, i : Reward(st, Uncles[i], UncleReward))
    /\ phase' = "done"
    /\ UNCHANGED <<txs, txGas, receipts, processed, machine>>

Init ==
    /\ state = [trie |-> Genesis, states |-> [a \in {} |-> 0], heap |-> <<>>]
    /\ txs \in Bodies
    /\ phase = "apply"
    /\ frames = <<>> /\ account = Idle
    /\ txGas = 0 /\ receipts = <<>>
    /\ processed = <<>> /\ burnt = 0 /\ returned = 0

Next == ApplyTransaction \/ RunClosure \/ AccumelateRewards

Fairness == WF_vars(Next)
Spec == Init /\ [][Next]_vars /\ Fairness

-----------------------------------------------------------------------------
\* Type invariant: no account is ever stored with a negative amount, and every
\* state the call stack of EvalScript can go back to is a state.
TypeOK ==
    /\ phase \in {"apply", "run", "crashed", "done"}
    /\ (phase = "run") <=> (frames # <<>>)
    /\ \A a \in DOMAIN state.trie : state.trie[a].amount \in Nat /\ state.trie[a].nonce \in Nat
    /\ \A a \in DOMAIN state.states : state.states[a] \in DOMAIN state.heap
    /\ \A i \in 1 .. Inner : frames[i].callee \in 0 .. i - 1
                            /\ frames[i].object.store \in DOMAIN state.heap
    /\ burnt \in Int /\ returned \in Nat

\* Whatever is nested in whatever, and however it fails, the gas of a
\* transaction is in one of the running closures, charged for a step, or back
\* at the account (closure.go UseGas, ReturnGas and Return; the gas CALL and
\* CREATE prepay).  Numbers on the stack may be negative, and so may the gas
\* that CALL hands over; a closure that starts with less than none makes no
\* step.
GasConserved ==
    phase = "run" =>
        /\ Iterate(Inner, burnt + returned, LAMBDA n, i : n + frames[i].gas) = frames[1].limit
        /\ \A i \in 1 .. Inner :
              /\ frames[i].gas + frames[i].used = frames[i].limit
              /\ frames[i].gas < 0 => i = Inner /\ frames[i].used = 0

\* A closure that fails leaves nothing behind: what can be read from the
\* state is what could be read when it was called ("Revert the state as it
\* was before"; State.Snapshot copies storage that the closure writes to).
FailedCallReverts ==
    [][ /\ Len(frames) > Len(frames') /\ frames' # <<>>
        /\ Last(frames'[Len(frames')].stack) = 0
        => View(state') = Frame.resume.before ]_vars

\* No transaction moves funds twice, however often the block holds it
\* (ProcessTransaction compares and increments the nonce; the copy of the
\* sender that EvalScript writes back later has the new one).
NoReplay == IsInjective(processed)

\* Every block comes to an end: jumps go round in circles only while there is
\* gas (every step but a cleared SSTORE costs some).
BlockEnds == <>(phase \in {"done", "crashed"})

\* Where contracts do not jump into data, the machine only executes what the
\* disassembler lists as instructions: both skip the same bytes after a PUSH
\* (asm.go, vm.go).
ExecutesInstructions ==
    frames # <<>> /\ Frame.pc < Len(Frame.script) => Frame.pc \in Disassemble(Frame.script)
===============================================================================
