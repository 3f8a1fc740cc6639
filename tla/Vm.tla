---------------------------------- MODULE Vm ----------------------------------
(***************************************************************************)
(* The virtual machine inside one closure: ethchain/types.go (opcodes),    *)
(* stack.go, closure.go, asm.go and the instructions of vm.go that only    *)
(* work on the closure's own stack and memory.  What the other ones do to  *)
(* the world state is in Ledger.                                           *)
(*                                                                         *)
(* A frame is a running closure.  Integers are unbounded, as in math/big:  *)
(* no instruction but EXP reduces its result.  A frame whose field ok is   *)
(* FALSE has panicked; RunClosure recovers and turns that into an error.   *)
(***************************************************************************)
EXTENDS Integers, SequencesExt

CONSTANTS
    WordBytes,      \* bytes of a word: 32 in the code
    Sha3(_)         \* the number the hash of some bytes stands for

Byte == 0 .. 255

ASSUME WordAssumption == WordBytes \in Nat \ {0}

Op ==
    [STOP |-> 0, ADD |-> 1, MUL |-> 2, SUB |-> 3, DIV |-> 4, SDIV |-> 5, MOD |-> 6,
     SMOD |-> 7, EXP |-> 8, NEG |-> 9, LT |-> 10, GT |-> 11, EQ |-> 12, NOT |-> 13,
     AND |-> 16, OR |-> 17, XOR |-> 18, BYTE |-> 19, SHA3 |-> 32,
     ADDRESS |-> 48, BALANCE |-> 49, ORIGIN |-> 50, CALLER |-> 51, CALLVALUE |-> 52,
     CALLDATALOAD |-> 53, CALLDATASIZE |-> 54, GASPRICE |-> 55,
     PREVHASH |-> 64, COINBASE |-> 65, TIMESTAMP |-> 66, NUMBER |-> 67,
     DIFFICULTY |-> 68, GASLIMIT |-> 69,
     POP |-> 81, DUP |-> 82, SWAP |-> 83, MLOAD |-> 84, MSTORE |-> 85, MSTORE8 |-> 86,
     SLOAD |-> 87, SSTORE |-> 88, JUMP |-> 89, JUMPI |-> 90, PC |-> 91, MSIZE |-> 92,
     PUSH1 |-> 96, PUSH32 |-> 127,
     CREATE |-> 240, CALL |-> 241, RETURN |-> 242, LOG |-> 254, SUICIDE |-> 255]

Pushes  == Op.PUSH1 .. Op.PUSH32
PushLen(op) == op - Op.PUSH1 + 1

DisassembleShort(script) ==
    LET From[pc \in 0 .. Len(script) + 32] ==
            IF pc >= Len(script) THEN {}
            ELSE {pc} \cup From[IF script[pc + 1] \in Pushes THEN pc + PushLen(script[pc + 1])
                                ELSE pc + 1]
    IN  From[0]

\* The places of a script asm.go takes for instructions.
Disassemble(script) ==
    LET From[pc \in 0 .. Len(script) + 32] ==
            IF pc >= Len(script) THEN {}
            ELSE LET op == script[pc + 1]
                 IN  {pc} \cup From[IF op \in Pushes THEN pc + 1 + PushLen(op) ELSE pc + 1]
    IN  From[0]

-----------------------------------------------------------------------------
(* Numbers, words and memory.                                              *)

\* What n rounds of a loop make of its first value.
Iterate(n, first, Round(_, _)) ==
    LET after[i \in 0 .. n] == IF i = 0 THEN first ELSE Round(after[i - 1], i)
    IN  after[n]

Pow256 == Iterate(WordBytes, 1, LAMBDA power, i : 256 * power)

Truth(b) == IF b THEN 1 ELSE 0
Abs(n)   == IF n < 0 THEN -n ELSE n

\* big.Int.Bytes, SetBytes and BigToBytes: the sign is lost.
BigBytes(n) ==
    LET bytes[m \in Nat] == IF m = 0 THEN <<>> ELSE Append(bytes[m \div 256], m % 256)
    IN  bytes[Abs(n)]
ByteLen(n)  == Len(BigBytes(n))
BigD(bytes) == Iterate(Len(bytes), 0, LAMBDA n, i : 256 * n + bytes[i])
BigToBytes(n) ==
    IF ByteLen(n) > WordBytes THEN BigBytes(n)
    ELSE [i \in 1 .. WordBytes - ByteLen(n) |-> 0] \o BigBytes(n)

\* Beyond the script, and in a script no longer than what is read, is zero.
Gets(script, x, y) ==
    IF x >= Len(script) \/ y >= Len(script) THEN <<>> ELSE SubSeq(script, x + 1, x + y)
CanGet(script, x, y) ==
    x >= Len(script) \/ y >= Len(script) \/ (x >= 0 /\ x + y <= Len(script))

\* A slice past the length of the memory panics.
CanRead(mem, offset, size) == offset >= 0 /\ size >= 0 /\ offset + size <= Len(mem)
MemGet(mem, offset, size)  == SubSeq(mem, offset + 1, offset + size)
MemSet(mem, offset, size, value) ==
    LET grown == IF offset + size > Len(mem) - 1
                 THEN mem \o [i \in 1 .. offset + size - Len(mem) |-> 0] ELSE mem
    IN  [i \in DOMAIN grown |-> IF i - offset \in 1 .. size /\ i - offset <= Len(value)
                                THEN value[i - offset] ELSE grown[i]]

\* Euclidean division, as big.Int.Div and Mod do it.
DivInt(x, y) == IF y > 0 THEN x \div y ELSE -(x \div (-y))
ModInt(x, y) == x - y * DivInt(x, y)
Signed(n)    == IF n > Pow256 THEN Pow256 - n ELSE n
ExpMod(x, y) ==
    IF y <= 0 THEN 1 ELSE Iterate(y, 1, LAMBDA power, i : (x * power) % Pow256)

\* Bit by bit, on two's complements without end.
XorBit(x, y) ==
    LET xor[p \in Int \X Int] ==
            IF p[1] \in {0, -1} /\ p[2] \in {0, -1} THEN IF p[1] = p[2] THEN 0 ELSE -1
            ELSE ((p[1] + p[2]) % 2) + 2 * xor[<<p[1] \div 2, p[2] \div 2>>]
    IN  xor[<<x, y>>]

-----------------------------------------------------------------------------
(* Closures.                                                               *)

\* kind: what the frame runs for; callee: the frame that gets its gas back
\* (0: the account of the sender); limit: the gas it started with.
NewClosure(kind, callee, caller, object, script, args, gas, resume) ==
    [kind |-> kind, callee |-> callee, caller |-> caller, object |-> object,
     script |-> script, args |-> args, gas |-> gas, used |-> 0, limit |-> gas,
     stack |-> <<>>, mem |-> <<>>, pc |-> 0, ok |-> TRUE, resume |-> resume]

HasGas(f, gas) == f.gas >= gas
UseGas(f, gas) == [f EXCEPT !.gas = @ - gas, !.used = @ + gas]
ReturnGasStillUsed(f, gas) == [f EXCEPT !.gas = @ + gas]
ReturnGas(f, gas) == [f EXCEPT !.gas = @ + gas, !.used = @ - gas]

OpOf(f) ==
    LET code == IF f.pc < 0 THEN <<>> ELSE Gets(f.script, f.pc, 1)
    IN  IF code = <<>> THEN Op.STOP ELSE code[1]

Push(f, n)  == [f EXCEPT !.stack = Append(@, n)]
Drop(f, n)  == [f EXCEPT !.stack = SubSeq(@, 1, Len(@) - n)]
Top(f, i)   == f.stack[Len(f.stack) + 1 - i]
Next1(f)    == [f EXCEPT !.pc = @ + 1]
Panic(f)    == [f EXCEPT !.ok = FALSE]

\* What the instruction needs on the stack (require).
Requires(op) ==
    CASE op = Op.CALL -> 7
      [] op = Op.CREATE -> 3
      [] op \in {Op.NEG, Op.NOT, Op.CALLDATALOAD, Op.POP, Op.DUP, Op.MLOAD, Op.SLOAD,
                 Op.JUMP, Op.SUICIDE} -> 1
      [] op \in {Op.XOR, Op.BYTE, Op.SHA3, Op.SWAP, Op.MSTORE, Op.MSTORE8, Op.SSTORE,
                 Op.JUMPI, Op.RETURN, Op.AND, Op.OR, Op.LT, Op.GT, Op.EQ}
                \cup (Op.ADD .. Op.EXP) -> 2
      [] OTHER -> 0

\* CalculateTxGas: whole groups of 32 bytes.
CalculateTxGas(size) == (size \div 32) * 100

\* The price of a step.  SSTORE looks at the two lowest items of the stack,
\* not at its operands, and Big2, the factor for a new item, is 1.
StepGasFree(f, op, stored) ==
    IF op \in (Op.ADD .. Op.NOT) \cup ((Op.POP .. Op.PUSH32) \ {Op.SLOAD, Op.SSTORE}) THEN 0 ELSE 20
StepGas(f, op, stored) ==
    CASE op \in {Op.SHA3, Op.SLOAD, Op.BALANCE, Op.CALL} -> 20
      [] op = Op.SSTORE -> IF stored # 0 /\ f.stack[1] = 0 THEN 0 ELSE 100
      [] op = Op.CREATE -> CalculateTxGas(Top(f, 2) + Top(f, 3))
      [] OTHER -> 1

\* Instructions that replace their operands by one result: x was pushed
\* before y.
Binary(op, x, y) ==
    CASE op = Op.ADD -> x + y
      [] op = Op.SUB -> x - y
      [] op = Op.MUL -> x * y
      [] op = Op.DIV -> DivInt(x, y)
      [] op = Op.SDIV -> Signed(DivInt(Signed(x), Signed(y)))
      [] op = Op.MOD -> ModInt(x, y)
      [] op = Op.SMOD -> Signed(ModInt(Signed(x), Signed(y)))
      [] op = Op.EXP -> ExpMod(x, y)
      [] op = Op.LT -> Truth(x < y)
      [] op = Op.GT -> Truth(x > y)
      [] op = Op.EQ -> Truth(x = y)
      [] op = Op.AND -> Truth(x >= 1 /\ y >= 1)
      [] op = Op.OR -> Truth(x >= 0 \/ y >= 0)
      [] op = Op.XOR -> XorBit(x, y)
      [] op = Op.BYTE -> IF y < 32 THEN ByteLen(x) - 1 - y ELSE 0

BinaryOps == (Op.ADD .. Op.EXP) \cup (Op.LT .. Op.EQ) \cup (Op.AND .. Op.BYTE)

\* Instructions that push something the closure, the transaction or the
\* block knows.
Environment(f, op, env) ==
    CASE op = Op.ADDRESS -> f.object.addr
      [] op = Op.BALANCE -> f.object.amount
      [] op = Op.CALLER -> f.caller
      [] op = Op.CALLDATASIZE -> Len(f.args)
      [] op = Op.GASLIMIT -> 0
      [] op = Op.PC -> f.pc
      [] op = Op.MSIZE -> Len(f.mem)
      [] OTHER -> env[op]

BlockOps == {Op.ORIGIN, Op.CALLVALUE, Op.GASPRICE} \cup (Op.PREVHASH .. Op.DIFFICULTY)
EnvironmentOps == BlockOps \cup {Op.ADDRESS, Op.BALANCE, Op.CALLER, Op.CALLDATASIZE,
                                 Op.GASLIMIT, Op.PC, Op.MSIZE}

CallData(f, offset) ==
    IF Len(f.args) >= offset + WordBytes
    THEN BigD(SubSeq(f.args, offset + 1, offset + WordBytes)) ELSE 0

StoreWord(f, offset, n) ==
    IF offset < 0 THEN Panic(f)
    ELSE Next1([Drop(f, 2) EXCEPT !.mem = MemSet(@, offset, WordBytes, BigToBytes(n))])

\* The instructions that only change the frame.
LocalOps == BinaryOps \cup EnvironmentOps \cup Pushes
            \cup {Op.NEG, Op.NOT, Op.CALLDATALOAD, Op.LOG, Op.SHA3}
            \cup (Op.POP .. Op.MSTORE8) \cup {Op.JUMP, Op.JUMPI}

Local(f, op, env) ==
    CASE op \in BinaryOps ->
            LET x == Top(f, 2)
                y == Top(f, 1)
            IN  IF op \in Op.DIV .. Op.SMOD /\ y = 0 THEN Panic(f)
                ELSE Next1(Push(Drop(f, 2), Binary(op, x, y)))
      [] op \in EnvironmentOps -> Next1(Push(f, Environment(f, op, env)))
      [] op \in Pushes ->
            LET n == PushLen(op)
            IN  IF CanGet(f.script, f.pc + 1, n)
                THEN [Push(f, BigD(Gets(f.script, f.pc + 1, n))) EXCEPT !.pc = @ + 1 + n]
                ELSE Panic(f)
      [] op = Op.NEG -> Next1(Push(Drop(f, 1), Pow256 - Top(f, 1)))
      [] op = Op.NOT -> Next1(Push(Drop(f, 1), Truth(Top(f, 1) = 0)))
      [] op = Op.CALLDATALOAD -> IF Top(f, 1) < 0 THEN Panic(f)
                                 ELSE Next1(Push(Drop(f, 1), CallData(f, Top(f, 1))))
      [] op = Op.LOG -> Next1(f)
      [] op = Op.SHA3 ->
            IF CanRead(f.mem, Top(f, 1), Top(f, 2))
            THEN Next1(Push(Drop(f, 2), Sha3(MemGet(f.mem, Top(f, 1), Top(f, 2)))))
            ELSE Panic(f)
      [] op = Op.POP -> Next1(Drop(f, 1))
      [] op = Op.DUP -> Next1(Push(f, Top(f, 1)))
      [] op = Op.SWAP -> Next1(Push(Push(Drop(f, 2), Top(f, 1)), Top(f, 2)))
      [] op = Op.MLOAD ->
            IF CanRead(f.mem, Top(f, 1), WordBytes)
            THEN Next1(Push(Drop(f, 1), BigD(MemGet(f.mem, Top(f, 1), WordBytes))))
            ELSE Panic(f)
      [] op = Op.MSTORE -> StoreWord(f, Top(f, 1), Top(f, 2))
      [] op = Op.MSTORE8 -> StoreWord(f, Top(f, 1), Top(f, 2) % 256)
      [] op = Op.JUMP -> [Drop(f, 1) EXCEPT !.pc = Top(f, 1)]
      [] op = Op.JUMPI -> IF Top(f, 2) = 1 THEN [Drop(f, 2) EXCEPT !.pc = Top(f, 1)]
                          ELSE Next1(Drop(f, 2))
===============================================================================
