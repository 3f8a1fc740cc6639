------------------------------- MODULE MCLedger -------------------------------
(***************************************************************************)
(* A small world for Ledger: one user, a second account and a contract per *)
(* kind of behaviour, and blocks of one to three messages to them with gas *)
(* limits that run out at different steps.                                 *)
(***************************************************************************)
EXTENDS Ledger

CONSTANTS
    Gases,      \* gas limits of a transaction alone in its block
    PairGases   \* and of one that shares the block

User == 1
Miner == 2
P(n) == <<Op.PUSH1, n>>
CallTo(addr, value, gas) ==
    P(0) \o P(0) \o P(0) \o P(0) \o P(gas) \o P(value) \o P(addr) \o <<Op.CALL>>
Put(loc, val) == P(val) \o P(loc) \o <<Op.SSTORE>>

\* 10 stores; 11 stores and fails; 12 calls 10 and stores the answer; 13
\* calls 11 and stores; 14 calls itself; 15 counts down in a loop; 16 creates
\* a contract; 17 kills itself; 18 calls 16, then 17, 19, 20 and nobody; 19 computes;
\* 20, 21 and 22 read memory they have not; 23 and 24 have a negative size and
\* a negative gas limit on their stacks.
Code ==
    [a \in 10 .. 24 |->
       CASE a = 10 -> Put(1, 5) \o <<Op.CALLVALUE, Op.STOP>>
         [] a = 11 -> <<Op.CALLER>> \o P(1) \o <<Op.SSTORE, 200, Op.STOP>>
         [] a = 12 -> CallTo(10, 3, 130) \o P(2) \o <<Op.SSTORE, Op.STOP>>
         [] a = 13 -> Put(1, 7) \o CallTo(11, 0, 0) \o P(1) \o <<Op.SSTORE>> \o CallTo(13, 0, 1) \o <<Op.STOP>>
         [] a = 14 -> P(1) \o <<Op.SLOAD>> \o CallTo(14, 1, 160) \o P(1) \o <<Op.SSTORE, Op.STOP>>
         [] a = 15 -> P(3) \o P(1) \o <<Op.SUB, Op.DUP>> \o P(0) \o <<Op.GT>> \o P(2)
                      \o <<Op.JUMPI, Op.POP>> \o P(0) \o <<Op.JUMP>>
         [] a = 16 -> P(88) \o P(0) \o <<Op.MSTORE>> \o P(2) \o P(0) \o P(4) \o <<Op.CREATE, Op.POP, Op.STOP>>
         [] a = 17 -> P(User) \o <<Op.SUICIDE, Op.STOP>>
         [] a = 18 -> CallTo(16, 0, 60) \o CallTo(17, 2, 5) \o CallTo(19, 0, 100)
                      \o CallTo(20, 0, 9) \o CallTo(99, 0, 0) \o <<Op.MUL, Op.NOT, Op.STOP>>
         [] a = 19 -> P(9) \o P(4) \o <<Op.SWAP, Op.DIV, Op.CALLER, Op.ADD, Op.BALANCE, Op.XOR>>
                      \o P(1) \o <<Op.MSTORE8>> \o P(2) \o P(1) \o <<Op.SHA3>>
                      \o P(1) \o <<Op.MLOAD, Op.TIMESTAMP, Op.EXP, Op.NEG, Op.SMOD>>
                      \o P(2) \o P(0) \o <<Op.RETURN>>
         [] a = 20 -> P(9) \o P(0) \o <<Op.RETURN>>
         [] a = 21 -> P(0) \o P(0) \o P(9) \o P(0) \o P(0) \o P(0) \o P(10) \o <<Op.CALL>>
         [] a = 22 -> P(9) \o P(0) \o P(0) \o <<Op.CREATE>>
         [] a = 23 -> P(0) \o P(64) \o <<Op.SUB>> \o P(0) \o P(0) \o <<Op.CREATE>>
         [] a = 24 -> P(0) \o P(0) \o P(0) \o P(0) \o P(0) \o P(5) \o <<Op.SUB>> \o P(0) \o P(10)
                      \o <<Op.CALL, Op.STOP>>]

MCGenesis ==
    [a \in {User, Miner} \cup DOMAIN Code |->
       [amount |-> IF a = User THEN 2500 ELSE 0, nonce |-> 0, root |-> NoItems,
        code |-> IF a \in DOMAIN Code THEN Code[a] ELSE <<>>]]

Message(to, nonce, gas) ==
    [from |-> User, nonce |-> nonce, to |-> to, value |-> 2, gas |-> gas, price |-> 1,
     data |-> <<0, 7>>, creates |-> FALSE]
Creation(nonce, gas) ==
    [Message(NoAddress, nonce, gas) EXCEPT !.creates = TRUE,
        !.data = P(90) \o P(0) \o <<Op.MSTORE>> \o Put(1, 1) \o P(2) \o P(0) \o <<Op.RETURN>>]

Messages(nonce, gases) ==
    {Message(to, nonce, gas) : to \in DOMAIN Code \cup {User}, gas \in gases}
    \cup {Creation(nonce, gas) : gas \in gases}
MCBodies ==
    {<<t>> : t \in Messages(0, Gases) \cup {[Message(User, 0, 330) EXCEPT !.price = 7]}}
    \cup {<<t, u>> : t \in Messages(0, PairGases), u \in Messages(1, PairGases)}
    \cup {<<t, t, u>> : t \in Messages(0, PairGases), u \in {Message(User, 1, 40)}}
    \cup {<<u, t>> : t \in Messages(0, PairGases), u \in {Message(User, 1, 40)}}

MCSha3(bytes) == 1 + (FoldLeft(LAMBDA n, b : n + b, 0, bytes) % 7)
MCCreateAddress(a, n) == 100 + 10 * a + n
MCBlockVars == [op \in Op.PREVHASH .. Op.DIFFICULTY |-> op]
MCUncles == <<Miner, 3>>
===============================================================================
