---------------------------- MODULE KeccakSponge ----------------------------
(***************************************************************************)
(* The Keccak sponge of ref/fips202.c behind SHAKE128 and SHAKE256: the    *)
(* incremental interface (init, absorb, finalize, squeeze, squeezeblocks)  *)
(* and the one-shot one (absorb_once, shake128/256), on one keccak_state.  *)
(* The loops run one block per step.                                       *)
(*                                                                         *)
(* The permutation is a free function: the state s is the sequence of what *)
(* was XORed into the first Rate bytes before, between and after its       *)
(* applications.  A byte is the set of its 1 bits.                         *)
(***************************************************************************)
EXTENDS Integers, Sequences

CONSTANTS
    Rate,       \* bytes per block (168 or 136)
    Data,       \* message bytes: sets of bits
    MaxIn,      \* bound: bytes per call of absorb
    MaxOut,     \* bound: bytes per call of squeeze, blocks are MaxOut \div Rate
    MaxBytes    \* bound: bytes absorbed, and squeezed, by one state

Pad == {"domain"}       \* 0x1F
Top == {"top"}          \* 0x80, bit 63 of lane Rate/8-1

ASSUME SpongeAssumption ==
    /\ Rate \in Nat \ {0}
    /\ MaxIn \in Nat /\ MaxOut \in Nat /\ MaxBytes \in Nat

VARIABLES
    s,      \* the state: one block of XORed bytes per application, plus one
    pos,    \* keccak_state.pos
    phase,  \* what the caller may do next: "absorbing" or "squeezing"
    pc,     \* the running loop, "idle" between calls
    in,     \* input bytes the loop has yet to absorb
    need,   \* output bytes, or blocks, the loop has yet to give
    rest,   \* what shake128/256 squeezes after the blocks; -1 outside of it
    absorbed, given   \* history: bytes taken and given since the state was new

vars == <<s, pos, phase, pc, in, need, rest, absorbed, given>>

Xor(a, b) == (a \ b) \cup (b \ a)
Zero == [k \in 0..Rate-1 |-> {}]
Permute(st) == Append(st, Zero)

\* XOR the bytes x into the current block from byte p on.
XorBytes(st, p, x) ==
    [st EXCEPT ![Len(st)] = [k \in 0..Rate-1 |->
        IF k \in p .. p + Len(x) - 1 THEN Xor(@[k], x[k - p + 1]) ELSE @[k]]]

\* The domain byte after the message and the last bit of the block.
Padded(st, p) == XorBytes(XorBytes(st, p, <<Pad>>), Rate - 1, <<Top>>)

\* n bytes of the current block from byte p on.
Bytes(st, p, n) == [k \in 1..n |-> <<st, p + k - 1>>]

Front(x, n) == SubSeq(x, 1, n)
Back(x, n) == SubSeq(x, n + 1, Len(x))
Least(a, b) == IF a < b THEN a ELSE b

Inputs == UNION {[1..n -> Data] : n \in 0..MaxIn}

Init ==
    /\ s = <<Zero>> /\ pos = 0
    /\ phase = "absorbing" /\ pc = "idle"
    /\ in = <<>> /\ need = 0 /\ rest = -1
    /\ absorbed = <<>> /\ given = <<>>

\* shake128_init: the caller reuses the memory for another message.
InitState ==
    /\ pc = "idle" /\ phase = "squeezing"
    /\ s' = <<Zero>> /\ pos' = 0
    /\ phase' = "absorbing" /\ absorbed' = <<>> /\ given' = <<>>
    /\ UNCHANGED <<pc, in, need, rest>>

-----------------------------------------------------------------------------
(* keccak_absorb and keccak_finalize *)

Absorb == \E x \in Inputs :
    /\ pc = "idle" /\ phase = "absorbing"
    /\ Len(absorbed) + Len(x) <= MaxBytes
    /\ in' = x /\ pc' = "absorb"
    /\ UNCHANGED <<s, pos, phase, need, rest, absorbed, given>>

\* The loop condition pos + inlen >= r, and two faulty forms of it.
FillsBlockLate(p, x) == p + Len(x) > Rate
FillsBlockNoPos(p, x) == Len(x) >= Rate
FillsBlock(p, x) == p + Len(x) >= Rate

AbsorbBlock ==
    /\ pc = "absorb" /\ FillsBlock(pos, in)
    /\ s' = Permute(XorBytes(s, pos, Front(in, Rate - pos)))
    /\ in' = Back(in, Rate - pos) /\ pos' = 0
    /\ absorbed' = absorbed \o Front(in, Rate - pos)
    /\ UNCHANGED <<phase, pc, need, rest, given>>

AbsorbTail ==
    /\ pc = "absorb" /\ ~FillsBlock(pos, in)
    /\ s' = XorBytes(s, pos, in)
    /\ pos' = pos + Len(in)
    /\ in' = <<>> /\ pc' = "idle"
    /\ absorbed' = absorbed \o in
    /\ UNCHANGED <<phase, need, rest, given>>

Finalize ==
    /\ pc = "idle" /\ phase = "absorbing"
    /\ s' = Padded(s, pos)
    /\ pos' = Rate /\ phase' = "squeezing"
    /\ UNCHANGED <<pc, in, need, rest, absorbed, given>>

-----------------------------------------------------------------------------
(* keccak_squeeze and keccak_squeezeblocks *)

Squeeze == \E n \in 0..MaxOut :
    /\ pc = "idle" /\ phase = "squeezing" /\ Len(given) + n <= MaxBytes
    /\ need' = n /\ pc' = "squeeze"
    /\ UNCHANGED <<s, pos, phase, in, rest, absorbed, given>>

\* One turn: a new block when the current one is used up, and one that asks for
\* it a byte too early.
NextBlockEarly(p) == p >= Rate - 1
NextBlock(p) == p = Rate
SqueezeTurn ==
    /\ pc = "squeeze" /\ need > 0
    /\ LET st == IF NextBlock(pos) THEN Permute(s) ELSE s
           p == IF NextBlock(pos) THEN 0 ELSE pos
           n == Least(Rate - p, need)
       IN  /\ s' = st
           /\ given' = given \o Bytes(st, p, n)
           /\ need' = need - n
           /\ pos' = p + n
    /\ UNCHANGED <<phase, pc, in, rest, absorbed>>

SqueezeReturn ==
    /\ pc = "squeeze" /\ need = 0
    /\ pc' = "idle" /\ rest' = -1
    /\ UNCHANGED <<s, pos, phase, in, need, absorbed, given>>

\* "Assumes new block has not yet been started (state->pos = RATE)": every
\* caller in the library squeezes whole blocks from the start.
SqueezeBlocks == \E n \in 0 .. MaxOut \div Rate :
    /\ pc = "idle" /\ phase = "squeezing" /\ pos = Rate
    /\ Len(given) + n*Rate <= MaxBytes
    /\ need' = n /\ pc' = "blocks"
    /\ UNCHANGED <<s, pos, phase, in, rest, absorbed, given>>

\* pos is not touched: it stays at Rate, the end of the block just given.
BlockTurn ==
    /\ pc = "blocks" /\ need > 0
    /\ s' = Permute(s)
    /\ given' = given \o Bytes(s', 0, Rate)
    /\ need' = need - 1
    /\ UNCHANGED <<pos, phase, pc, in, rest, absorbed>>

\* In shake128/256 a squeeze of the remaining bytes follows.
BlocksReturn ==
    /\ pc = "blocks" /\ need = 0
    /\ IF rest = -1 THEN pc' = "idle" /\ UNCHANGED need
                    ELSE pc' = "squeeze" /\ need' = rest
    /\ UNCHANGED <<s, pos, phase, in, rest, absorbed, given>>

-----------------------------------------------------------------------------
(* keccak_absorb_once, and shake128/shake256 with an output length *)

AbsorbOnce == \E x \in Inputs, n \in -1..MaxOut :
    /\ pc = "idle" /\ phase = "squeezing"
    /\ Len(x) <= MaxBytes /\ n <= MaxBytes
    /\ s' = <<Zero>> /\ in' = x /\ rest' = n /\ pc' = "once"
    /\ phase' = "absorbing" /\ absorbed' = <<>> /\ given' = <<>>
    /\ UNCHANGED <<pos, need>>

OnceBlock ==
    /\ pc = "once" /\ Len(in) >= Rate
    /\ s' = Permute(XorBytes(s, 0, Front(in, Rate)))
    /\ in' = Back(in, Rate)
    /\ absorbed' = absorbed \o Front(in, Rate)
    /\ UNCHANGED <<pos, phase, pc, need, rest, given>>

OnceTail ==
    /\ pc = "once" /\ Len(in) < Rate
    /\ s' = Padded(XorBytes(s, 0, in), Len(in))
    /\ pos' = Rate /\ phase' = "squeezing"
    /\ absorbed' = absorbed \o in /\ in' = <<>>
    /\ IF rest = -1 THEN pc' = "idle" /\ UNCHANGED <<need, rest>>
                    ELSE /\ pc' = "blocks"
                         /\ need' = rest \div Rate
                         /\ rest' = rest % Rate
    /\ UNCHANGED given

-----------------------------------------------------------------------------
Next ==
    \/ InitState \/ Absorb \/ AbsorbBlock \/ AbsorbTail \/ Finalize
    \/ Squeeze \/ SqueezeTurn \/ SqueezeReturn
    \/ SqueezeBlocks \/ BlockTurn \/ BlocksReturn
    \/ AbsorbOnce \/ OnceBlock \/ OnceTail

Spec == Init /\ [][Next]_vars

-----------------------------------------------------------------------------
(* The reference: pad the message, cut it into blocks, absorb, squeeze. *)

\* Block b >= 1 of the padded message.
PaddedBlocks(m) ==
    LET nb == Len(m) \div Rate + 1
        byte(p) == Xor(IF p < Len(m) THEN m[p+1] ELSE IF p = Len(m) THEN Pad ELSE {},
                       IF p = nb*Rate - 1 THEN Top ELSE {})
    IN  [b \in 1..nb |-> [k \in 0..Rate-1 |-> byte((b-1)*Rate + k)]]

SpongeByte(m, k) ==
    <<PaddedBlocks(m) \o [b \in 1 .. k \div Rate + 1 |-> Zero], k % Rate>>

Reference == INSTANCE Xof WITH StreamByte <- SpongeByte, msg <- absorbed

\* Types of the variables: pos never leaves the block and no count of bytes to
\* go wraps below 0.
Bits == Pad \cup Top \cup UNION Data
Block == [0..Rate-1 -> SUBSET Bits]
TypeOK ==
    /\ s \in Seq(Block) /\ s # <<>>
    /\ pos \in 0..Rate
    /\ phase \in {"absorbing", "squeezing"}
    /\ pc \in {"idle", "absorb", "once", "squeeze", "blocks"}
    /\ in \in Seq(Data) /\ need \in Nat /\ rest \in Nat \cup {-1}
    /\ absorbed \in Seq(Data) /\ given \in Seq(Seq(Block) \X Nat)

\* However input and output are cut into calls, and whichever interface is
\* used, the bytes given are the stream of the bytes taken.
ImplementsXof == Reference!Spec

\* Every byte taken has its place in a block and every byte given left one: pos
\* and the number of blocks account for all of them, and an absorbing state
\* always has room for the domain byte.
BytesAccounted ==
    LET blocks == Len(absorbed) \div Rate + 1
    IN  /\ pc \in {"idle", "absorb"} /\ phase = "absorbing" =>
              pos < Rate /\ Len(absorbed) = (Len(s) - 1)*Rate + pos
        /\ phase = "squeezing" =>
              Len(given) = (Len(s) - blocks - 1)*Rate + pos
=============================================================================
