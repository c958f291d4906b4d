------------------------- MODULE KeccakSponge_proofs -------------------------
(***************************************************************************)
(* Theorems about KeccakSponge, for every rate and every set of bytes.     *)
(***************************************************************************)
EXTENDS KeccakSponge, SequenceTheorems, TLAPS

(***************************************************************************)
(* The operators on states, blocks and byte sequences.                     *)
(***************************************************************************)

LEMMA RatePositive == Rate \in Nat /\ Rate > 0 /\ MaxIn \in Nat /\ MaxOut \in Nat
BY SpongeAssumption

LEMMA ZeroIsBlock == Zero \in Block
BY DEF Zero, Block

LEMMA StartIsState == <<Zero>> \in Seq(Block) /\ <<Zero>> # <<>> /\ Len(<<Zero>>) = 1
<1>1. Zero \in Block
  BY ZeroIsBlock
<1> HIDE DEF Zero, Block
<1> QED BY <1>1

LEMMA PermuteType ==
    ASSUME NEW st \in Seq(Block)
    PROVE  /\ Permute(st) \in Seq(Block) /\ Permute(st) # <<>>
           /\ Len(Permute(st)) = Len(st) + 1
BY ZeroIsBlock, AppendProperties DEF Permute

\* XORing bytes into the current block keeps the number of blocks.
LEMMA XorBytesType ==
    ASSUME NEW st \in Seq(Block), st # <<>>, NEW p \in Nat, NEW x \in Seq(SUBSET Bits)
    PROVE  /\ XorBytes(st, p, x) \in Seq(Block) /\ XorBytes(st, p, x) # <<>>
           /\ Len(XorBytes(st, p, x)) = Len(st)
<1> DEFINE last == [k \in 0..Rate-1 |->
                     IF k \in p .. p + Len(x) - 1 THEN Xor(st[Len(st)][k], x[k - p + 1])
                     ELSE st[Len(st)][k]]
<1>1. Len(st) \in 1..Len(st) /\ st[Len(st)] \in Block
  BY EmptySeq, LenProperties
<1>2. last \in Block
  <2> SUFFICES ASSUME NEW k \in 0..Rate-1 PROVE last[k] \subseteq Bits
    BY DEF Block
  <2>1. st[Len(st)][k] \subseteq Bits
    BY <1>1 DEF Block
  <2>2. CASE k \in p .. p + Len(x) - 1
    <3>1. k - p + 1 \in 1..Len(x)
      BY <2>2, RatePositive
    <3>2. x[k - p + 1] \subseteq Bits
      BY <3>1, ElementOfSeq
    <3> QED BY <2>1, <2>2, <3>2 DEF Xor
  <2>3. CASE k \notin p .. p + Len(x) - 1
    BY <2>1, <2>3
  <2> QED BY <2>2, <2>3
<1>3. XorBytes(st, p, x) = [st EXCEPT ![Len(st)] = last]
  BY DEF XorBytes
<1> HIDE DEF last, Block
<1> QED BY <1>1, <1>2, <1>3

LEMMA PaddedType ==
    ASSUME NEW st \in Seq(Block), st # <<>>, NEW p \in Nat
    PROVE  /\ Padded(st, p) \in Seq(Block) /\ Padded(st, p) # <<>>
           /\ Len(Padded(st, p)) = Len(st)
<1> DEFINE mid == XorBytes(st, p, <<Pad>>)
<1>1. <<Pad>> \in Seq(SUBSET Bits) /\ <<Top>> \in Seq(SUBSET Bits)
  <2>1. Pad \in SUBSET Bits /\ Top \in SUBSET Bits
    BY DEF Bits
  <2> HIDE DEF Bits
  <2> QED BY <2>1
<1>2. mid \in Seq(Block) /\ mid # <<>> /\ Len(mid) = Len(st)
  BY <1>1, XorBytesType
<1>3. Rate - 1 \in Nat
  BY RatePositive
<1>4. Padded(st, p) = XorBytes(mid, Rate - 1, <<Top>>)
  BY DEF Padded
<1> HIDE DEF mid
<1> QED BY <1>1, <1>2, <1>3, <1>4, XorBytesType

LEMMA DataIsBits == \A x \in Seq(Data) : x \in Seq(SUBSET Bits)
<1>1. Data \subseteq SUBSET Bits
  BY DEF Bits
<1> QED BY <1>1

LEMMA FrontBack ==
    ASSUME NEW x \in Seq(Data), NEW n \in 0..Len(x)
    PROVE  /\ Front(x, n) \in Seq(Data) /\ Len(Front(x, n)) = n
           /\ Back(x, n) \in Seq(Data) /\ Len(Back(x, n)) = Len(x) - n
<1>1. Len(x) \in Nat /\ \A k \in 1..Len(x) : x[k] \in Data
  BY ElementOfSeq, LenProperties
<1>2. \A k \in 1..n : x[k] \in Data
  BY <1>1
<1>3. \A k \in n+1..Len(x) : x[k] \in Data
  BY <1>1
<1>4. Front(x, n) \in Seq(Data) /\ Len(Front(x, n)) = IF 1 <= n THEN n - 1 + 1 ELSE 0
  BY <1>1, <1>2, SubSeqProperties DEF Front
<1>5. Back(x, n) \in Seq(Data) /\ Len(Back(x, n)) = IF n+1 <= Len(x) THEN Len(x) - (n+1) + 1 ELSE 0
  BY <1>1, <1>3, SubSeqProperties DEF Back
<1> QED BY <1>1, <1>4, <1>5

LEMMA BytesType ==
    ASSUME NEW st \in Seq(Block), NEW p \in Nat, NEW n \in Nat
    PROVE  /\ Bytes(st, p, n) \in Seq(Seq(Block) \X Nat)
           /\ Len(Bytes(st, p, n)) = n
<1> HIDE DEF Block
<1>1. \A k \in 1..n : <<st, p + k - 1>> \in Seq(Block) \X Nat
  OBVIOUS
<1> QED BY <1>1 DEF Bytes

LEMMA Appended ==
    ASSUME NEW S, NEW a \in Seq(S), NEW b \in Seq(S)
    PROVE  a \o b \in Seq(S) /\ Len(a \o b) = Len(a) + Len(b)
BY ConcatProperties

LEMMA Joined ==
    ASSUME NEW S, NEW a \in Seq(S), NEW b \in Seq(S)
    PROVE  /\ \A k \in 1..Len(a) : (a \o b)[k] = a[k]
           /\ \A i \in 1..Len(b) : (a \o b)[Len(a) + i] = b[i]
<1>1. Len(a) \in Nat /\ Len(b) \in Nat
  BY LenProperties
<1>2. ASSUME NEW i \in 1..Len(b) PROVE (a \o b)[Len(a) + i] = b[i]
  <2> DEFINE n == Len(a) + i
  <2>1. n \in 1 .. Len(a) + Len(b) /\ ~(n <= Len(a)) /\ n - Len(a) = i
    BY <1>1
  <2> HIDE DEF n
  <2>2. (a \o b)[n] = b[n - Len(a)]
    BY <2>1, ConcatProperties
  <2> QED BY <2>1, <2>2 DEF n
<1>3. \A k \in 1..Len(a) : (a \o b)[k] = a[k]
  BY <1>1, ConcatProperties
<1> QED BY <1>2, <1>3

(***************************************************************************)
(* Types.                                                                  *)
(***************************************************************************)

LEMMA TypeStart == Init => TypeOK
<1> SUFFICES ASSUME Init PROVE TypeOK
  OBVIOUS
<1> HIDE DEF Block
<1> QED BY StartIsState, RatePositive DEF Init, TypeOK

\* One turn of the squeezing loop: how far it comes and what it gives.
LEMMA TurnType ==
    ASSUME TypeOK, SqueezeTurn
    PROVE  /\ s' \in Seq(Block) /\ s' # <<>> /\ pos' \in 0..Rate /\ need' \in Nat
           /\ given' \in Seq(Seq(Block) \X Nat)
           /\ Len(given') = Len(given) + (need - need')
           /\ \/ pos # Rate /\ Len(s') = Len(s) /\ pos' = pos + (need - need')
              \/ pos = Rate /\ Len(s') = Len(s) + 1 /\ pos' = need - need'
<1> DEFINE st == IF NextBlock(pos) THEN Permute(s) ELSE s
           p == IF NextBlock(pos) THEN 0 ELSE pos
           n == Least(Rate - p, need)
<1>1. st \in Seq(Block) /\ st # <<>>
         /\ Len(st) = IF pos = Rate THEN Len(s) + 1 ELSE Len(s)
  BY PermuteType DEF TypeOK, NextBlock
<1>2. p \in 0..Rate /\ p = (IF pos = Rate THEN 0 ELSE pos)
  BY RatePositive DEF TypeOK, NextBlock
<1>3. n \in Nat /\ n <= need /\ p + n <= Rate
  BY <1>2, RatePositive DEF TypeOK, Least
<1>4. /\ s' = st /\ given' = given \o Bytes(st, p, n)
      /\ need' = need - n /\ pos' = p + n
  BY DEF SqueezeTurn
<1>5. Bytes(st, p, n) \in Seq(Seq(Block) \X Nat) /\ Len(Bytes(st, p, n)) = n
  <2>1. p \in Nat
    BY <1>2, RatePositive
  <2> HIDE DEF st, p, n, Block
  <2> QED BY <1>1, <2>1, <1>3, BytesType
<1>6. given' \in Seq(Seq(Block) \X Nat) /\ Len(given') = Len(given) + n
  BY <1>4, <1>5, Appended DEF TypeOK
<1> HIDE DEF st, p, n, Block
<1> QED BY <1>1, <1>2, <1>3, <1>4, <1>6, RatePositive DEF TypeOK

LEMMA AbsorbBlockType ==
    ASSUME TypeOK, pos < Rate, AbsorbBlock
    PROVE  /\ s' \in Seq(Block) /\ s' # <<>> /\ Len(s') = Len(s) + 1
           /\ in' \in Seq(Data) /\ absorbed' \in Seq(Data)
           /\ Len(absorbed') = Len(absorbed) + (Rate - pos)
<1> DEFINE head == Front(in, Rate - pos)
           filled == XorBytes(s, pos, head)
<1>1. Rate - pos \in 0..Len(in)
  BY RatePositive, LenProperties DEF TypeOK, AbsorbBlock, FillsBlock
<1>2. /\ head \in Seq(Data) /\ Len(head) = Rate - pos
      /\ Back(in, Rate - pos) \in Seq(Data)
  BY <1>1, FrontBack DEF TypeOK
<1>3. filled \in Seq(Block) /\ filled # <<>> /\ Len(filled) = Len(s)
  BY <1>2, DataIsBits, XorBytesType, RatePositive DEF TypeOK
<1>4. Permute(filled) \in Seq(Block) /\ Permute(filled) # <<>>
         /\ Len(Permute(filled)) = Len(s) + 1
  BY <1>3, PermuteType
<1>5. absorbed \o head \in Seq(Data) /\ Len(absorbed \o head) = Len(absorbed) + (Rate - pos)
  BY <1>2, Appended DEF TypeOK
<1> HIDE DEF head, filled, Block
<1> QED BY <1>2, <1>4, <1>5 DEF AbsorbBlock, head, filled

LEMMA OnceBlockType ==
    ASSUME TypeOK, OnceBlock
    PROVE  /\ s' \in Seq(Block) /\ s' # <<>> /\ Len(s') = Len(s) + 1
           /\ in' \in Seq(Data) /\ absorbed' \in Seq(Data)
           /\ Len(absorbed') = Len(absorbed) + Rate
<1> DEFINE head == Front(in, Rate)
           filled == XorBytes(s, 0, head)
<1>1. Rate \in 0..Len(in)
  BY RatePositive, LenProperties DEF TypeOK, OnceBlock
<1>2. head \in Seq(Data) /\ Len(head) = Rate /\ Back(in, Rate) \in Seq(Data)
  BY <1>1, FrontBack DEF TypeOK
<1>3. filled \in Seq(Block) /\ filled # <<>> /\ Len(filled) = Len(s)
  BY <1>2, DataIsBits, XorBytesType DEF TypeOK
<1>4. Permute(filled) \in Seq(Block) /\ Permute(filled) # <<>>
         /\ Len(Permute(filled)) = Len(s) + 1
  BY <1>3, PermuteType
<1>5. absorbed \o head \in Seq(Data) /\ Len(absorbed \o head) = Len(absorbed) + Rate
  BY <1>2, Appended DEF TypeOK
<1> HIDE DEF head, filled, Block
<1> QED BY <1>2, <1>4, <1>5 DEF OnceBlock, head, filled

\* Both tails XOR the rest of the input, shorter than a block, into the state.
LEMMA TailType ==
    ASSUME TypeOK, NEW p \in Nat
    PROVE  /\ XorBytes(s, p, in) \in Seq(Block) /\ XorBytes(s, p, in) # <<>>
           /\ Len(XorBytes(s, p, in)) = Len(s)
           /\ absorbed \o in \in Seq(Data)
           /\ Len(absorbed \o in) = Len(absorbed) + Len(in)
           /\ Len(in) \in Nat
<1>1. in \in Seq(Data) /\ absorbed \in Seq(Data) /\ s \in Seq(Block) /\ s # <<>>
  BY DEF TypeOK
<1> QED BY <1>1, DataIsBits, XorBytesType, Appended, LenProperties

(***************************************************************************)
(* The inductive invariant: where pos is, and how many blocks the state    *)
(* has, in each phase and loop.                                            *)
(***************************************************************************)

MessageBlocks == Len(absorbed) \div Rate + 1

LoopInv ==
    /\ pc \in {"absorb", "once"} => phase = "absorbing"
    /\ pc \in {"squeeze", "blocks"} => phase = "squeezing"
    /\ pc = "blocks" => pos = Rate
    /\ phase = "absorbing" => given = <<>>

CountInv ==
    /\ phase = "absorbing" /\ pc # "once" =>
          pos < Rate /\ Len(absorbed) = (Len(s) - 1)*Rate + pos
    /\ pc = "once" => Len(absorbed) = (Len(s) - 1)*Rate
    /\ phase = "squeezing" => Len(given) = (Len(s) - MessageBlocks - 1)*Rate + pos

IInv == TypeOK /\ LoopInv /\ CountInv

\* b whole blocks and p bytes, p less than a block.
LEMMA WholeBlocks ==
    ASSUME NEW b \in Nat, NEW p \in Nat, p < Rate
    PROVE  (b*Rate + p) \div Rate = b /\ (b*Rate + p) % Rate = p
BY RatePositive

LEMMA WholeBlocksType == \A n \in Nat : n \div Rate \in Nat
BY RatePositive

LEMMA Product ==
    ASSUME NEW b \in Int
    PROVE  (b + 1)*Rate = b*Rate + Rate /\ b*Rate \in Int
BY RatePositive

LEMMA InvStart == Init => IInv
<1> SUFFICES ASSUME Init PROVE IInv
  OBVIOUS
<1>1. Len(s) = 1
  BY StartIsState DEF Init
<1> QED BY <1>1, TypeStart, RatePositive DEF Init, IInv, LoopInv, CountInv

LEMMA InvStep == IInv /\ [Next]_vars => IInv'
<1> USE RatePositive
<1> SUFFICES ASSUME IInv, [Next]_vars PROVE IInv'
  OBVIOUS
<1> HIDE DEF Block
<1>0. /\ TypeOK /\ LoopInv /\ CountInv
      /\ Len(s) \in Nat \ {0} /\ Len(absorbed) \in Nat /\ Len(given) \in Nat /\ pos \in Nat
  BY LenProperties, EmptySeq DEF IInv, TypeOK
<1>1. CASE InitState
  <2>1. s' \in Seq(Block) /\ s' # <<>> /\ Len(s') = 1
    BY <1>1, StartIsState DEF InitState
  <2> QED BY <1>0, <1>1, <2>1 DEF InitState, IInv, TypeOK, LoopInv, CountInv
<1>2. CASE Absorb
  <2>1. in' \in Seq(Data)
    BY <1>2 DEF Absorb, Inputs
  <2>2. TypeOK'
    BY <1>0, <1>2, <2>1 DEF Absorb, TypeOK
  <2> QED BY <1>0, <1>2, <2>2 DEF Absorb, IInv, LoopInv, CountInv
<1>3. CASE AbsorbBlock
  <2>1. phase = "absorbing" /\ pos < Rate /\ Len(absorbed) = (Len(s) - 1)*Rate + pos
    BY <1>0, <1>3 DEF AbsorbBlock, LoopInv, CountInv
  <2>2. /\ s' \in Seq(Block) /\ s' # <<>> /\ Len(s') = Len(s) + 1
        /\ in' \in Seq(Data) /\ absorbed' \in Seq(Data)
        /\ Len(absorbed') = Len(absorbed) + (Rate - pos)
    BY <1>0, <1>3, <2>1, AbsorbBlockType
  <2>3. Len(absorbed') = (Len(s') - 1)*Rate
    <3>1. Len(s)*Rate = (Len(s) - 1)*Rate + Rate
      BY <1>0, Product, Len(s) - 1 \in Int, Len(s) = (Len(s) - 1) + 1
    <3> QED BY <1>0, <2>1, <2>2, <3>1
  <2>4. TypeOK'
    BY <1>0, <1>3, <2>2 DEF AbsorbBlock, TypeOK
  <2> QED BY <1>0, <1>3, <2>1, <2>2, <2>3, <2>4 DEF AbsorbBlock, IInv, LoopInv, CountInv
<1>4. CASE AbsorbTail
  <2>1. phase = "absorbing" /\ pos < Rate /\ Len(absorbed) = (Len(s) - 1)*Rate + pos
    BY <1>0, <1>4 DEF AbsorbTail, LoopInv, CountInv
  <2>2. /\ s' \in Seq(Block) /\ s' # <<>> /\ Len(s') = Len(s)
        /\ absorbed' \in Seq(Data) /\ Len(absorbed') = Len(absorbed) + Len(in)
        /\ Len(in) \in Nat
    BY <1>0, <1>4, TailType DEF AbsorbTail
  <2>3. pos' = pos + Len(in) /\ pos' < Rate
    BY <1>0, <1>4, <2>2 DEF AbsorbTail, FillsBlock
  <2>4. TypeOK'
    BY <1>0, <1>4, <2>2, <2>3 DEF AbsorbTail, TypeOK
  <2> QED BY <1>0, <1>4, <2>1, <2>2, <2>3, <2>4 DEF AbsorbTail, IInv, LoopInv, CountInv
<1>5. CASE Finalize
  <2>1. /\ pos < Rate /\ Len(absorbed) = (Len(s) - 1)*Rate + pos
        /\ phase = "absorbing" /\ given = <<>>
    BY <1>0, <1>5 DEF Finalize, LoopInv, CountInv
  <2>2. s' \in Seq(Block) /\ s' # <<>> /\ Len(s') = Len(s)
    BY <1>0, <1>5, PaddedType DEF Finalize, TypeOK
  <2>3. Len(absorbed) \div Rate = Len(s) - 1
    BY <1>0, <2>1, WholeBlocks
  <2>4. TypeOK'
    BY <1>0, <1>5, <2>2 DEF Finalize, TypeOK
  <2>5. Len(given') = (Len(s') - MessageBlocks' - 1)*Rate + pos'
    <3>1. MessageBlocks' = Len(s) /\ pos' = Rate /\ Len(given') = 0
      BY <1>0, <1>5, <2>1, <2>3 DEF Finalize, MessageBlocks
    <3>2. (0 - 1)*Rate + Rate = 0
      OBVIOUS
    <3> QED BY <1>0, <2>2, <3>1, <3>2
  <2> QED BY <1>0, <1>5, <2>4, <2>5 DEF Finalize, IInv, LoopInv, CountInv
<1>6. CASE Squeeze
  <2>1. TypeOK'
    BY <1>0, <1>6 DEF Squeeze, TypeOK
  <2> QED BY <1>0, <1>6, <2>1 DEF Squeeze, IInv, LoopInv, CountInv, MessageBlocks
<1>7. CASE SqueezeTurn
  <2>1. /\ s' \in Seq(Block) /\ s' # <<>> /\ pos' \in 0..Rate /\ need' \in Nat
        /\ given' \in Seq(Seq(Block) \X Nat)
        /\ Len(given') = Len(given) + (need - need')
        /\ \/ pos # Rate /\ Len(s') = Len(s) /\ pos' = pos + (need - need')
           \/ pos = Rate /\ Len(s') = Len(s) + 1 /\ pos' = need - need'
    BY <1>0, <1>7, TurnType
  <2>2. TypeOK'
    BY <1>0, <1>7, <2>1 DEF SqueezeTurn, TypeOK
  <2>3. phase = "squeezing" /\ pc = "squeeze"
           /\ UNCHANGED <<phase, pc, MessageBlocks, absorbed>>
    BY <1>0, <1>7 DEF SqueezeTurn, LoopInv, MessageBlocks
  <2>4. Len(given') = (Len(s') - MessageBlocks - 1)*Rate + pos'
    <3> DEFINE b == Len(s) - MessageBlocks - 1
    <3>1. b \in Int /\ need \in Nat
      BY <1>0 DEF MessageBlocks, TypeOK
    <3>2. Len(given) = b*Rate + pos
      BY <1>0, <2>3 DEF CountInv
    <3>3. (b + 1)*Rate = b*Rate + Rate /\ b*Rate \in Int
      BY <3>1, Product
    <3>4. Len(s') = Len(s) => Len(s') - MessageBlocks - 1 = b
      OBVIOUS
    <3>5. Len(s') = Len(s) + 1 => Len(s') - MessageBlocks - 1 = b + 1
      BY <1>0 DEF MessageBlocks
    <3>6. CASE pos # Rate /\ Len(s') = Len(s) /\ pos' = pos + (need - need')
      <4> HIDE DEF b
      <4> QED BY <1>0, <2>1, <3>1, <3>2, <3>3, <3>4, <3>6
    <3>7. CASE pos = Rate /\ Len(s') = Len(s) + 1 /\ pos' = need - need'
      <4>1. Len(s') - MessageBlocks - 1 = b + 1
        BY <3>5, <3>7
      <4> HIDE DEF b
      <4> QED BY <1>0, <2>1, <3>1, <3>2, <3>3, <4>1, <3>7
    <3> QED BY <2>1, <3>6, <3>7
  <2> QED BY <1>0, <2>2, <2>3, <2>4 DEF IInv, LoopInv, CountInv
<1>8. CASE SqueezeReturn
  <2>1. TypeOK'
    BY <1>0, <1>8 DEF SqueezeReturn, TypeOK
  <2> QED BY <1>0, <1>8, <2>1 DEF SqueezeReturn, IInv, LoopInv, CountInv, MessageBlocks
<1>9. CASE SqueezeBlocks
  <2>1. TypeOK'
    BY <1>0, <1>9 DEF SqueezeBlocks, TypeOK
  <2> QED BY <1>0, <1>9, <2>1 DEF SqueezeBlocks, IInv, LoopInv, CountInv, MessageBlocks
<1>10. CASE BlockTurn
  <2>1. s' \in Seq(Block) /\ s' # <<>> /\ Len(s') = Len(s) + 1
    BY <1>0, <1>10, PermuteType DEF BlockTurn, TypeOK
  <2>2. Bytes(s', 0, Rate) \in Seq(Seq(Block) \X Nat) /\ Len(Bytes(s', 0, Rate)) = Rate
    BY <2>1, BytesType
  <2>3. given' \in Seq(Seq(Block) \X Nat) /\ Len(given') = Len(given) + Rate
    <3>1. given \in Seq(Seq(Block) \X Nat)
      BY <1>0 DEF TypeOK
    <3>2. given' = given \o Bytes(s', 0, Rate)
      BY <1>10 DEF BlockTurn
    <3> QED BY <2>2, <3>1, <3>2, Appended
  <2>4. TypeOK'
    BY <1>0, <1>10, <2>1, <2>3 DEF BlockTurn, TypeOK
  <2>5. phase = "squeezing" /\ UNCHANGED <<phase, pc, pos, MessageBlocks, absorbed>>
    BY <1>0, <1>10 DEF BlockTurn, LoopInv, MessageBlocks
  <2>6. Len(given') = (Len(s') - MessageBlocks - 1)*Rate + pos
    <3> DEFINE b == Len(s) - MessageBlocks - 1
    <3>1. b \in Int
      BY <1>0 DEF MessageBlocks
    <3>2. Len(given) = b*Rate + pos
      BY <1>0, <2>5 DEF CountInv
    <3>3. (b + 1)*Rate = b*Rate + Rate /\ b*Rate \in Int
      BY <3>1, Product
    <3>4. Len(s') - MessageBlocks - 1 = b + 1
      BY <1>0, <2>1 DEF MessageBlocks
    <3> HIDE DEF b
    <3> QED BY <1>0, <2>3, <3>2, <3>3, <3>4
  <2> QED BY <1>0, <1>10, <2>4, <2>5, <2>6 DEF BlockTurn, IInv, LoopInv, CountInv
<1>11. CASE BlocksReturn
  <2>1. TypeOK'
    BY <1>0, <1>11 DEF BlocksReturn, TypeOK
  <2> QED BY <1>0, <1>11, <2>1 DEF BlocksReturn, IInv, LoopInv, CountInv, MessageBlocks
<1>12. CASE AbsorbOnce
  <2>1. s' \in Seq(Block) /\ s' # <<>> /\ Len(s') = 1
    BY <1>12, StartIsState DEF AbsorbOnce
  <2>2. in' \in Seq(Data) /\ rest' \in Nat \cup {-1}
    BY <1>12 DEF AbsorbOnce, Inputs
  <2>3. TypeOK'
    BY <1>0, <1>12, <2>1, <2>2 DEF AbsorbOnce, TypeOK
  <2> QED BY <1>0, <1>12, <2>1, <2>3 DEF AbsorbOnce, IInv, LoopInv, CountInv
<1>13. CASE OnceBlock
  <2>1. phase = "absorbing" /\ Len(absorbed) = (Len(s) - 1)*Rate
    BY <1>0, <1>13 DEF OnceBlock, LoopInv, CountInv
  <2>2. /\ s' \in Seq(Block) /\ s' # <<>> /\ Len(s') = Len(s) + 1
        /\ in' \in Seq(Data) /\ absorbed' \in Seq(Data)
        /\ Len(absorbed') = Len(absorbed) + Rate
    BY <1>0, <1>13, OnceBlockType
  <2>3. Len(absorbed') = (Len(s') - 1)*Rate
    <3>1. Len(s)*Rate = (Len(s) - 1)*Rate + Rate
      BY <1>0, Product, Len(s) - 1 \in Int, Len(s) = (Len(s) - 1) + 1
    <3> QED BY <1>0, <2>1, <2>2, <3>1
  <2>4. TypeOK'
    BY <1>0, <1>13, <2>2 DEF OnceBlock, TypeOK
  <2> QED BY <1>0, <1>13, <2>1, <2>3, <2>4 DEF OnceBlock, IInv, LoopInv, CountInv
<1>14. CASE OnceTail
  <2>1. phase = "absorbing" /\ given = <<>> /\ Len(absorbed) = (Len(s) - 1)*Rate
    BY <1>0, <1>14 DEF OnceTail, LoopInv, CountInv
  <2>2. /\ XorBytes(s, 0, in) \in Seq(Block) /\ XorBytes(s, 0, in) # <<>>
        /\ Len(XorBytes(s, 0, in)) = Len(s)
        /\ absorbed' \in Seq(Data) /\ Len(absorbed') = Len(absorbed) + Len(in)
        /\ Len(in) \in Nat /\ Len(in) < Rate
    BY <1>0, <1>14, TailType DEF OnceTail
  <2>3. s' \in Seq(Block) /\ s' # <<>> /\ Len(s') = Len(s)
    BY <1>14, <2>2, PaddedType DEF OnceTail
  <2>4. MessageBlocks' = Len(s)
    <3> DEFINE b == Len(s) - 1
               l == Len(in)
    <3>1. b \in Nat /\ l \in Nat /\ l < Rate /\ Len(absorbed') = b*Rate + l
      BY <1>0, <2>1, <2>2
    <3>2. Len(absorbed') \div Rate = b
      <4> HIDE DEF b, l
      <4>1. (b*Rate + l) \div Rate = b
        BY <3>1, WholeBlocks
      <4> QED BY <3>1, <4>1
    <3> QED BY <1>0, <3>2 DEF MessageBlocks
  <2>5. need' \in Nat /\ rest' \in Nat \cup {-1}
    <3>1. \A n \in Nat : n \div Rate \in Nat /\ n % Rate \in Nat
      OBVIOUS
    <3> QED BY <1>0, <1>14, <3>1 DEF OnceTail, TypeOK
  <2>6. /\ in' = <<>> /\ pos' = Rate /\ phase' = "squeezing" /\ pc' \in {"idle", "blocks"}
        /\ given' = <<>>
    BY <1>14, <2>1 DEF OnceTail
  <2>7. TypeOK'
    BY <1>0, <2>2, <2>3, <2>5, <2>6 DEF TypeOK
  <2>8. Len(given') = (Len(s') - MessageBlocks' - 1)*Rate + pos'
    <3>1. (0 - 1)*Rate + Rate = 0
      OBVIOUS
    <3> QED BY <1>0, <2>3, <2>4, <2>6, <3>1
  <2> QED BY <2>6, <2>7, <2>8 DEF IInv, LoopInv, CountInv
<1>15. CASE UNCHANGED vars
  BY <1>15 DEF vars, IInv, TypeOK, LoopInv, CountInv, MessageBlocks
<1> QED BY <1>1, <1>2, <1>3, <1>4, <1>5, <1>6, <1>7, <1>8, <1>9, <1>10, <1>11,
           <1>12, <1>13, <1>14, <1>15 DEF Next

LEMMA Invariant == Spec => []IInv
BY InvStart, InvStep, PTL DEF Spec

\* Whatever is absorbed and squeezed, and in which pieces, pos stays in the
\* block and no remaining length becomes negative.
THEOREM TypeCorrect == Spec => []TypeOK
BY Invariant, PTL DEF IInv

\* Every byte taken has its place and every byte given left one, for every rate.
THEOREM AllBytesAccounted == Spec => []BytesAccounted
<1>1. IInv => BytesAccounted
  BY DEF IInv, LoopInv, CountInv, BytesAccounted, MessageBlocks
<1> QED BY <1>1, Invariant, PTL

(***************************************************************************)
(* What the blocks hold.                                                   *)
(***************************************************************************)

\* Byte k of block b of the state st is that byte of the message a.
Holds(st, a) == \A b \in 1..Len(st), k \in 0..Rate-1 :
    st[b][k] = IF (b-1)*Rate + k < Len(a) THEN a[(b-1)*Rate + k + 1] ELSE {}

\* The state from which block n of the output for m is taken.
StateAt(m, n) == PaddedBlocks(m) \o [b \in 1..n |-> Zero]

\* The bytes given so far are the first ones of the stream for m.
OfStream(m, g) == \A k \in 1..Len(g) : g[k] = SpongeByte(m, k - 1)

ContentInv ==
    /\ phase = "absorbing" => Holds(s, absorbed)
    /\ phase = "squeezing" =>
          /\ Len(s) >= MessageBlocks /\ s = StateAt(absorbed, Len(s) - MessageBlocks)
          /\ OfStream(absorbed, given)

\* The bytes of block b lie before those of block n > b.
LEMMA BlocksApart ==
    ASSUME NEW b \in Nat, NEW n \in Nat, b < n
    PROVE  b*Rate + Rate <= n*Rate
<1>1. PICK d \in Nat : n = b + 1 + d
  <2>1. n - b - 1 \in Nat /\ n = b + 1 + (n - b - 1)
    OBVIOUS
  <2> QED BY <2>1
<1>2. n*Rate = b*Rate + Rate + d*Rate /\ d*Rate \in Nat /\ b*Rate \in Nat
  BY <1>1, RatePositive
<1> QED BY <1>2, RatePositive

\* Byte by byte, what XORing x into the current block from p on does.
LEMMA XorBytesContent ==
    ASSUME NEW st \in Seq(Block), st # <<>>, NEW p \in Nat, NEW x \in Seq(SUBSET Bits),
           NEW b \in 1..Len(st), NEW k \in 0..Rate-1
    PROVE  XorBytes(st, p, x)[b][k] =
              IF b = Len(st) /\ k \in p .. p + Len(x) - 1 THEN Xor(st[b][k], x[k - p + 1])
                                                         ELSE st[b][k]
<1>1. Len(st) \in 1..Len(st) /\ DOMAIN st = 1..Len(st)
  BY EmptySeq, LenProperties
<1> QED BY <1>1 DEF XorBytes

\* The same for one byte.
LEMMA XorByteContent ==
    ASSUME NEW st \in Seq(Block), st # <<>>, NEW p \in Nat, NEW y \in SUBSET Bits,
           NEW b \in 1..Len(st), NEW k \in 0..Rate-1
    PROVE  XorBytes(st, p, <<y>>)[b][k] =
              IF b = Len(st) /\ k = p THEN Xor(st[b][k], y) ELSE st[b][k]
<1> DEFINE x == <<y>>
<1>1. x \in Seq(SUBSET Bits) /\ Len(x) = 1 /\ x[1] = y
  <2> HIDE DEF Bits
  <2> QED OBVIOUS
<1>2. x \in Seq(SUBSET Bits)
  BY <1>1
<1> HIDE DEF x
<1>3. XorBytes(st, p, x)[b][k] =
         IF b = Len(st) /\ k \in p .. p + Len(x) - 1 THEN Xor(st[b][k], x[k - p + 1])
                                                    ELSE st[b][k]
  BY <1>2, XorBytesContent
<1>4. k \in p .. p + Len(x) - 1 <=> k = p
  BY <1>1
<1>5. CASE b = Len(st) /\ k = p
  <2>1. x[k - p + 1] = y
    BY <1>1, <1>5
  <2> QED BY <1>3, <1>4, <1>5, <2>1 DEF x
<1>6. CASE ~(b = Len(st) /\ k = p)
  BY <1>3, <1>4, <1>6 DEF x
<1> QED BY <1>5, <1>6

\* The place in the message of byte k of block b.
LEMMA PlaceType ==
    ASSUME NEW b \in Nat, b > 0, NEW k \in 0..Rate-1
    PROVE  (b-1)*Rate \in Nat /\ (b-1)*Rate + k \in Nat
<1>1. b-1 \in Nat
  OBVIOUS
<1>2. \A c \in Nat : c*Rate \in Nat
  BY RatePositive
<1>3. (b-1)*Rate \in Nat
  BY <1>1, <1>2
<1> QED BY <1>3, RatePositive

\* More of the message goes into the current block.
LEMMA AbsorbContent ==
    ASSUME NEW st \in Seq(Block), st # <<>>, NEW a \in Seq(Data), NEW x \in Seq(Data),
           NEW p \in Nat, Holds(st, a), Len(a) = (Len(st) - 1)*Rate + p,
           p + Len(x) <= Rate
    PROVE  Holds(XorBytes(st, p, x), a \o x)
<1> DEFINE out == XorBytes(st, p, x)
           ax == a \o x
           la == Len(a)
           lx == Len(x)
<1>1. la \in Nat /\ lx \in Nat /\ Len(st) \in Nat /\ Len(st) > 0
  BY EmptySeq, LenProperties
<1>2. x \in Seq(SUBSET Bits)
  BY DataIsBits
<1>3. Len(out) = Len(st)
  BY <1>2, XorBytesType
<1>4. Len(ax) = la + lx
  BY ConcatProperties
<1>5. (\A q \in 1..la : ax[q] = a[q]) /\ (\A j \in 1..lx : ax[la + j] = x[j])
  BY Joined
<1> SUFFICES ASSUME NEW b \in 1..Len(st), NEW k \in 0..Rate-1
             PROVE  out[b][k] = IF (b-1)*Rate + k < la + lx THEN ax[(b-1)*Rate + k + 1] ELSE {}
  <2> HIDE DEF out, ax, la, lx
  <2>1. Holds(out, ax)
    BY <1>3, <1>4 DEF Holds
  <2> QED BY <2>1 DEF out, ax
<1> DEFINE q == (b-1)*Rate + k
<1>7. (b-1)*Rate \in Nat /\ q \in Nat /\ b \in Nat
  BY <1>1, PlaceType
<1>8. out[b][k] = IF b = Len(st) /\ k \in p .. p + lx - 1 THEN Xor(st[b][k], x[k - p + 1])
                  ELSE st[b][k]
  BY <1>2, XorBytesContent
<1>9. st[b][k] = IF q < la THEN a[q + 1] ELSE {}
  BY DEF Holds
<1>10. la = (Len(st) - 1)*Rate + p /\ p + lx <= Rate /\ (Len(st) - 1)*Rate \in Nat
  <2>1. 0 \in 0..Rate-1
    BY RatePositive
  <2> QED BY <1>1, <2>1, PlaceType
<1> SUFFICES out[b][k] = IF q < la + lx THEN ax[q + 1] ELSE {}
  OBVIOUS
<1>11. CASE b # Len(st)
  <2>1. (b-1)*Rate + Rate <= (Len(st) - 1)*Rate
    <3>1. b-1 \in Nat /\ Len(st)-1 \in Nat /\ b-1 < Len(st)-1
      BY <1>1, <1>11
    <3> QED BY <3>1, BlocksApart
  <2> HIDE DEF out, ax, la, lx
  <2>2. q < la
    BY <1>1, <1>7, <1>10, <2>1, RatePositive
  <2> HIDE DEF q
  <2>3. q < la + lx /\ q + 1 \in 1..la
    BY <1>1, <1>7, <2>2
  <2>4. ax[q + 1] = a[q + 1]
    BY <1>5, <2>3
  <2> QED BY <1>8, <1>9, <1>11, <2>2, <2>3, <2>4
<1>12. CASE b = Len(st)
  <2> HIDE DEF out, ax, la, lx
  <2>1. q = la - p + k
    BY <1>1, <1>7, <1>10, <1>12
  <2> HIDE DEF q
  <2>2. CASE k < p
    <3>1. q < la /\ q < la + lx /\ q + 1 \in 1..la /\ k \notin p .. p + lx - 1
      BY <1>1, <1>7, <2>1, <2>2
    <3>2. ax[q + 1] = a[q + 1]
      BY <1>5, <3>1
    <3> QED BY <1>8, <1>9, <3>1, <3>2
  <2>3. CASE k >= p /\ k < p + lx
    <3>1. /\ ~(q < la) /\ q < la + lx /\ k \in p .. p + lx - 1
          /\ q + 1 = la + (k - p + 1) /\ k - p + 1 \in 1..lx
      BY <1>1, <1>7, <2>1, <2>3
    <3>2. ax[q + 1] = x[k - p + 1]
      <4>1. ax[la + (k - p + 1)] = x[k - p + 1]
        BY <1>5, <3>1
      <4> QED BY <3>1, <4>1
    <3>3. out[b][k] = Xor({}, x[k - p + 1])
      BY <1>8, <1>9, <1>12, <3>1
    <3>4. out[b][k] = x[k - p + 1]
      BY <3>3 DEF Xor
    <3> QED BY <3>1, <3>2, <3>4
  <2>4. CASE k >= p + lx
    <3>1. ~(q < la) /\ ~(q < la + lx) /\ k \notin p .. p + lx - 1
      BY <1>1, <1>7, <2>1, <2>4
    <3> QED BY <1>8, <1>9, <3>1
  <2>5. k < p \/ (k >= p /\ k < p + lx) \/ k >= p + lx
    BY <1>1
  <2> QED BY <2>2, <2>3, <2>4, <2>5
<1> QED BY <1>11, <1>12

\* A full block is behind the state; the next one is empty.
LEMMA PermuteContent ==
    ASSUME NEW st \in Seq(Block), NEW a \in Seq(Data), Holds(st, a), Len(a) = Len(st)*Rate
    PROVE  Holds(Permute(st), a)
<1> DEFINE out == Permute(st)
<1>1. Len(st) \in Nat /\ Len(a) \in Nat
  BY LenProperties
<1>2. /\ Len(out) = Len(st) + 1
      /\ \A b \in 1..Len(st) : out[b] = st[b]
      /\ out[Len(st) + 1] = Zero
  BY ZeroIsBlock, AppendProperties DEF Permute
<1> HIDE DEF out
<1> SUFFICES ASSUME NEW b \in 1..Len(st) + 1, NEW k \in 0..Rate-1
             PROVE  out[b][k] = IF (b-1)*Rate + k < Len(a) THEN a[(b-1)*Rate + k + 1] ELSE {}
  BY <1>2 DEF Holds, out
<1>4. CASE b <= Len(st)
  <2>1. b \in 1..Len(st)
    BY <1>1, <1>4
  <2> QED BY <1>2, <2>1 DEF Holds
<1>5. CASE b = Len(st) + 1
  <2>1. b - 1 = Len(st)
    BY <1>1, <1>5
  <2>2. ~((b-1)*Rate + k < Len(a))
    BY <1>1, <2>1
  <2>3. Zero[k] = {}
    BY DEF Zero
  <2> QED BY <1>2, <1>5, <2>2, <2>3
<1>6. b <= Len(st) \/ b = Len(st) + 1
  BY <1>1
<1> QED BY <1>4, <1>5, <1>6

\* The domain byte and the last bit complete the padded message.
LEMMA PaddedContent ==
    ASSUME NEW st \in Seq(Block), st # <<>>, NEW a \in Seq(Data), NEW p \in Nat, p < Rate,
           Holds(st, a), Len(a) = (Len(st) - 1)*Rate + p
    PROVE  Len(a) \div Rate + 1 = Len(st) /\ Padded(st, p) = PaddedBlocks(a)
<1> DEFINE mid == XorBytes(st, p, <<Pad>>)
           out == Padded(st, p)
           byte(q) == Xor(IF q < Len(a) THEN a[q+1] ELSE IF q = Len(a) THEN Pad ELSE {},
                          IF q = Len(st)*Rate - 1 THEN Top ELSE {})
<1>1. Len(st) \in Nat \ {0} /\ Len(st) - 1 \in Nat /\ Len(a) \in Nat
  BY EmptySeq, LenProperties
<1>2. Len(a) \div Rate = Len(st) - 1
  BY <1>1, WholeBlocks
<1>3. PaddedBlocks(a) = [b \in 1..Len(st) |-> [k \in 0..Rate-1 |-> byte((b-1)*Rate + k)]]
  BY <1>1, <1>2, Len(a) \div Rate + 1 = Len(st) DEF PaddedBlocks
<1>4. Pad \in SUBSET Bits /\ Top \in SUBSET Bits
  BY DEF Bits
<1>5. /\ mid \in Seq(Block) /\ mid # <<>> /\ Len(mid) = Len(st)
      /\ out \in Seq(Block) /\ Len(out) = Len(st) /\ out = XorBytes(mid, Rate - 1, <<Top>>)
  <2>1. <<Pad>> \in Seq(SUBSET Bits)
    <3> HIDE DEF Bits
    <3> QED BY <1>4
  <2> QED BY <2>1, XorBytesType, PaddedType DEF Padded
<1>6. ASSUME NEW b \in 1..Len(st), NEW k \in 0..Rate-1
      PROVE  out[b][k] = byte((b-1)*Rate + k)
  <2> DEFINE q == (b-1)*Rate + k
  <2>1. q \in Nat /\ (b-1)*Rate \in Nat /\ Rate - 1 \in Nat
    BY <1>1, PlaceType, RatePositive
  <2>2. mid[b][k] = IF b = Len(st) /\ k = p THEN Xor(st[b][k], Pad) ELSE st[b][k]
    BY <1>4, XorByteContent
  <2>3. out[b][k] = IF b = Len(st) /\ k = Rate - 1 THEN Xor(mid[b][k], Top) ELSE mid[b][k]
    <3> HIDE DEF mid, out
    <3>1. b \in 1..Len(mid)
      BY <1>5
    <3>2. XorBytes(mid, Rate - 1, <<Top>>)[b][k] =
             IF b = Len(mid) /\ k = Rate - 1 THEN Xor(mid[b][k], Top) ELSE mid[b][k]
      BY <1>4, <1>5, <2>1, <3>1, XorByteContent
    <3> QED BY <1>5, <3>2
  <2>4. st[b][k] = IF q < Len(a) THEN a[q + 1] ELSE {}
    BY DEF Holds
  <2>5. (b = Len(st) /\ k = p <=> q = Len(a)) /\ (b = Len(st) /\ k = Rate - 1 <=> q = Len(st)*Rate - 1)
    <3>1. Len(st)*Rate = (Len(st) - 1)*Rate + Rate /\ (Len(st) - 1)*Rate \in Nat
      BY <1>1, RatePositive
    <3>2. CASE b = Len(st)
      BY <1>1, <2>1, <3>1, <3>2, RatePositive
    <3>3. CASE b # Len(st)
      <4>1. (b-1)*Rate + Rate <= (Len(st) - 1)*Rate
        BY <1>1, <3>3, BlocksApart
      <4> QED BY <1>1, <2>1, <3>1, <3>3, <4>1, RatePositive
    <3> QED BY <3>2, <3>3
  <2> HIDE DEF q, mid, out
  <2>6. mid[b][k] = IF q < Len(a) THEN a[q + 1] ELSE IF q = Len(a) THEN Pad ELSE {}
    <3>1. Xor({}, Pad) = Pad
      BY DEF Xor
    <3>2. q = Len(a) => ~(q < Len(a))
      BY <1>1
    <3> QED BY <2>2, <2>4, <2>5, <3>1, <3>2
  <2>7. \A S : Xor(S, {}) = S
    BY DEF Xor
  <2> QED BY <2>3, <2>5, <2>6, <2>7 DEF q
<1>7. Padded(st, p) = PaddedBlocks(a)
  <2>1. \A b \in 1..Len(st) : out[b] = [k \in 0..Rate-1 |-> byte((b-1)*Rate + k)]
    <3> SUFFICES ASSUME NEW b \in 1..Len(st)
                 PROVE  out[b] = [k \in 0..Rate-1 |-> byte((b-1)*Rate + k)]
      OBVIOUS
    <3>1. out[b] \in Block
      BY <1>5, ElementOfSeq
    <3>2. out[b] = [k \in 0..Rate-1 |-> out[b][k]]
      BY <3>1 DEF Block
    <3> HIDE DEF out, byte
    <3> QED BY <1>6, <3>2
  <2> HIDE DEF out, byte
  <2>2. out = [b \in 1..Len(st) |-> out[b]]
    BY <1>5, LenProperties
  <2>3. out = [b \in 1..Len(st) |-> [k \in 0..Rate-1 |-> byte((b-1)*Rate + k)]]
    BY <2>1, <2>2
  <2> QED BY <1>3, <2>3 DEF out
<1> QED BY <1>1, <1>2, <1>7

LEMMA PaddedBlocksType ==
    ASSUME NEW m \in Seq(Data)
    PROVE  PaddedBlocks(m) \in Seq(Block) /\ Len(PaddedBlocks(m)) = Len(m) \div Rate + 1
<1> DEFINE nb == Len(m) \div Rate + 1
           byte(q) == Xor(IF q < Len(m) THEN m[q+1] ELSE IF q = Len(m) THEN Pad ELSE {},
                          IF q = nb*Rate - 1 THEN Top ELSE {})
           block(b) == [k \in 0..Rate-1 |-> byte((b-1)*Rate + k)]
<1>1. PaddedBlocks(m) = [b \in 1..nb |-> block(b)]
  BY DEF PaddedBlocks
<1>2. nb \in Nat /\ Len(m) \in Nat
  <2>1. Len(m) \div Rate \in Nat
    BY WholeBlocksType, LenProperties
  <2> QED BY <2>1, LenProperties
<1>3. ASSUME NEW b \in 1..nb PROVE block(b) \in Block
  <2> SUFFICES ASSUME NEW k \in 0..Rate-1 PROVE byte((b-1)*Rate + k) \subseteq Bits
    BY DEF Block
  <2> DEFINE q == (b-1)*Rate + k
  <2>1. q \in Nat
    BY <1>2, PlaceType
  <2> HIDE DEF q, nb
  <2>2. q < Len(m) => m[q+1] \subseteq Bits
    <3> SUFFICES ASSUME q < Len(m) PROVE m[q+1] \subseteq Bits
      OBVIOUS
    <3>1. q + 1 \in 1..Len(m)
      BY <1>2, <2>1
    <3>2. m \in Seq(SUBSET Bits)
      BY DataIsBits
    <3> QED BY <3>1, <3>2, ElementOfSeq
  <2>3. Pad \subseteq Bits /\ Top \subseteq Bits
    BY DEF Bits
  <2>4. byte(q) \subseteq Bits
    <3> HIDE DEF Bits
    <3> QED BY <2>2, <2>3 DEF Xor
  <2> QED BY <2>4 DEF q
<1> HIDE DEF nb, block, Block
<1> QED BY <1>1, <1>2, <1>3 DEF nb

\* Each application of the permutation starts the next block of the output.
LEMMA StateAtNext ==
    ASSUME NEW m \in Seq(Data), NEW n \in Nat
    PROVE  /\ Permute(StateAt(m, n)) = StateAt(m, n + 1)
           /\ StateAt(m, 0) = PaddedBlocks(m)
<1> DEFINE blocks == PaddedBlocks(m)
           nb == Len(blocks)
           zeros(i) == [b \in 1..i |-> Zero]
<1>1. blocks \in Seq(Block) /\ nb \in Nat
  BY PaddedBlocksType, LenProperties
<1>2. \A i \in Nat : zeros(i) \in Seq(Block) /\ Len(zeros(i)) = i
  <2>1. Zero \in Block
    BY ZeroIsBlock
  <2> HIDE DEF Zero, Block
  <2> QED BY <2>1
<1>3. \A i \in Nat : \A b \in 1..i : zeros(i)[b] = Zero
  OBVIOUS
<1>4. \A i \in Nat : StateAt(m, i) = blocks \o zeros(i)
  BY DEF StateAt
<1> HIDE DEF blocks, zeros, Block, Zero
<1>5. \A i \in Nat :
        /\ StateAt(m, i) \in Seq(Block) /\ Len(StateAt(m, i)) = nb + i
        /\ \A b \in 1..nb : StateAt(m, i)[b] = blocks[b]
        /\ \A b \in 1..i : StateAt(m, i)[nb + b] = Zero
  <2> SUFFICES ASSUME NEW i \in Nat
               PROVE  /\ StateAt(m, i) \in Seq(Block) /\ Len(StateAt(m, i)) = nb + i
                      /\ \A b \in 1..nb : StateAt(m, i)[b] = blocks[b]
                      /\ \A b \in 1..i : StateAt(m, i)[nb + b] = Zero
    OBVIOUS
  <2>1. StateAt(m, i) = blocks \o zeros(i) /\ zeros(i) \in Seq(Block) /\ Len(zeros(i)) = i
    BY <1>2, <1>4
  <2> DEFINE z == zeros(i)
  <2>2. z \in Seq(Block) /\ Len(z) = i /\ blocks \in Seq(Block)
    BY <1>1, <2>1
  <2> HIDE DEF z
  <2>3. blocks \o z \in Seq(Block) /\ Len(blocks \o z) = nb + i
    BY <2>2, ConcatProperties
  <2>4. /\ \A b \in 1..nb : (blocks \o z)[b] = blocks[b]
        /\ \A b \in 1..i : (blocks \o z)[nb + b] = z[b]
    BY <2>2, Joined
  <2> QED BY <1>3, <2>1, <2>3, <2>4 DEF z
<1> DEFINE st == StateAt(m, n)
           next == StateAt(m, n + 1)
<1>6. /\ st \in Seq(Block) /\ Len(st) = nb + n
      /\ next \in Seq(Block) /\ Len(next) = nb + (n + 1)
      /\ \A b \in 1..nb : st[b] = blocks[b] /\ next[b] = blocks[b]
      /\ \A b \in 1..n : st[nb + b] = Zero
      /\ \A b \in 1..n + 1 : next[nb + b] = Zero
  <2>1. n + 1 \in Nat
    OBVIOUS
  <2> QED BY <1>5, <2>1
<1>7. /\ Permute(st) \in Seq(Block) /\ Len(Permute(st)) = Len(st) + 1
      /\ \A b \in 1..Len(st) : Permute(st)[b] = st[b]
      /\ Permute(st)[Len(st) + 1] = Zero
  BY <1>6, ZeroIsBlock, AppendProperties DEF Permute
<1> HIDE DEF st, next, nb
<1>8. \A b \in 1..Len(next) : Permute(st)[b] = next[b]
  <2> SUFFICES ASSUME NEW b \in 1..Len(next) PROVE Permute(st)[b] = next[b]
    OBVIOUS
  <2>1. CASE b <= nb
    <3>1. b \in 1..nb /\ b \in 1..Len(st)
      BY <1>1, <1>6, <2>1
    <3> QED BY <1>6, <1>7, <3>1
  <2>2. CASE b > nb /\ b <= nb + n
    <3>1. PICK i \in 1..n : b = nb + i
      <4>1. b - nb \in 1..n /\ b = nb + (b - nb)
        BY <1>1, <1>6, <2>2
      <4> QED BY <4>1
    <3>2. b \in 1..Len(st) /\ i \in 1..n+1
      BY <1>1, <1>6, <2>2
    <3> QED BY <1>6, <1>7, <3>1, <3>2
  <2>3. CASE b = nb + (n + 1)
    <3>1. b = Len(st) + 1 /\ n + 1 \in 1..n+1
      BY <1>1, <1>6, <2>3
    <3> QED BY <1>6, <1>7, <2>3, <3>1
  <2>4. b <= nb \/ (b > nb /\ b <= nb + n) \/ b = nb + (n + 1)
    BY <1>1, <1>6
  <2> QED BY <2>1, <2>2, <2>3, <2>4
<1>9. Permute(st) = next
  <2>1. Len(Permute(st)) = Len(next)
    BY <1>1, <1>6, <1>7
  <2> QED BY <1>6, <1>7, <1>8, <2>1, SeqEqual
<1>10. StateAt(m, 0) = blocks
  <2>1. StateAt(m, 0) \in Seq(Block) /\ Len(StateAt(m, 0)) = nb
           /\ \A b \in 1..nb : StateAt(m, 0)[b] = blocks[b]
    <3>1. nb + 0 = nb /\ 0 \in Nat
      BY <1>1
    <3> QED BY <1>5, <3>1
  <2> QED BY <1>1, <2>1, SeqEqual DEF nb
<1> QED BY <1>9, <1>10 DEF st, next, blocks

\* n more bytes of block j of the output, from where the last ones ended.
LEMMA GivenContent ==
    ASSUME NEW m \in Seq(Data), NEW g \in Seq(Seq(Block) \X Nat), OfStream(m, g),
           NEW j \in Nat, j > 0, NEW p \in Nat, NEW n \in Nat, p + n <= Rate,
           NEW st \in Seq(Block), st = StateAt(m, j),
           Len(g) = (j - 1)*Rate + p
    PROVE  OfStream(m, g \o Bytes(st, p, n))
<1> DEFINE x == Bytes(st, p, n)
           gx == g \o x
           lg == Len(g)
<1>1. x \in Seq(Seq(Block) \X Nat) /\ Len(x) = n
  BY BytesType
<1>2. \A i \in 1..n : x[i] = <<st, p + i - 1>>
  BY DEF Bytes
<1>3. lg \in Nat
  BY LenProperties
<1> HIDE DEF x, Block
<1>4. gx \in Seq(Seq(Block) \X Nat) /\ Len(gx) = lg + n
  BY <1>1, ConcatProperties
<1>5. (\A k \in 1..lg : gx[k] = g[k]) /\ (\A i \in 1..n : gx[lg + i] = x[i])
  <2> DEFINE Taken == Seq(Block) \X Nat
  <2>1. x \in Seq(Taken) /\ g \in Seq(Taken)
    BY <1>1
  <2> HIDE DEF Taken
  <2>2. /\ \A k \in 1..Len(g) : (g \o x)[k] = g[k]
        /\ \A i \in 1..Len(x) : (g \o x)[Len(g) + i] = x[i]
    BY <2>1, Joined
  <2> QED BY <1>1, <2>2
<1>6. lg = (j - 1)*Rate + p
  OBVIOUS
<1> HIDE DEF gx, lg
<1>7. SUFFICES ASSUME NEW k \in 1..lg + n PROVE gx[k] = SpongeByte(m, k - 1)
  <2>1. OfStream(m, gx)
    BY <1>4, <1>7 DEF OfStream
  <2> QED BY <2>1 DEF gx, x
<1>8. CASE k <= lg
  <2>1. k \in 1..lg
    BY <1>3, <1>8
  <2> QED BY <1>5, <2>1 DEF OfStream, lg
<1>9. CASE k > lg
  <2>1. PICK i \in 1..n : k = lg + i
    <3>1. k - lg \in 1..n /\ k = lg + (k - lg)
      BY <1>3, <1>9
    <3> QED BY <3>1
  <2>2. gx[k] = <<st, p + i - 1>>
    BY <1>2, <1>5, <2>1
  <2>3. p + i - 1 \in Nat /\ p + i - 1 < Rate /\ j - 1 \in Nat
    BY <2>1, RatePositive
  <2>4. k - 1 = (j - 1)*Rate + (p + i - 1)
    <3> DEFINE before == (j - 1)*Rate
    <3>1. before \in Nat
      BY <2>3, RatePositive
    <3>2. lg = before + p
      BY <1>6
    <3> HIDE DEF before
    <3>3. k - 1 = before + (p + i - 1)
      BY <2>1, <3>1, <3>2
    <3> QED BY <3>3 DEF before
  <2>5. (k - 1) \div Rate = j - 1 /\ (k - 1) % Rate = p + i - 1
    BY <2>3, <2>4, WholeBlocks
  <2>6. SpongeByte(m, k - 1) = <<StateAt(m, (k - 1) \div Rate + 1), (k - 1) % Rate>>
    BY DEF SpongeByte, StateAt
  <2>7. (j - 1) + 1 = j
    OBVIOUS
  <2> QED BY <2>2, <2>5, <2>6, <2>7
<1> QED BY <1>3, <1>8, <1>9

LEMMA EmptyContent == Holds(<<Zero>>, <<>>)
<1>1. Len(<<Zero>>) = 1 /\ <<Zero>>[1] = Zero
  <2> HIDE DEF Zero
  <2> QED OBVIOUS
<1> DEFINE st == <<Zero>>
<1>2. Len(st) = 1 /\ st[1] = Zero
  BY <1>1
<1> HIDE DEF st
<1>3. SUFFICES ASSUME NEW b \in 1..Len(st), NEW k \in 0..Rate-1
      PROVE  st[b][k] = {} /\ ~((b-1)*Rate + k < 0)
  <2>1. Holds(st, <<>>)
    BY <1>3 DEF Holds
  <2> QED BY <2>1 DEF st
<1>4. b = 1
  BY <1>2
<1>5. st[b][k] = {}
  BY <1>2, <1>4 DEF Zero
<1>6. (b-1)*Rate + k \in Nat
  BY <1>4, PlaceType
<1> QED BY <1>5, <1>6

\* A whole block of input, from pos on, and the permutation.
LEMMA BlockContent ==
    ASSUME NEW st \in Seq(Block), st # <<>>, NEW a \in Seq(Data), NEW x \in Seq(Data),
           NEW p \in 0..Rate, Holds(st, a), Len(a) = (Len(st) - 1)*Rate + p,
           Len(x) = Rate - p
    PROVE  Holds(Permute(XorBytes(st, p, x)), a \o x)
<1> DEFINE filled == XorBytes(st, p, x)
           ax == a \o x
<1>1. p \in Nat /\ p + Len(x) <= Rate
  BY RatePositive
<1>2. Holds(filled, ax)
  BY <1>1, AbsorbContent
<1>3. filled \in Seq(Block) /\ Len(filled) = Len(st)
  BY <1>1, DataIsBits, XorBytesType
<1>4. ax \in Seq(Data) /\ Len(ax) = Len(a) + Len(x)
  BY ConcatProperties
<1>5. Len(st)*Rate = (Len(st) - 1)*Rate + Rate /\ (Len(st) - 1)*Rate \in Int
  <2>1. Len(st) - 1 \in Int /\ Len(st) = (Len(st) - 1) + 1
    BY LenProperties
  <2> QED BY <2>1, Product
<1>6. Len(ax) = Len(filled)*Rate
  BY <1>3, <1>4, <1>5, RatePositive
<1> HIDE DEF filled, ax
<1>7. Holds(Permute(filled), ax)
  BY <1>2, <1>3, <1>4, <1>6, PermuteContent
<1> QED BY <1>7 DEF filled, ax

\* What finalizing leaves: the padded message, and a block that is used up.
LEMMA FinalContent ==
    ASSUME TypeOK, TypeOK', NEW p \in Nat, p < Rate, NEW st \in Seq(Block), st # <<>>,
           Holds(st, absorbed'), Len(absorbed') = (Len(st) - 1)*Rate + p,
           s' = Padded(st, p), given' = <<>>, phase' = "squeezing"
    PROVE  ContentInv'
<1>1. absorbed' \in Seq(Data)
  BY DEF TypeOK
<1>2. MessageBlocks' = Len(st) /\ s' = PaddedBlocks(absorbed')
  BY <1>1, PaddedContent DEF MessageBlocks
<1>3. Len(s') = Len(st) /\ Len(st) \in Nat
  BY PaddedType, LenProperties
<1>4. Len(s') - MessageBlocks' = 0 /\ Len(s') >= MessageBlocks'
  BY <1>2, <1>3
<1>5. s' = StateAt(absorbed', Len(s') - MessageBlocks')
  BY <1>1, <1>2, <1>4, StateAtNext
<1>6. OfStream(absorbed', given')
  BY DEF OfStream
<1> QED BY <1>4, <1>5, <1>6 DEF ContentInv, TypeOK

\* n more bytes from block j: with the state at it, the stream goes on.
LEMMA TurnContent ==
    ASSUME TypeOK, NEW j \in Nat, j > 0, NEW p \in Nat, NEW n \in Nat, p + n <= Rate,
           NEW st \in Seq(Block), st = StateAt(absorbed, j),
           OfStream(absorbed, given), Len(given) = (j - 1)*Rate + p
    PROVE  OfStream(absorbed, given \o Bytes(st, p, n))
<1>1. absorbed \in Seq(Data) /\ given \in Seq(Seq(Block) \X Nat)
  BY DEF TypeOK
<1> QED BY <1>1, GivenContent

LEMMA ContentStart == Init => ContentInv
BY EmptyContent DEF Init, ContentInv

LEMMA ContentStep == IInv /\ IInv' /\ ContentInv /\ [Next]_vars => ContentInv'
<1> SUFFICES ASSUME IInv, IInv', ContentInv, [Next]_vars PROVE ContentInv'
  OBVIOUS
<1> USE RatePositive
<1>0. TypeOK /\ TypeOK' /\ LoopInv /\ CountInv
  BY DEF IInv
<1>t. /\ s \in Seq(Block) /\ s # <<>> /\ absorbed \in Seq(Data) /\ in \in Seq(Data)
      /\ given \in Seq(Seq(Block) \X Nat) /\ pos \in 0..Rate /\ pos \in Nat /\ need \in Nat
      /\ Len(s) \in Nat /\ Len(s) > 0 /\ Len(absorbed) \in Nat /\ Len(given) \in Nat
      /\ Len(in) \in Nat
  <2> HIDE DEF Block
  <2> QED BY <1>0, LenProperties, EmptySeq DEF TypeOK
<1> HIDE DEF Block
<1>u. MessageBlocks \in Nat
  <2>1. Len(absorbed) \div Rate \in Nat
    BY <1>t, WholeBlocksType
  <2> QED BY <2>1 DEF MessageBlocks
<1>1. CASE InitState
  BY <1>1, EmptyContent DEF InitState, ContentInv
<1>2. CASE Absorb
  BY <1>2 DEF Absorb, ContentInv, MessageBlocks
<1>3. CASE AbsorbBlock
  <2> DEFINE x == Front(in, Rate - pos)
  <2>1. phase = "absorbing" /\ pos < Rate /\ Len(absorbed) = (Len(s) - 1)*Rate + pos
    BY <1>0, <1>3 DEF AbsorbBlock, LoopInv, CountInv
  <2>2. Rate - pos \in 0..Len(in)
    BY <1>t, <1>3, <2>1 DEF AbsorbBlock, FillsBlock
  <2>3. x \in Seq(Data) /\ Len(x) = Rate - pos
    BY <1>t, <2>2, FrontBack
  <2>4. Holds(s, absorbed)
    BY <2>1 DEF ContentInv
  <2> HIDE DEF x
  <2>5. Holds(Permute(XorBytes(s, pos, x)), absorbed \o x)
    BY <1>t, <2>1, <2>3, <2>4, BlockContent
  <2> QED BY <1>3, <2>1, <2>5 DEF AbsorbBlock, ContentInv, x
<1>4. CASE AbsorbTail
  <2>1. phase = "absorbing" /\ pos < Rate /\ Len(absorbed) = (Len(s) - 1)*Rate + pos
    BY <1>0, <1>4 DEF AbsorbTail, LoopInv, CountInv
  <2>2. pos + Len(in) <= Rate
    BY <1>t, <1>4 DEF AbsorbTail, FillsBlock
  <2>3. Holds(s, absorbed)
    BY <2>1 DEF ContentInv
  <2>4. Holds(XorBytes(s, pos, in), absorbed \o in)
    BY <1>t, <2>1, <2>2, <2>3, AbsorbContent
  <2> QED BY <1>4, <2>1, <2>4 DEF AbsorbTail, ContentInv
<1>5. CASE Finalize
  <2>1. /\ phase = "absorbing" /\ pos < Rate /\ Len(absorbed) = (Len(s) - 1)*Rate + pos
        /\ given = <<>>
    BY <1>0, <1>5 DEF Finalize, LoopInv, CountInv
  <2>2. Holds(s, absorbed)
    BY <2>1 DEF ContentInv
  <2>3. absorbed' = absorbed /\ given' = <<>> /\ s' = Padded(s, pos) /\ phase' = "squeezing"
    BY <1>5, <2>1 DEF Finalize
  <2>4. Holds(s, absorbed') /\ Len(absorbed') = (Len(s) - 1)*Rate + pos
    BY <2>1, <2>2, <2>3
  <2> QED BY <1>0, <1>t, <2>1, <2>3, <2>4, FinalContent
<1>6. CASE Squeeze
  BY <1>6 DEF Squeeze, ContentInv, MessageBlocks
<1>7. CASE SqueezeTurn
  <2> DEFINE j == Len(s) - MessageBlocks
             st == IF NextBlock(pos) THEN Permute(s) ELSE s
             p == IF NextBlock(pos) THEN 0 ELSE pos
             n == Least(Rate - p, need)
  <2>1. phase = "squeezing" /\ j \in Nat /\ s = StateAt(absorbed, j) /\ OfStream(absorbed, given)
    BY <1>0, <1>t, <1>u, <1>7 DEF SqueezeTurn, LoopInv, ContentInv
  <2>2. Len(given) = (j - 1)*Rate + pos
    BY <1>0, <2>1 DEF CountInv
  <2>3. /\ s' = st /\ given' = given \o Bytes(st, p, n)
        /\ phase' = phase /\ absorbed' = absorbed /\ MessageBlocks' = MessageBlocks
    BY <1>7 DEF SqueezeTurn, MessageBlocks
  <2>4. p \in Nat /\ n \in Nat /\ p + n <= Rate
    BY <1>t DEF NextBlock, Least
  <2>5. SUFFICES ASSUME NEW i \in Nat, i > 0, st = StateAt(absorbed, i), st \in Seq(Block),
                        Len(st) = MessageBlocks + i, Len(given) = (i - 1)*Rate + p
                 PROVE  ContentInv'
    <3>1. CASE pos = Rate
      <4>1. st = Permute(s) /\ p = 0
        BY <3>1 DEF NextBlock
      <4>2. Permute(s) = StateAt(absorbed, j + 1) /\ Permute(s) \in Seq(Block)
               /\ Len(Permute(s)) = Len(s) + 1
        BY <1>t, <2>1, StateAtNext, PermuteType
      <4>3. Len(given) = j*Rate
        <5>1. j*Rate = (j - 1)*Rate + Rate /\ (j - 1)*Rate \in Int
          <6>1. j - 1 \in Int /\ j = (j - 1) + 1
            BY <2>1
          <6> HIDE DEF j
          <6> QED BY <6>1, Product
        <5> HIDE DEF j
        <5> QED BY <1>t, <2>2, <3>1, <5>1
      <4>4. j + 1 \in Nat /\ j + 1 > 0 /\ Len(s) + 1 = MessageBlocks + (j + 1)
        BY <1>t, <1>u, <2>1
      <4> DEFINE i == j + 1
      <4> HIDE DEF j, st, p
      <4>5. i \in Nat /\ i > 0
        BY <4>4
      <4>6. st = StateAt(absorbed, i) /\ st \in Seq(Block)
        BY <4>1, <4>2
      <4>7. Len(st) = MessageBlocks + i
        BY <4>1, <4>2, <4>4
      <4>8. Len(given) = (i - 1)*Rate + p
        <5>1. i - 1 = j
          BY <2>1
        <5> HIDE DEF i
        <5>2. Len(given) = (i - 1)*Rate
          BY <4>3, <5>1
        <5> QED BY <1>t, <4>1, <5>2
      <4> HIDE DEF i
      <4> QED BY <2>5, <4>5, <4>6, <4>7, <4>8
    <3>2. CASE pos # Rate
      <4>1. st = s /\ p = pos /\ pos < Rate
        BY <1>t, <3>2 DEF NextBlock
      <4>2. j > 0
        <5>1. j = 0 => (j - 1)*Rate = 0 - Rate
          <6> HIDE DEF j
          <6> QED OBVIOUS
        <5> HIDE DEF j
        <5> QED BY <1>t, <2>1, <2>2, <4>1, <5>1
      <4>3. Len(s) = MessageBlocks + j
        BY <1>t, <1>u, <2>1
      <4> HIDE DEF j, st, p
      <4>4. /\ st = StateAt(absorbed, j) /\ st \in Seq(Block) /\ Len(st) = MessageBlocks + j
            /\ Len(given) = (j - 1)*Rate + p
        BY <1>t, <2>1, <2>2, <4>1, <4>3
      <4> QED BY <2>1, <2>5, <4>2, <4>4
    <3> QED BY <3>1, <3>2
  <2> HIDE DEF j, st, p, n
  <2>6. OfStream(absorbed, given \o Bytes(st, p, n))
    BY <1>0, <2>1, <2>4, <2>5, TurnContent
  <2>7. Len(s') - MessageBlocks' = i /\ Len(s') >= MessageBlocks'
    BY <1>u, <2>3, <2>5
  <2> QED BY <2>1, <2>3, <2>5, <2>6, <2>7 DEF ContentInv
<1>8. CASE SqueezeReturn
  BY <1>8 DEF SqueezeReturn, ContentInv, MessageBlocks
<1>9. CASE SqueezeBlocks
  BY <1>9 DEF SqueezeBlocks, ContentInv, MessageBlocks
<1>10. CASE BlockTurn
  <2> DEFINE j == Len(s) - MessageBlocks
             st == Permute(s)
  <2>1. /\ phase = "squeezing" /\ j \in Nat /\ s = StateAt(absorbed, j)
        /\ OfStream(absorbed, given) /\ pos = Rate
    BY <1>0, <1>t, <1>u, <1>10 DEF BlockTurn, LoopInv, ContentInv
  <2>2. Len(given) = (j - 1)*Rate + Rate
    BY <1>0, <2>1 DEF CountInv
  <2>3. /\ s' = st /\ given' = given \o Bytes(st, 0, Rate)
        /\ phase' = phase /\ absorbed' = absorbed /\ MessageBlocks' = MessageBlocks
    BY <1>10 DEF BlockTurn, MessageBlocks
  <2>4. st = StateAt(absorbed, j + 1) /\ st \in Seq(Block) /\ Len(st) = Len(s) + 1
    BY <1>t, <2>1, StateAtNext, PermuteType
  <2>5. Len(given) = (j + 1 - 1)*Rate + 0
    <3>1. j*Rate = (j - 1)*Rate + Rate /\ (j - 1)*Rate \in Int
      <4>1. j - 1 \in Int /\ j = (j - 1) + 1
        BY <2>1
      <4> HIDE DEF j
      <4> QED BY <4>1, Product
    <3>2. j + 1 - 1 = j
      BY <2>1
    <3> HIDE DEF j
    <3> QED BY <1>t, <2>2, <3>1, <3>2
  <2>6. j + 1 \in Nat /\ j + 1 > 0 /\ Len(st) - MessageBlocks = j + 1
    BY <1>t, <1>u, <2>1, <2>4
  <2> HIDE DEF j, st
  <2>7. OfStream(absorbed, given \o Bytes(st, 0, Rate))
    BY <1>0, <2>1, <2>4, <2>5, <2>6, TurnContent
  <2>8. Len(s') - MessageBlocks' = j + 1 /\ Len(s') >= MessageBlocks'
    BY <1>t, <1>u, <2>1, <2>3, <2>4, <2>6
  <2> QED BY <2>1, <2>3, <2>4, <2>7, <2>8 DEF ContentInv
<1>11. CASE BlocksReturn
  BY <1>11 DEF BlocksReturn, ContentInv, MessageBlocks
<1>12. CASE AbsorbOnce
  BY <1>12, EmptyContent DEF AbsorbOnce, ContentInv
<1>13. CASE OnceBlock
  <2> DEFINE x == Front(in, Rate)
  <2>1. phase = "absorbing" /\ Len(absorbed) = (Len(s) - 1)*Rate
    BY <1>0, <1>13 DEF OnceBlock, LoopInv, CountInv
  <2>2. Rate \in 0..Len(in)
    BY <1>t, <1>13 DEF OnceBlock
  <2>3. x \in Seq(Data) /\ Len(x) = Rate - 0
    BY <1>t, <2>2, FrontBack
  <2>4. Holds(s, absorbed)
    BY <2>1 DEF ContentInv
  <2>5. 0 \in 0..Rate /\ Len(absorbed) = (Len(s) - 1)*Rate + 0
    BY <1>t, <2>1
  <2> HIDE DEF x
  <2>6. Holds(Permute(XorBytes(s, 0, x)), absorbed \o x)
    BY <1>t, <2>3, <2>4, <2>5, BlockContent
  <2> QED BY <1>13, <2>1, <2>6 DEF OnceBlock, ContentInv, x
<1>14. CASE OnceTail
  <2> DEFINE st == XorBytes(s, 0, in)
  <2>1. phase = "absorbing" /\ Len(absorbed) = (Len(s) - 1)*Rate /\ given = <<>>
    BY <1>0, <1>14 DEF OnceTail, LoopInv, CountInv
  <2>2. Len(in) < Rate /\ 0 \in Nat /\ 0 + Len(in) <= Rate
    BY <1>t, <1>14 DEF OnceTail
  <2>3. Holds(s, absorbed) /\ Len(absorbed) = (Len(s) - 1)*Rate + 0
    BY <1>t, <2>1 DEF ContentInv
  <2>4. Holds(st, absorbed \o in)
    BY <1>t, <2>2, <2>3, AbsorbContent
  <2>5. /\ st \in Seq(Block) /\ st # <<>> /\ Len(st) = Len(s)
        /\ Len(absorbed \o in) = Len(absorbed) + Len(in)
    BY <1>0, <2>2, TailType
  <2>6. /\ absorbed' = absorbed \o in /\ given' = <<>> /\ s' = Padded(st, Len(in))
        /\ phase' = "squeezing"
    BY <1>14, <2>1 DEF OnceTail
  <2> HIDE DEF st
  <2>7. Holds(st, absorbed') /\ Len(absorbed') = (Len(st) - 1)*Rate + Len(in)
    BY <2>1, <2>4, <2>5, <2>6
  <2> QED BY <1>0, <1>t, <2>2, <2>5, <2>6, <2>7, FinalContent
<1>15. CASE UNCHANGED vars
  BY <1>15 DEF vars, ContentInv, MessageBlocks
<1> QED BY <1>1, <1>2, <1>3, <1>4, <1>5, <1>6, <1>7, <1>8, <1>9, <1>10, <1>11,
           <1>12, <1>13, <1>14, <1>15 DEF Next

LEMMA ContentInvariant == Spec => []ContentInv
BY ContentStart, ContentStep, Invariant, PTL DEF Spec

(***************************************************************************)
(* The sponge implements Xof, the function its callers rely on.            *)
(***************************************************************************)

LEMMA ExtendsBack ==
    ASSUME NEW S, NEW a \in Seq(S), NEW x \in Seq(S)
    PROVE  Reference!Extends(a, a \o x) /\ Reference!Extends(a, a)
<1>1. Len(a) <= Len(a \o x)
  <2>1. Len(a) \in Nat /\ Len(x) \in Nat /\ Len(a \o x) = Len(a) + Len(x)
    BY ConcatProperties, LenProperties
  <2> QED BY <2>1
<1>2. \A k \in 1..Len(a) : (a \o x)[k] = a[k]
  BY Joined
<1>3. Len(a) <= Len(a)
  BY LenProperties
<1> QED BY <1>1, <1>2, <1>3 DEF Reference!Extends

\* A step that takes bytes, or none, and gives none.
LEMMA TakeStep ==
    ASSUME NEW x \in Seq(Data), absorbed \in Seq(Data), phase = "absorbing",
           phase' \in {"absorbing", "squeezing"},
           absorbed' = absorbed \o x, given' = given
    PROVE  Reference!Absorb
BY ExtendsBack DEF Reference!Absorb

\* A step that gives bytes.
LEMMA GiveStep ==
    ASSUME TypeOK, TypeOK', ContentInv', phase = "squeezing",
           NEW x \in Seq(Seq(Block) \X Nat), given' = given \o x,
           UNCHANGED <<phase, absorbed>>
    PROVE  Reference!Squeeze
<1>1. given \in Seq(Seq(Block) \X Nat) /\ given' \in Seq(Seq(Block) \X Nat)
  BY DEF TypeOK
<1>2. Reference!Extends(given, given')
  <2> DEFINE Taken == Seq(Block) \X Nat
  <2>1. given \in Seq(Taken) /\ x \in Seq(Taken)
    BY <1>1
  <2> HIDE DEF Taken
  <2> QED BY <2>1, ExtendsBack
<1>3. OfStream(absorbed', given')
  BY DEF ContentInv
<1>4. \A k \in Len(given)+1 .. Len(given') : given'[k] = SpongeByte(absorbed, k - 1)
  <2>1. Len(given) \in Nat /\ Len(given') \in Nat
    BY <1>1, LenProperties
  <2>2. \A k \in Len(given)+1 .. Len(given') : k \in 1..Len(given')
    BY <2>1
  <2>3. \A k \in 1..Len(given') : given'[k] = SpongeByte(absorbed', k - 1)
    BY <1>3 DEF OfStream
  <2> QED BY <2>2, <2>3
<1> QED BY <1>2, <1>4 DEF Reference!Squeeze

LEMMA RefinementStep ==
    IInv /\ IInv' /\ ContentInv' /\ [Next]_vars => [Reference!Next]_(Reference!vars)
<1> SUFFICES ASSUME IInv, IInv', ContentInv', [Next]_vars
             PROVE  Reference!Next \/ UNCHANGED Reference!vars
  OBVIOUS
<1> HIDE DEF Block
<1>0. TypeOK /\ TypeOK' /\ LoopInv
  BY DEF IInv
<1>t. /\ s \in Seq(Block) /\ absorbed \in Seq(Data) /\ in \in Seq(Data)
      /\ pos \in 0..Rate /\ need \in Nat /\ Len(in) \in Nat
  BY <1>0, LenProperties DEF TypeOK
<1>1. CASE InitState \/ AbsorbOnce
  BY <1>1 DEF InitState, AbsorbOnce, Reference!Next, Reference!Start
<1>2. CASE Absorb \/ Squeeze \/ SqueezeReturn \/ SqueezeBlocks \/ BlocksReturn
  BY <1>2 DEF Absorb, Squeeze, SqueezeReturn, SqueezeBlocks, BlocksReturn, Reference!vars
<1>3. CASE AbsorbBlock
  <2>1. phase = "absorbing" /\ phase' = phase /\ given' = given
    BY <1>0, <1>3 DEF AbsorbBlock, LoopInv
  <2>2. Rate - pos \in 0..Len(in)
    BY <1>t, <1>3, RatePositive DEF AbsorbBlock, FillsBlock
  <2>3. Front(in, Rate - pos) \in Seq(Data)
    BY <1>t, <2>2, FrontBack
  <2>4. absorbed' = absorbed \o Front(in, Rate - pos)
    BY <1>3 DEF AbsorbBlock
  <2> QED BY <1>t, <2>1, <2>3, <2>4, TakeStep DEF Reference!Next
<1>4. CASE AbsorbTail
  <2>1. phase = "absorbing" /\ phase' = phase /\ given' = given /\ absorbed' = absorbed \o in
    BY <1>0, <1>4 DEF AbsorbTail, LoopInv
  <2> QED BY <1>t, <2>1, TakeStep DEF Reference!Next
<1>5. CASE Finalize
  <2>1. phase = "absorbing" /\ phase' = "squeezing" /\ given' = given /\ absorbed' = absorbed
    BY <1>5 DEF Finalize
  <2>2. Reference!Extends(absorbed, absorbed)
    BY <1>t, ExtendsBack
  <2> QED BY <2>1, <2>2 DEF Reference!Next, Reference!Absorb
<1>6. CASE SqueezeTurn
  <2> DEFINE st == IF NextBlock(pos) THEN Permute(s) ELSE s
             p == IF NextBlock(pos) THEN 0 ELSE pos
             n == Least(Rate - p, need)
  <2>1. /\ phase = "squeezing" /\ UNCHANGED <<phase, absorbed>>
        /\ given' = given \o Bytes(st, p, n)
    BY <1>0, <1>6 DEF SqueezeTurn, LoopInv
  <2>2. st \in Seq(Block) /\ p \in Nat /\ n \in Nat
    BY <1>t, RatePositive, PermuteType DEF NextBlock, Least
  <2> HIDE DEF st, p, n
  <2>3. Bytes(st, p, n) \in Seq(Seq(Block) \X Nat)
    BY <2>2, BytesType
  <2> QED BY <1>0, <2>1, <2>3, GiveStep DEF Reference!Next
<1>7. CASE BlockTurn
  <2>1. /\ phase = "squeezing" /\ UNCHANGED <<phase, absorbed>>
        /\ given' = given \o Bytes(s', 0, Rate)
    BY <1>0, <1>7 DEF BlockTurn, LoopInv
  <2>2. Bytes(s', 0, Rate) \in Seq(Seq(Block) \X Nat)
    BY <1>0, RatePositive, BytesType DEF TypeOK
  <2> QED BY <1>0, <2>1, <2>2, GiveStep DEF Reference!Next
<1>8. CASE OnceBlock
  <2>1. phase = "absorbing" /\ phase' = phase /\ given' = given
    BY <1>0, <1>8 DEF OnceBlock, LoopInv
  <2>2. Rate \in 0..Len(in)
    BY <1>t, <1>8, RatePositive DEF OnceBlock
  <2>3. Front(in, Rate) \in Seq(Data)
    BY <1>t, <2>2, FrontBack
  <2>4. absorbed' = absorbed \o Front(in, Rate)
    BY <1>8 DEF OnceBlock
  <2> QED BY <1>t, <2>1, <2>3, <2>4, TakeStep DEF Reference!Next
<1>9. CASE OnceTail
  <2>1. phase = "absorbing" /\ phase' = "squeezing" /\ given' = given /\ absorbed' = absorbed \o in
    BY <1>0, <1>9 DEF OnceTail, LoopInv
  <2> QED BY <1>t, <2>1, TakeStep DEF Reference!Next
<1>10. CASE UNCHANGED vars
  BY <1>10 DEF vars, Reference!vars
<1> QED BY <1>1, <1>2, <1>3, <1>4, <1>5, <1>6, <1>7, <1>8, <1>9, <1>10 DEF Next

\* Whatever pieces keccak_absorb, keccak_squeeze and keccak_squeezeblocks are
\* given, and whether they or shake128/shake256 are used, the bytes that come
\* out are the bytes of one stream of the bytes that went in, each given once
\* and in order.
THEOREM StreamOfMessage == Spec => ImplementsXof
<1>1. Init => Reference!Init
  BY DEF Init, Reference!Init
<1> QED BY <1>1, RefinementStep, Invariant, ContentInvariant, PTL
        DEF Spec, ImplementsXof, Reference!Spec

=============================================================================
