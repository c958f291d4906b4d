----------------------------- MODULE Sign_proofs -----------------------------
(***************************************************************************)
(* Theorems about Sign, for every value of its constants.                  *)
(***************************************************************************)
EXTENDS SignInvariant, SequenceTheorems, FiniteSetTheorems, TLAPS

(***************************************************************************)
(* Types.                                                                  *)
(***************************************************************************)

LEMMA Constants ==
    /\ N \in Nat \ {0} /\ K \in Nat \ {0} /\ OMEGA \in Nat /\ OMEGA < N
    /\ L \in Nat \ {0} /\ NonceMod \in Nat \ {0} /\ MaxLen \in Nat
    /\ MaxCalls \in Nat /\ MaxDamage \in Nat
    /\ SigBytes \in Nat /\ SmBytes \in Nat /\ SmBytes = SigBytes + MaxLen
    /\ SigBytes > 2
    /\ MsgPtr \subseteq 0..SmBytes
    /\ UninitLen \subseteq Nat
BY HintAssumption, SignAssumption DEF SigBytes, SmBytes

LEMMA StreamType == \A n \in Nat, k \in 0..L-1 : Stream(n, k) \in 0..NonceMod-1
BY Constants DEF Stream

LEMMA TypeStart == Init => TypeOK
<1> USE Constants DEF TypeOK
<1> SUFFICES ASSUME Init PROVE TypeOK
  OBVIOUS
<1>1. wrapped \in BOOLEAN
  BY Zenon DEF Init
<1> QED BY <1>1 DEF Init, NoArg

LEMMA TypeStep == TypeOK /\ [Next]_vars => TypeOK'
<1> USE Constants DEF TypeOK
<1> SUFFICES ASSUME TypeOK, [Next]_vars PROVE TypeOK'
  OBVIOUS
<1>1. CASE KeyPair
  BY <1>1 DEF KeyPair, sigvars, ghosts, PublicKey
<1>2. CASE CallSign
  BY <1>2, TextAssumption DEF CallSign, sigvars, ghosts
<1>3. CASE SignCopy
  BY <1>3 DEF SignCopy, SignCopyByte, sigvars, ghosts
<1>4. CASE SignTooLong
  BY <1>4 DEF SignTooLong, sigvars, ghosts
<1>5. CASE SignPrepare
  <2>1. wrapped' \in BOOLEAN
    BY <1>5, Zenon DEF SignPrepare
  <2> QED BY <1>5, <2>1 DEF SignPrepare, sigvars, ghosts
<1>6. CASE SignTry
  <2>1. nonce' \in 0..NonceMod-1
    BY <1>6 DEF SignTry, NextNonce
  <2>2. wrapped' \in BOOLEAN
    BY <1>6, Zenon DEF SignTry
  <2>3. drawn' \subseteq 0..NonceMod-1
    <3>1. \A k \in 0..L-1 : Stream(nonce, k) \in 0..NonceMod-1
      BY StreamType
    <3>2. drawn' = drawn \cup {Stream(nonce, k) : k \in 0..L-1}
      BY <1>6 DEF SignTry, StreamsOf
    <3> QED BY <3>1, <3>2
  <2> QED BY <1>6, <2>1, <2>2, <2>3 DEF SignTry, sigvars, ghosts
<1>7. CASE SignPack
  BY <1>7 DEF SignPack, Packed, sigvars, ghosts
<1>8. CASE Damage
  BY <1>8 DEF Damage, sigvars, ghosts
<1>9. CASE Verify
  <2> PICK key \in keys, ctx \in Context, siglen \in {SigBytes, SigBytes - 1} :
            arg' = [NoArg EXCEPT !.pk = key.pk, !.ctx = ctx, !.len = SigBytes + smlen - siglen]
    BY <1>9 DEF Verify
  <2>1. SigBytes + smlen - siglen \in Nat
    OBVIOUS
  <2>2. arg'.mp = 0 /\ arg'.len \in Nat
    BY <2>1 DEF NoArg
  <2>3. /\ calls < MaxCalls /\ calls' = calls + 1
        /\ UNCHANGED <<keys, mem, smlen, mlen, pc, i, sigvars, large, damage>>
    BY <1>9 DEF Verify
  <2> QED BY <2>2, <2>3 DEF sigvars
<1>10. CASE CallOpen
  BY <1>10 DEF CallOpen, sigvars, ghosts
<1>11. CASE OpenAccept
  BY <1>11 DEF OpenAccept, Opens, sigvars, ghosts
<1>12. CASE OpenReject
  BY <1>12 DEF OpenReject, sigvars, ghosts
<1>13. CASE OpenCopy
  BY <1>13 DEF OpenCopy, OpenCopyByte, sigvars, ghosts
<1>14. CASE OpenWipe
  BY <1>14 DEF OpenWipe, sigvars, ghosts
<1>15. CASE OpenReturn
  BY <1>15 DEF OpenReturn, sigvars, ghosts
<1>16. CASE UNCHANGED vars
  BY <1>16 DEF vars, sigvars, ghosts
<1> QED BY <1>1, <1>2, <1>3, <1>4, <1>5, <1>6, <1>7, <1>8, <1>9, <1>10, <1>11,
           <1>12, <1>13, <1>14, <1>15, <1>16 DEF Next, Library, Caller

\* Every step of the library and of the caller keeps the types: the nonce stays
\* a uint16_t, the stream numbers drawn are below 2^16, no length or index
\* becomes negative, and the key pair's tr is the hash of its pk.
THEOREM TypeCorrect == Spec => []TypeOK
BY TypeStart, TypeStep, PTL DEF Spec

(***************************************************************************)
(* The streams of the masking vectors.                                     *)
(***************************************************************************)

\* While nonce has not wrapped, the streams drawn are those of the candidates
\* before this one.
StreamInv ==
    pc = "sign_try" /\ ~wrapped =>
        drawn \subseteq UNION {StreamsOf(n) : n \in 0..nonce-1}

\* Stream numbers below NonceMod are L*n + k without reduction, and grow with n.
LEMMA StreamOrder ==
    ASSUME NEW n \in Nat, NEW m \in Nat, n < m,
           NEW j \in 0..L-1, NEW k \in 0..L-1, L*m + L <= NonceMod
    PROVE  Stream(n, j) < Stream(m, k)
<1> USE Constants
<1>1. L*n \in Nat /\ L*m \in Nat
  OBVIOUS
<1>2. L*n + L <= L*m
  <2>1. PICK d \in Nat : m = n + 1 + d
    <3> WITNESS m - n - 1 \in Nat
    <3> QED OBVIOUS
  <2>2. L*m = L*n + L + L*d /\ L*d \in Nat
    BY <2>1
  <2> QED BY <1>1, <2>2
<1>3. L*n + j \in 0..NonceMod-1 /\ L*m + k \in 0..NonceMod-1
  BY <1>1, <1>2
<1>4. Stream(n, j) = L*n + j /\ Stream(m, k) = L*m + k
  BY <1>3 DEF Stream
<1> QED BY <1>1, <1>2, <1>4

LEMMA StreamDistinct ==
    ASSUME NEW n \in Nat, L*n + L <= NonceMod,
           NEW j \in 0..L-1, NEW k \in 0..L-1, Stream(n, j) = Stream(n, k)
    PROVE  j = k
<1> USE Constants
<1> DEFINE P == L*n
<1>1. P \in Nat
  OBVIOUS
<1>2. Stream(n, j) = P + j /\ Stream(n, k) = P + k
  BY <1>1 DEF Stream
<1>3. j \in Int /\ k \in Int
  OBVIOUS
<1> HIDE DEF P
<1>4. P + j = P + k
  BY <1>2
<1> QED BY <1>1, <1>3, <1>4

\* No polynomial of a masking vector of one signature shares its XOF stream
\* with another, up to the candidate at which L*nonce + i leaves 16 bits.
THEOREM FreshStreamsHold == Spec => []FreshStreams
<1> USE Constants
<1>1. Init => StreamInv
  BY DEF Init, StreamInv
<1>2. TypeOK /\ StreamInv /\ [Next]_vars => StreamInv'
  <2> SUFFICES ASSUME TypeOK, StreamInv, [Next]_vars PROVE StreamInv'
    OBVIOUS
  <2>1. CASE SignPrepare
    BY <2>1 DEF SignPrepare, StreamInv
  <2>2. CASE SignTry
    <3> SUFFICES ASSUME pc' = "sign_try", ~wrapped'
                 PROVE  drawn' \subseteq UNION {StreamsOf(n) : n \in 0..nonce'-1}
      BY DEF StreamInv
    <3>1. ~wrapped /\ nonce' # 0 /\ nonce' = (nonce + 1) % NonceMod
      BY <2>2 DEF SignTry, NextNonce
    <3>2. nonce' = nonce + 1 /\ nonce \in Nat
      BY <3>1 DEF TypeOK
    <3>3. drawn \subseteq UNION {StreamsOf(n) : n \in 0..nonce-1}
      BY <2>2, <3>1 DEF SignTry, StreamInv
    <3>4. drawn' = drawn \cup StreamsOf(nonce)
      BY <2>2 DEF SignTry
    <3> QED BY <3>2, <3>3, <3>4
  <2>3. CASE UNCHANGED <<sigvars, pc>>
    BY <2>3 DEF sigvars, StreamInv, StreamsOf
  <2>4. CASE pc' # "sign_try"
    BY <2>4 DEF StreamInv
  <2>5. [Next]_vars => \/ SignPrepare \/ SignTry \/ UNCHANGED <<sigvars, pc>>
                       \/ pc' # "sign_try"
    BY DEF Next, Library, Caller, KeyPair, CallSign, SignCopy, SignTooLong, SignPack,
           Damage, Verify, CallOpen, OpenAccept, OpenReject, OpenCopy, OpenWipe,
           OpenReturn, vars
  <2> QED BY <2>1, <2>2, <2>3, <2>4, <2>5
<1>3. TypeOK /\ StreamInv => FreshStreams
  <2> SUFFICES ASSUME TypeOK, StreamInv, pc = "sign_try", ~wrapped, L*nonce + L <= NonceMod
               PROVE  /\ StreamsOf(nonce) \cap drawn = {}
                      /\ \A j, k \in 0..L-1 : Stream(nonce, j) = Stream(nonce, k) => j = k
    BY DEF FreshStreams
  <2>1. nonce \in Nat
    BY DEF TypeOK
  <2>2. ASSUME NEW s \in StreamsOf(nonce), s \in drawn PROVE FALSE
    <3>1. PICK n \in 0..nonce-1 : s \in StreamsOf(n)
      BY <2>2 DEF StreamInv
    <3>2. PICK j \in 0..L-1 : s = Stream(n, j)
      BY <3>1 DEF StreamsOf
    <3>3. PICK k \in 0..L-1 : s = Stream(nonce, k)
      BY <2>2 DEF StreamsOf
    <3>4. Stream(n, j) < Stream(nonce, k)
      BY <2>1, StreamOrder
    <3>5. s \in Int
      BY <3>3, <2>1, StreamType
    <3> QED BY <3>2, <3>3, <3>4, <3>5
  <2> QED BY <2>1, <2>2, StreamDistinct
<1>4. QED BY <1>1, <1>2, <1>3, TypeCorrect, PTL DEF Spec

(***************************************************************************)
(* What is signed and what is accepted.                                    *)
(***************************************************************************)

LEMMA ModSmall == \A n \in Nat \ {0} : \A a \in 0..n-1 : a % n = a
OBVIOUS

LEMMA Concat ==
    \A s, t \in Seq(ByteCell) :
        /\ s \o t \in Seq(ByteCell)
        /\ Len(s \o t) = Len(s) + Len(t)
        /\ \A k \in 1 .. Len(s) + Len(t) :
              (s \o t)[k] = IF k <= Len(s) THEN s[k] ELSE t[k - Len(s)]
BY ConcatProperties

\* The bytes of 0, ctxlen, ctx, m, for a context that is not too long.
LEMMA PreBytes ==
    ASSUME NEW c \in Seq(ByteCell), NEW t \in Seq(ByteCell), ~TooLong(c)
    PROVE  /\ Len(c) \in Nat /\ Len(t) \in Nat
           /\ Len(Pre(c) \o t) = 2 + Len(c) + Len(t)
           /\ (Pre(c) \o t)[2] = B(Len(c))
           /\ \A k \in 1..Len(c) : (Pre(c) \o t)[2 + k] = c[k]
           /\ \A k \in 1..Len(t) : (Pre(c) \o t)[2 + Len(c) + k] = t[k]
<1> DEFINE n == Len(c)
           h == <<B(0), B(n)>>
<1>1. n \in Nat /\ Len(t) \in Nat /\ n < N
  BY Constants DEF TooLong
<1>2. Pre(c) = h \o c
  <2>1. n % N = n
    BY <1>1, ModSmall, Constants
  <2> QED BY <2>1 DEF Pre
<1>3. h \in Seq(ByteCell) /\ Len(h) = 2 /\ h[2] = B(n)
  <2>1. B(0) \in ByteCell /\ B(n) \in ByteCell
    <3>1. 0 \in Byte /\ n \in Byte
      BY <1>1, Constants DEF Byte
    <3> QED BY <3>1 DEF ByteCell
  <2> QED BY <2>1
<1> HIDE DEF h
<1>4. /\ Pre(c) \in Seq(ByteCell) /\ Len(Pre(c)) = 2 + n
      /\ \A k \in 1 .. 2 + n : Pre(c)[k] = IF k <= 2 THEN h[k] ELSE c[k - 2]
  <2>1. /\ h \o c \in Seq(ByteCell) /\ Len(h \o c) = Len(h) + Len(c)
        /\ \A k \in 1 .. Len(h) + Len(c) :
              (h \o c)[k] = IF k <= Len(h) THEN h[k] ELSE c[k - Len(h)]
    BY <1>3, Concat
  <2> QED BY <2>1, <1>2, <1>3
<1>5. /\ Len(Pre(c) \o t) = 2 + n + Len(t)
      /\ \A k \in 1 .. 2 + n + Len(t) :
            (Pre(c) \o t)[k] = IF k <= 2 + n THEN Pre(c)[k] ELSE t[k - (2 + n)]
  <2>1. /\ Len(Pre(c) \o t) = Len(Pre(c)) + Len(t)
        /\ \A k \in 1 .. Len(Pre(c)) + Len(t) :
              (Pre(c) \o t)[k] = IF k <= Len(Pre(c)) THEN Pre(c)[k] ELSE t[k - Len(Pre(c))]
    BY <1>4, Concat
  <2> QED BY <2>1, <1>4
<1> HIDE DEF n
<1>6. (Pre(c) \o t)[2] = B(n)
  BY <1>1, <1>3, <1>4, <1>5
<1>7. ASSUME NEW k \in 1..n PROVE (Pre(c) \o t)[2 + k] = c[k]
  <2>1. 2 + k \in 1 .. 2 + n /\ 2 + k \in 1 .. 2 + n + Len(t) /\ ~(2 + k <= 2) /\ (2 + k) - 2 = k
    BY <1>1
  <2> QED BY <2>1, <1>4, <1>5
<1>8. ASSUME NEW k \in 1..Len(t) PROVE (Pre(c) \o t)[2 + n + k] = t[k]
  <2>1. /\ 2 + n + k \in 1 .. 2 + n + Len(t) /\ ~(2 + n + k <= 2 + n)
        /\ (2 + n + k) - (2 + n) = k
    BY <1>1
  <2> QED BY <2>1, <1>5
<1> QED BY <1>1, <1>5, <1>6, <1>7, <1>8 DEF n

\* 0, ctxlen, ctx, m determines ctx and m while ctxlen fits in its byte.
LEMMA PreInjective ==
    ASSUME NEW c \in Seq(ByteCell), NEW d \in Seq(ByteCell),
           NEW t \in Seq(ByteCell), NEW u \in Seq(ByteCell),
           ~TooLong(c), ~TooLong(d), Pre(c) \o t = Pre(d) \o u
    PROVE  c = d /\ t = u
<1> DEFINE s == Pre(c) \o t
<1>1. /\ Len(c) \in Nat /\ Len(t) \in Nat /\ Len(s) = 2 + Len(c) + Len(t)
      /\ s[2] = B(Len(c))
      /\ \A k \in 1..Len(c) : s[2 + k] = c[k]
      /\ \A k \in 1..Len(t) : s[2 + Len(c) + k] = t[k]
  BY PreBytes
<1>2. /\ Len(d) \in Nat /\ Len(u) \in Nat /\ Len(s) = 2 + Len(d) + Len(u)
      /\ s[2] = B(Len(d))
      /\ \A k \in 1..Len(d) : s[2 + k] = d[k]
      /\ \A k \in 1..Len(u) : s[2 + Len(d) + k] = u[k]
  <2>1. s = Pre(d) \o u
    OBVIOUS
  <2> HIDE DEF s
  <2> QED BY <2>1, PreBytes
<1> HIDE DEF s
<1>3. Len(c) = Len(d)
  BY <1>1, <1>2 DEF B
<1>4. Len(t) = Len(u)
  BY <1>1, <1>2, <1>3
<1>5. c = d
  BY <1>1, <1>2, <1>3, SeqEqual
<1>6. t = u
  BY <1>1, <1>2, <1>3, <1>4, SeqEqual
<1> QED BY <1>5, <1>6

\* The constructors of cells and hashes are told apart and taken apart.
LEMMA Cells ==
    /\ \A m, zv : Challenge(m, zv) \notin ByteCell \cup {<<"hash", "junk">>}
    /\ \A m, zv, n, w : Challenge(m, zv) = Challenge(n, w) => m = n
BY DEF Challenge, Mu, Tr, ByteCell, B

LEMMA ArgsStep == IInv /\ [Next]_vars => ArgsInv'
<1> SUFFICES ASSUME TypeOK, ArgsInv, MemInv, [Next]_vars PROVE ArgsInv'
  BY DEF IInv
<1> USE DEF ArgsInv, SignPcs, OpenPcs
<1>1. CASE CallSign
  BY <1>1, TextAssumption DEF CallSign, TypeOK
<1>2. CASE SignCopy
  BY <1>2 DEF SignCopy, ghosts
<1>3. CASE SignTooLong
  BY <1>3 DEF SignTooLong
<1>4. CASE SignPrepare
  BY <1>4 DEF SignPrepare, ghosts
<1>5. CASE SignTry
  BY <1>5 DEF SignTry, ghosts
<1>6. CASE SignPack
  BY <1>6 DEF SignPack
<1>7. CASE pc' = "idle"
  BY <1>7
<1>8. CASE CallOpen
  BY <1>8 DEF CallOpen, ghosts, TypeOK
<1>9. CASE OpenAccept \/ OpenReject
  BY <1>9, Constants DEF OpenAccept, OpenReject, Opens, ghosts, TypeOK
<1>10. CASE OpenCopy \/ OpenWipe
  BY <1>10 DEF OpenCopy, OpenWipe, ghosts
<1>11. CASE UNCHANGED vars
  BY <1>11 DEF vars, ghosts
<1>12. KeyPair \/ Damage \/ Verify \/ OpenReturn => pc' = "idle"
  BY DEF KeyPair, Damage, Verify, OpenReturn
<1> QED BY <1>1, <1>2, <1>3, <1>4, <1>5, <1>6, <1>7, <1>8, <1>9, <1>10, <1>11, <1>12
           DEF Next, Library, Caller

LEMMA Pointers ==
    ASSUME NEW mp \in MsgPtr
    PROVE  mp \in Nat /\ mp <= SmBytes
BY Constants

\* The copying loop of crypto_sign keeps CopyInv: it writes a byte only where
\* the bytes still to be copied no longer are.
LEMMA CopyStep == IInv /\ [Next]_vars => CopyInv'
<1> SUFFICES ASSUME TypeOK, ArgsInv, CopyInv, [Next]_vars, pc' = "sign_copy"
             PROVE  /\ i' <= arg'.len
                    /\ \A k \in 1..arg'.len :
                          mem'[IF k <= arg'.len - i' THEN arg'.mp + k - 1 ELSE SigBytes + k - 1]
                             = arg'.text[k]
  BY DEF IInv, CopyInv
<1> USE Constants
<1>1. CASE CallSign
  <2> PICK text \in Text, mp \in MsgPtr :
         /\ mem' = [a \in Addr |-> IF a \in mp .. mp + Len(text) - 1
                                   THEN text[a - mp + 1] ELSE mem[a]]
         /\ arg'.text = text /\ arg'.mp = mp /\ arg'.len = Len(text) /\ i' = 0
    <3> PICK key \in keys, text \in Text, ctx \in Context, mp \in MsgPtr :
                CallSign!(key, text, ctx, mp)
      BY <1>1, Zenon DEF CallSign
    <3>1. arg'.text = text /\ arg'.mp = mp /\ arg'.len = Len(text)
      BY DEF CallSign
    <3> QED BY <3>1 DEF CallSign
  <2>1. Len(text) \in Nat /\ Len(text) <= MaxLen
    BY TextAssumption
  <2>2. mp \in 0..SmBytes
    OBVIOUS
  <2>3. ASSUME NEW k \in 1..Len(text) PROVE mem'[mp + k - 1] = text[k]
    <3>1. /\ mp + k - 1 \in Addr /\ mp + k - 1 \in mp .. mp + Len(text) - 1
          /\ (mp + k - 1) - mp + 1 = k
      BY <2>1, <2>2 DEF Addr
    <3> QED BY <3>1
  <2> QED BY <2>1, <2>3
<1>2. CASE SignCopy
  <2> DEFINE n == arg.len
             dst == SigBytes + n - 1 - i
             src == arg.mp + n - 1 - i
  <2>1. /\ pc = "sign_copy" /\ i < n /\ i' = i + 1 /\ arg' = arg
        /\ mem' = [mem EXCEPT ![dst] = mem[src]]
    BY <1>2 DEF SignCopy, SignCopyByte
  <2>2. /\ arg.mp \in Nat /\ (arg.mp <= SigBytes \/ SigBytes + n <= arg.mp)
        /\ n \in Nat /\ n <= MaxLen /\ i \in Nat
    BY <2>1, Pointers, TextAssumption DEF ArgsInv, SignPcs, TypeOK, Fits
  <2>3. DOMAIN mem = Addr /\ dst \in Addr
    <3>1. DOMAIN mem = Addr
      BY DEF TypeOK
    <3>2. dst \in Nat /\ dst <= SigBytes + MaxLen - 1
      BY <2>1, <2>2
    <3> HIDE DEF dst
    <3>3. dst \in Addr
      BY <3>2 DEF Addr
    <3> QED BY <3>1, <3>3
  <2>4. mem'[dst] = arg.text[n - i]
    <3>1. n - i \in 1..n /\ arg.mp + (n - i) - 1 = src
      BY <2>1, <2>2
    <3>2. mem[src] = arg.text[n - i]
      BY <2>1, <2>2, <3>1 DEF CopyInv
    <3> QED BY <2>1, <2>3, <3>2
  <2>5. \A a \in Int : a # dst => mem'[a] = mem[a]
    BY <2>1, <2>3
  <2>6. ASSUME NEW k \in 1..n
        PROVE  mem'[IF k <= n - i' THEN arg.mp + k - 1 ELSE SigBytes + k - 1] = arg.text[k]
    <3>1. CASE k <= n - (i + 1)
      <4>1. arg.mp + k - 1 \in Int /\ arg.mp + k - 1 # dst
        BY <2>2, <3>1
      <4>2. mem[arg.mp + k - 1] = arg.text[k]
        BY <2>1, <2>2, <3>1 DEF CopyInv
      <4> QED BY <2>1, <2>5, <3>1, <4>1, <4>2
    <3>2. CASE k = n - i
      <4>1. ~(k <= n - (i + 1)) /\ SigBytes + k - 1 = dst
        BY <2>2, <3>2
      <4> QED BY <2>1, <2>4, <3>2, <4>1
    <3>3. CASE k > n - i
      <4>1. /\ ~(k <= n - (i + 1)) /\ ~(k <= n - i)
            /\ SigBytes + k - 1 \in Int /\ SigBytes + k - 1 # dst
        BY <2>2, <3>3
      <4>2. mem[SigBytes + k - 1] = arg.text[k]
        BY <2>1, <4>1 DEF CopyInv
      <4> QED BY <2>1, <2>5, <4>1, <4>2
    <3>4. k <= n - (i + 1) \/ k = n - i \/ k > n - i
      BY <2>2
    <3> QED BY <3>1, <3>2, <3>3, <3>4
  <2> QED BY <2>1, <2>2, <2>6
<1>3. CASE UNCHANGED vars
  BY <1>3 DEF CopyInv, vars
<1>4. [Next]_vars /\ pc' = "sign_copy" => CallSign \/ SignCopy \/ UNCHANGED vars
  BY DEF Next, Library, Caller, KeyPair, SignTooLong, SignPrepare, SignTry, SignPack,
         Damage, Verify, CallOpen, OpenAccept, OpenReject, OpenCopy, OpenWipe, OpenReturn
<1> QED BY <1>1, <1>2, <1>3, <1>4

LEMMA MessageStep == IInv /\ [Next]_vars => SignsTheCallersMessage'
<1> SUFFICES ASSUME TypeOK, ArgsInv, CopyInv, SignsTheCallersMessage, [Next]_vars,
                    pc' \in {"sign_try", "sign_pack"}
             PROVE  mu' = Mu(Tr(arg'.pk), Pre(arg'.ctx), arg'.text)
  BY DEF IInv, SignsTheCallersMessage
<1>1. CASE SignPrepare
  <2>1. /\ pc = "sign_copy" /\ i = arg.len /\ arg' = arg
        /\ mu' = Mu(arg.tr, Pre(arg.ctx), Read(SigBytes, arg.len))
    BY <1>1 DEF SignPrepare
  <2>2. arg.tr = Tr(arg.pk) /\ arg.text \in Seq(ByteCell) /\ arg.len = Len(arg.text)
    BY <2>1, TextAssumption DEF ArgsInv, SignPcs
  <2>3. Read(SigBytes, arg.len) = arg.text
    <3>1. \A k \in 1..arg.len : mem[SigBytes + k - 1] = arg.text[k]
      BY <2>1, <2>2 DEF CopyInv
    <3>2. arg.text = [k \in 1..arg.len |-> arg.text[k]]
      BY <2>2
    <3> QED BY <3>1, <3>2 DEF Read
  <2> QED BY <2>1, <2>2, <2>3
<1>2. CASE SignTry
  BY <1>2 DEF SignTry, SignsTheCallersMessage
<1>3. CASE UNCHANGED vars
  BY <1>3 DEF vars, sigvars, SignsTheCallersMessage
<1>4. [Next]_vars /\ pc' \in {"sign_try", "sign_pack"} =>
         SignPrepare \/ SignTry \/ UNCHANGED vars
  BY DEF Next, Library, Caller, KeyPair, CallSign, SignCopy, SignTooLong, SignPack,
         Damage, Verify, CallOpen, OpenAccept, OpenReject, OpenCopy, OpenWipe, OpenReturn
<1> QED BY <1>1, <1>2, <1>3, <1>4

LEMMA ZeroByte == B(0) \in ByteCell
<1>1. 0 \in Byte
  BY Constants DEF Byte
<1> QED BY <1>1 DEF ByteCell

\* A byte of the message that the copying loop is about to write.
LEMMA CopiedByte ==
    ASSUME TypeOK, ArgsInv, CopyInv, SignCopy
    PROVE  mem[arg.mp + arg.len - 1 - i] \in ByteCell
<1>1. /\ pc = "sign_copy" /\ i < arg.len /\ i \in Nat /\ arg.len \in Nat /\ arg.mp \in Nat
      /\ arg.text \in Seq(ByteCell) /\ arg.len = Len(arg.text)
  BY TextAssumption, Pointers DEF SignCopy, ArgsInv, SignPcs, TypeOK
<1>2. /\ arg.len - i \in 1..arg.len
      /\ arg.mp + (arg.len - i) - 1 = arg.mp + arg.len - 1 - i
  BY <1>1
<1>3. mem[arg.mp + arg.len - 1 - i] = arg.text[arg.len - i]
  BY <1>1, <1>2 DEF CopyInv
<1> QED BY <1>1, <1>2, <1>3

LEMMA MemStep == IInv /\ [Next]_vars => MemInv'
<1> SUFFICES ASSUME TypeOK, ArgsInv, CopyInv, MemInv, [Next]_vars PROVE MemInv'
  BY DEF IInv
<1> USE Constants
<1>1. /\ BytesFrom(mem) /\ DOMAIN mem = Addr
      /\ \A k \in DOMAIN sealed : BytesFrom(sealed[k])
      /\ sealed = <<>> \/ 1 \in DOMAIN sealed
      /\ box # <<>> => smlen <= SmBytes
  BY DEF MemInv, TypeOK
<1>2. CASE CallSign
  <2>1. PICK text \in Text, mp \in MsgPtr :
          /\ mem' = [a \in Addr |-> IF a \in mp .. mp + Len(text) - 1
                                    THEN text[a - mp + 1] ELSE mem[a]]
          /\ box' = <<>> /\ sealed' = sealed
    BY <1>2 DEF CallSign
  <2>2. ASSUME NEW a \in Addr, a >= SigBytes PROVE mem'[a] \in ByteCell
    <3>1. text \in Seq(ByteCell) /\ mp \in Nat /\ a \in Int
      BY TextAssumption DEF Addr
    <3>2. CASE a \in mp .. mp + Len(text) - 1
      <4>1. a - mp + 1 \in 1..Len(text)
        BY <3>1, <3>2
      <4> QED BY <2>1, <3>1, <3>2, <4>1
    <3>3. CASE a \notin mp .. mp + Len(text) - 1
      BY <1>1, <2>1, <2>2, <3>3 DEF BytesFrom
    <3> QED BY <3>2, <3>3
  <2> QED BY <1>1, <2>1, <2>2 DEF MemInv, BytesFrom
<1>3. CASE SignCopy
  <2>1. \A a \in Addr : mem'[a] = mem[a] \/ mem'[a] \in ByteCell
    BY <1>1, <1>3, CopiedByte DEF SignCopy, SignCopyByte
  <2>2. sealed' = sealed /\ box' = box /\ smlen' = smlen
    BY <1>3 DEF SignCopy, ghosts
  <2> QED BY <1>1, <2>1, <2>2 DEF MemInv, BytesFrom
<1>4. CASE SignTooLong
  <2>1. box = <<>>
    BY <1>4 DEF SignTooLong, ArgsInv, SignPcs
  <2>2. mem' = mem /\ sealed' = sealed /\ box' = box
    BY <1>4 DEF SignTooLong
  <2> QED BY <1>1, <2>1, <2>2 DEF MemInv, BytesFrom
<1>5. CASE SignPack
  <2>1. BytesFrom(mem')
    <3>1. \A a \in Addr : a >= SigBytes => a # 0 /\ a # 1 /\ ~(a < SigBytes)
      BY DEF Addr
    <3>2. \A a \in Addr : a >= SigBytes => mem'[a] = mem[a]
      BY <1>5, <3>1 DEF SignPack, Packed
    <3> QED BY <1>1, <3>2 DEF BytesFrom
  <2>2. sealed' = IF sealed = <<>> THEN <<mem'>> ELSE <<mem', sealed[1]>>
    BY <1>5 DEF SignPack
  <2>3. /\ \A k \in DOMAIN sealed' : sealed'[k] = mem' \/ (1 \in DOMAIN sealed /\ sealed'[k] = sealed[1])
        /\ 1 \in DOMAIN sealed'
    BY <1>1, <2>2
  <2>4. smlen' <= SmBytes
    <3>1. smlen' = SigBytes + arg.len /\ arg.len <= MaxLen /\ arg.len \in Nat
      BY <1>5, TextAssumption DEF SignPack, ArgsInv, SignPcs, TypeOK
    <3> QED BY <3>1
  <2> QED BY <1>1, <2>1, <2>3, <2>4 DEF MemInv
<1>6. CASE Damage
  <2> PICK a \in 0 .. smlen-1 : \E v \in Junk(a) \cup {sealed[k][a] : k \in DOMAIN sealed} :
                                     mem' = [mem EXCEPT ![a] = v]
    BY <1>6 DEF Damage
  <2>1. PICK v \in Junk(a) \cup {sealed[k][a] : k \in DOMAIN sealed} :
           mem' = [mem EXCEPT ![a] = v]
    OBVIOUS
  <2>2. box # <<>> /\ sealed' = sealed /\ smlen' = smlen
    BY <1>6 DEF Damage
  <2>3. a \in Addr
    <3>1. smlen \in Nat /\ smlen <= SmBytes /\ SmBytes \in Nat
      BY <1>1, <2>2 DEF TypeOK
    <3> QED BY <3>1 DEF Addr
  <2>4. a >= SigBytes => v \in ByteCell
    BY <1>1, <2>1, <2>3 DEF Junk, BytesFrom
  <2> QED BY <1>1, <2>1, <2>2, <2>3, <2>4 DEF MemInv, BytesFrom
<1>7. CASE OpenCopy
  <2>1. SigBytes + i \in Addr
    BY <1>1, <1>7 DEF OpenCopy, ArgsInv, OpenPcs, TypeOK, Addr
  <2>2. mem[SigBytes + i] \in ByteCell
    BY <1>1, <1>7, <2>1 DEF BytesFrom, TypeOK
  <2>3. \A a \in Addr : mem'[a] = mem[a] \/ mem'[a] \in ByteCell
    BY <1>1, <1>7, <2>2 DEF OpenCopy, OpenCopyByte
  <2>4. sealed' = sealed /\ box' = box /\ smlen' = smlen
    BY <1>7 DEF OpenCopy, ghosts
  <2> QED BY <1>1, <2>3, <2>4 DEF MemInv, BytesFrom
<1>8. CASE OpenWipe
  <2>1. \A a \in Addr : mem'[a] = mem[a] \/ mem'[a] \in ByteCell
    BY <1>1, <1>8, ZeroByte DEF OpenWipe
  <2>2. sealed' = sealed /\ box' = box /\ smlen' = smlen
    BY <1>8 DEF OpenWipe, ghosts
  <2> QED BY <1>1, <2>1, <2>2 DEF MemInv, BytesFrom
<1>9. CASE mem' = mem /\ sealed' = sealed /\ smlen' = smlen /\ box' \in {box, <<>>}
  BY <1>1, <1>9 DEF MemInv, BytesFrom
<1>10. [Next]_vars => \/ CallSign \/ SignCopy \/ SignTooLong \/ SignPack \/ Damage
                      \/ OpenCopy \/ OpenWipe
                      \/ mem' = mem /\ sealed' = sealed /\ smlen' = smlen /\ box' \in {box, <<>>}
  BY DEF Next, Library, Caller, KeyPair, SignPrepare, SignTry, Verify, CallOpen,
         OpenAccept, OpenReject, OpenReturn, vars, ghosts
<1> QED BY <1>2, <1>3, <1>4, <1>5, <1>6, <1>7, <1>8, <1>9, <1>10

LEMMA SoundGrows ==
    ASSUME NEW S, NEW T, S \subseteq T, NEW v, Sound(S, v)
    PROVE  Sound(T, v)
BY DEF Sound

LEMMA SoundBytes == \A S : \A v \in ByteCell \cup {<<"hash", "junk">>} : Sound(S, v)
BY DEF Sound

LEMMA SealStep == IInv /\ [Next]_vars => SealInv'
<1> SUFFICES ASSUME TypeOK, ArgsInv, CopyInv, SignsTheCallersMessage, MemInv, SealInv,
                    [Next]_vars
             PROVE SealInv'
  BY DEF IInv
<1> USE Constants
<1>1. /\ Sound(signed, mem[0]) /\ DOMAIN mem = Addr /\ 0 \in Addr
      /\ \A k \in DOMAIN sealed : Sound(signed, sealed[k][0])
      /\ signed \subseteq Signable
      /\ sealed = <<>> \/ 1 \in DOMAIN sealed
  BY DEF SealInv, TypeOK, MemInv, Addr
<1>2. CASE CallSign
  <2>1. PICK text \in Text, mp \in MsgPtr :
          /\ mem' = [a \in Addr |-> IF a \in mp .. mp + Len(text) - 1
                                    THEN text[a - mp + 1] ELSE mem[a]]
          /\ signed' = signed /\ sealed' = sealed
    BY <1>2 DEF CallSign
  <2>2. CASE 0 \in mp .. mp + Len(text) - 1
    <3>1. text \in Seq(ByteCell) /\ mp \in Nat
      BY TextAssumption
    <3>2. 0 - mp + 1 \in 1..Len(text)
      BY <2>2, <3>1
    <3>3. mem'[0] \in ByteCell
      BY <1>1, <2>1, <2>2, <3>1, <3>2
    <3> QED BY <1>1, <2>1, <3>3, SoundBytes DEF SealInv
  <2>3. CASE 0 \notin mp .. mp + Len(text) - 1
    BY <1>1, <2>1, <2>3 DEF SealInv
  <2> QED BY <2>2, <2>3
<1>3. CASE SignCopy
  <2>1. mem'[0] = mem[0] \/ mem'[0] \in ByteCell
    BY <1>1, <1>3, CopiedByte DEF SignCopy, SignCopyByte
  <2>2. sealed' = sealed /\ signed' = signed
    BY <1>3 DEF SignCopy, ghosts
  <2> QED BY <1>1, <2>1, <2>2, SoundBytes DEF SealInv
<1>4. CASE SignPack
  <2> DEFINE cl == <<arg.pk, arg.ctx, arg.text>>
  <2>1. /\ pc = "sign_pack" /\ mem' = Packed /\ signed' = signed \cup {cl}
        /\ sealed' = IF sealed = <<>> THEN <<mem'>> ELSE <<mem', sealed[1]>>
    BY <1>4 DEF SignPack
  <2>2. cl \in Signable /\ mu = Mu(Tr(cl[1]), Pre(cl[2]), cl[3])
    BY <2>1 DEF ArgsInv, SignPcs, SignsTheCallersMessage, Signable
  <2>3. Sound(signed', mem'[0])
    <3>1. mem'[0] = Challenge(mu, z)
      BY <1>1, <2>1 DEF Packed
    <3>2. Challenge(mu, z)[3] = z
      BY DEF Challenge
    <3> QED BY <2>1, <2>2, <3>1, <3>2 DEF Sound
  <2>4. 1 \in DOMAIN sealed => Sound(signed', sealed[1][0])
    BY <1>1, <2>1, SoundGrows
  <2>5. \A k \in DOMAIN sealed' : sealed'[k] = mem' \/ (1 \in DOMAIN sealed /\ sealed'[k] = sealed[1])
    BY <1>1, <2>1
  <2>6. \A k \in DOMAIN sealed' : Sound(signed', sealed'[k][0])
    BY <2>3, <2>4, <2>5
  <2> QED BY <1>1, <2>1, <2>2, <2>3, <2>6 DEF SealInv
<1>5. CASE Damage
  <2> PICK a \in 0 .. smlen-1 : \E v \in Junk(a) \cup {sealed[k][a] : k \in DOMAIN sealed} :
                                     mem' = [mem EXCEPT ![a] = v]
    BY <1>5 DEF Damage
  <2>1. PICK v \in Junk(a) \cup {sealed[k][a] : k \in DOMAIN sealed} :
           mem' = [mem EXCEPT ![a] = v]
    OBVIOUS
  <2>2. sealed' = sealed /\ signed' = signed
    BY <1>5 DEF Damage
  <2>3. CASE a = 0
    <3>1. v = <<"hash", "junk">> \/ \E k \in DOMAIN sealed : v = sealed[k][0]
      BY <2>1, <2>3 DEF Junk
    <3>2. Sound(signed, v)
      BY <1>1, <3>1, SoundBytes
    <3>3. mem'[0] = v
      BY <1>1, <2>1, <2>3
    <3> QED BY <1>1, <2>2, <3>2, <3>3 DEF SealInv
  <2>4. CASE a # 0
    <3>1. mem'[0] = mem[0]
      BY <1>1, <2>1, <2>4
    <3> QED BY <1>1, <2>2, <3>1 DEF SealInv
  <2> QED BY <2>3, <2>4
<1>6. CASE OpenCopy
  <2>1. SigBytes + i \in Addr
    BY <1>6 DEF OpenCopy, ArgsInv, OpenPcs, MemInv, TypeOK, Addr
  <2>2. mem[SigBytes + i] \in ByteCell
    BY <1>6, <2>1 DEF BytesFrom, MemInv, TypeOK
  <2>3. mem'[0] = mem[0] \/ mem'[0] \in ByteCell
    BY <1>1, <1>6, <2>2 DEF OpenCopy, OpenCopyByte
  <2>4. sealed' = sealed /\ signed' = signed
    BY <1>6 DEF OpenCopy, ghosts
  <2> QED BY <1>1, <2>3, <2>4, SoundBytes DEF SealInv
<1>7. CASE OpenWipe
  <2>1. mem'[0] = mem[0] \/ mem'[0] \in ByteCell
    BY <1>1, <1>7, ZeroByte DEF OpenWipe
  <2>2. sealed' = sealed /\ signed' = signed
    BY <1>7 DEF OpenWipe, ghosts
  <2> QED BY <1>1, <2>1, <2>2, SoundBytes DEF SealInv
<1>8. CASE mem' = mem /\ sealed' = sealed /\ signed' = signed
  BY <1>1, <1>8 DEF SealInv
<1>9. [Next]_vars => \/ CallSign \/ SignCopy \/ SignPack \/ Damage \/ OpenCopy \/ OpenWipe
                     \/ mem' = mem /\ sealed' = sealed /\ signed' = signed
  BY DEF Next, Library, Caller, KeyPair, SignTooLong, SignPrepare, SignTry, Verify, CallOpen,
         OpenAccept, OpenReject, OpenReturn, vars, ghosts
<1> QED BY <1>2, <1>3, <1>4, <1>5, <1>6, <1>7, <1>8, <1>9

\* A message whose challenge matches was signed with that key and context.
LEMMA MatchIsSigned ==
    ASSUME TypeOK, MemInv, SealInv, NEW pk, NEW ctx \in Context, NEW len \in Nat,
           SigBytes + len <= SmBytes, ~TooLong(ctx),
           mem[0] = Challenge(Mu(Tr(pk), Pre(ctx), Read(SigBytes, len)), mem[1])
    PROVE  /\ <<pk, ctx, Read(SigBytes, len)>> \in signed
           /\ Read(SigBytes, len) \in Seq(ByteCell)
<1> USE Constants
<1> DEFINE text == Read(SigBytes, len)
<1>1. /\ ctx \in Seq(ByteCell) /\ Sound(signed, mem[0]) /\ signed \subseteq Signable
      /\ BytesFrom(mem)
  BY TextAssumption DEF MemInv, SealInv
<1>2. text \in Seq(ByteCell)
  <2>1. ASSUME NEW k \in 1..len PROVE mem[SigBytes + k - 1] \in ByteCell
    <3>1. SigBytes + k - 1 \in Addr /\ SigBytes + k - 1 >= SigBytes
      BY DEF Addr
    <3> QED BY <1>1, <3>1 DEF BytesFrom
  <2>2. text \in [1..len -> ByteCell]
    BY <2>1 DEF Read
  <2> QED BY <2>2
<1>3. PICK cl \in signed : mem[0] = Challenge(Mu(Tr(cl[1]), Pre(cl[2]), cl[3]), mem[0][3])
  BY <1>1, Cells DEF Sound
<1>4. cl \in Signable
  BY <1>1
<1>5. cl[2] \in Seq(ByteCell) /\ ~TooLong(cl[2]) /\ cl[3] \in Seq(ByteCell)
      /\ cl = <<cl[1], cl[2], cl[3]>>
  BY <1>4, TextAssumption DEF Signable
<1>6. Mu(Tr(pk), Pre(ctx), text) = Mu(Tr(cl[1]), Pre(cl[2]), cl[3])
  BY <1>3, Cells
<1>7. pk = cl[1] /\ Pre(ctx) \o text = Pre(cl[2]) \o cl[3]
  BY <1>6 DEF Mu, Tr
<1>8. ctx = cl[2] /\ text = cl[3]
  <2> DEFINE d == cl[2]
             u == cl[3]
  <2>1. /\ d \in Seq(ByteCell) /\ text \in Seq(ByteCell)
        /\ u \in Seq(ByteCell) /\ ~TooLong(d)
        /\ Pre(ctx) \o text = Pre(d) \o u
    BY <1>2, <1>5, <1>7
  <2> HIDE DEF d, u, text
  <2>2. ctx = d /\ text = u
    BY <1>1, <2>1, PreInjective
  <2> QED BY <2>2 DEF d, u
<1> QED BY <1>2, <1>3, <1>5, <1>7, <1>8

\* What crypto_sign_open was given lies within sm.
LEMMA OpenArgs ==
    ASSUME TypeOK, ArgsInv, MemInv, pc = "open"
    PROVE  arg.len \in Nat /\ arg.len <= SmBytes /\ arg.ctx \in Context
<1>1. arg.ctx \in Context /\ arg.len <= smlen /\ box # <<>>
  BY DEF ArgsInv, OpenPcs
<1>2. arg.len \in Nat /\ smlen \in Nat
  BY DEF TypeOK
<1>3. smlen <= SmBytes
  BY <1>1 DEF MemInv
<1> QED BY <1>1, <1>2, <1>3, Constants

LEMMA AcceptStep == IInv /\ AcceptedIsSigned /\ [Next]_vars => AcceptedIsSigned'
<1> SUFFICES ASSUME TypeOK, ArgsInv, MemInv, SealInv, AcceptedIsSigned, [Next]_vars,
                    pc' = "open_copy", i' = 0
             PROVE  <<arg'.pk, arg'.ctx, Read(SigBytes, mlen)'>> \in signed'
  BY DEF IInv, AcceptedIsSigned
<1> USE Constants
<1>1. CASE OpenAccept
  <2> DEFINE len == arg.len - SigBytes
  <2>1. /\ pc = "open" /\ arg.len >= SigBytes /\ ~TooLong(arg.ctx)
        /\ mem[0] = Challenge(Mu(Tr(arg.pk), Pre(arg.ctx), Read(SigBytes, len)), mem[1])
        /\ mlen' = len /\ arg' = arg /\ mem' = mem /\ signed' = signed
    BY <1>1 DEF OpenAccept, Opens, Verifies, ghosts
  <2>2. arg.len \in Nat /\ arg.len <= SmBytes /\ arg.ctx \in Context
    BY <2>1, OpenArgs
  <2>3. len \in Nat /\ SigBytes + len <= SmBytes
    BY <2>1, <2>2
  <2>4. <<arg.pk, arg.ctx, Read(SigBytes, len)>> \in signed
    <3> HIDE DEF len
    <3> QED BY <2>1, <2>2, <2>3, MatchIsSigned
  <2>5. Read(SigBytes, mlen)' = Read(SigBytes, len)
    BY <2>1 DEF Read
  <2> QED BY <2>1, <2>4, <2>5
<1>2. CASE OpenCopy
  BY <1>2 DEF OpenCopy, TypeOK
<1>3. CASE UNCHANGED vars
  BY <1>3 DEF AcceptedIsSigned, vars, ghosts, Read
<1>4. [Next]_vars /\ pc' = "open_copy" => OpenAccept \/ OpenCopy \/ UNCHANGED vars
  BY DEF Next, Library, Caller, KeyPair, CallSign, SignCopy, SignTooLong, SignPrepare,
         SignTry, SignPack, Damage, Verify, CallOpen, OpenReject, OpenWipe, OpenReturn
<1> QED BY <1>1, <1>2, <1>3, <1>4

LEMMA InvariantStart == Init => IInv /\ AcceptedIsSigned
<1> SUFFICES ASSUME Init PROVE IInv /\ AcceptedIsSigned
  OBVIOUS
<1>1. mem = [a \in Addr |-> B(0)] /\ sealed = <<>> /\ box = <<>> /\ signed = {} /\ pc = "idle"
  BY DEF Init
<1>2. TypeOK
  BY TypeStart
<1>3. ArgsInv /\ CopyInv /\ SignsTheCallersMessage /\ AcceptedIsSigned
  BY <1>1 DEF ArgsInv, CopyInv, SignsTheCallersMessage, AcceptedIsSigned, SignPcs, OpenPcs
<1>4. MemInv
  BY <1>1, ZeroByte DEF MemInv, BytesFrom
<1>5. SealInv
  <2>1. 0 \in Addr
    BY Constants DEF Addr
  <2> QED BY <1>1, <2>1, ZeroByte, SoundBytes DEF SealInv
<1> QED BY <1>2, <1>3, <1>4, <1>5 DEF IInv

LEMMA InvariantStep == IInv /\ [Next]_vars => IInv'
BY TypeStep, ArgsStep, CopyStep, MessageStep, MemStep, SealStep DEF IInv

\* In every state of every run: the arguments of the call in progress are those
\* the caller gave, the bytes not yet moved are still where m was, and every
\* challenge in memory or in a sealed message is that of a signed claim.
THEOREM InvariantHolds == Spec => []IInv
<1>1. Init => IInv
  BY InvariantStart
<1> QED BY <1>1, InvariantStep, PTL DEF Spec

\* For every place of m that the copy downwards bears (at or before
\* sm + CRYPTO_BYTES, or not over the message part of sm), mu is computed from
\* the message the caller passed to crypto_sign (sign.c:225-227).
THEOREM MessageIsSigned == Spec => []SignsTheCallersMessage
<1>1. IInv => SignsTheCallersMessage
  BY DEF IInv
<1> QED BY <1>1, InvariantStart, InvariantStep, PTL DEF Spec

\* crypto_sign_open accepts a message only for the key and the context with
\* which crypto_sign was given that message, through any damage and splicing of
\* the signed message and any overlap of the buffers.
THEOREM OpenedWasSigned == Spec => []AcceptedIsSigned
BY InvariantStart, InvariantStep, AcceptStep, PTL DEF Spec

\* No other place of m would do: where m does not fit, the first turn of the
\* copy downwards overwrites a byte of m that a later turn reads, and the first
\* turn of the copy upwards a byte of sm that a later turn reads
\* (sign.c:225-226, sign.c:325-326).
LEMMA FirstTurnSpoils ==
    ASSUME NEW mp \in Nat, NEW len \in Nat \ {0}, ~Fits(mp, len)
    PROVE  /\ \E k \in 1..len-1 : SigBytes + len - 1 = mp + len - 1 - k
           /\ \E k \in 1..len-1 : mp = SigBytes + k
<1>1. SigBytes < mp /\ mp < SigBytes + len
  BY Constants DEF Fits
<1>2. mp - SigBytes \in 1..len-1
  BY <1>1, Constants
<1>3. SigBytes + len - 1 = mp + len - 1 - (mp - SigBytes) /\ mp = SigBytes + (mp - SigBytes)
  BY Constants
<1> QED BY <1>2, <1>3

(***************************************************************************)
(* The API implements the service.                                         *)
(***************************************************************************)

\* The hint area of a signature: no hint at all, which unpack_sig accepts.
LEMMA NoHintsAreZero ==
    /\ NoHints = [p \in HintArea |-> 0]
    /\ HintsOk(NoHints)
<1> DEFINE none == [k \in 0..K-1 |-> {}]
<1>1. Entries(none) = {}
  BY DEF Entries
<1>2. Cardinality(Entries(none)) = 0 /\ \A q : Rank(Entries(none), q) = 0
  BY <1>1, FS_EmptySet DEF Rank
<1> HIDE DEF none
<1>3. \A p \in HintArea : ~(p < 0) /\ p \in Nat
  BY Constants DEF HintArea
<1>4. PackHints(none) = [p \in HintArea |-> 0]
  BY <1>2, <1>3 DEF PackHints
<1>5. NoHints = [p \in HintArea |-> 0]
  BY <1>4 DEF NoHints, none
<1>6. /\ \A k \in 0..K-1 : From(NoHints, k) = 0 /\ To(NoHints, k) = 0
      /\ \A p \in 0..OMEGA-1 : NoHints[p] = 0
  <2>1. \A k \in 0..K-1 : OMEGA + k \in HintArea /\ (k # 0 => OMEGA + k - 1 \in HintArea)
    BY Constants DEF HintArea
  <2>2. \A p \in 0..OMEGA-1 : p \in HintArea
    BY Constants DEF HintArea
  <2> QED BY <1>5, <2>1, <2>2 DEF From, To
<1>7. HintsOk(NoHints)
  <2>1. K-1 \in 0..K-1 /\ OMEGA \in Nat
    BY Constants
  <2> QED BY <1>6, <2>1 DEF HintsOk
<1> QED BY <1>5, <1>7

LEMMA ReadHolds ==
    ASSUME NEW t \in Seq(ByteCell), NEW a \in Nat, Holds(a, t)
    PROVE  Read(a, Len(t)) = t
<1>1. t = [k \in 1..Len(t) |-> t[k]]
  OBVIOUS
<1>2. \A k \in 1..Len(t) : mem[a + k - 1] = t[k]
  BY DEF Holds
<1> QED BY <1>1, <1>2 DEF Read

LEMMA Claims ==
    ASSUME NEW cl \in Signable
    PROVE  /\ cl = <<cl[1], cl[2], cl[3]>> /\ cl[1] \in PublicKey
           /\ cl[2] \in Context /\ ~TooLong(cl[2])
           /\ cl[3] \in Text /\ cl[3] \in Seq(ByteCell)
           /\ Len(cl[3]) \in Nat /\ Len(cl[3]) <= MaxLen
<1>1. /\ cl = <<cl[1], cl[2], cl[3]>> /\ cl[1] \in PublicKey
      /\ cl[2] \in Context /\ ~TooLong(cl[2]) /\ cl[3] \in Text
  BY DEF Signable
<1> QED BY <1>1, TextAssumption, LenProperties

\* A whole signed message verifies under its key and context.
LEMMA WholeVerifies ==
    ASSUME TypeOK, NEW cl \in Signable, Whole(cl)
    PROVE  Verifies(SigBytes, Len(cl[3]), cl[2], cl[1])
<1>1. ~TooLong(cl[2]) /\ cl[3] \in Seq(ByteCell)
  BY Claims
<1>2. Read(SigBytes, Len(cl[3])) = cl[3]
  BY <1>1, ReadHolds, Constants DEF Whole
<1>3. HintBytes = NoHints
  <2>1. \A p \in HintArea : 2 + p \in 2..SigBytes-1 /\ (2 + p) - 2 = p
    BY Constants DEF HintArea, SigBytes
  <2>2. \A p \in HintArea : mem[2 + p] = B(NoHints[p])
    BY <2>1 DEF Whole
  <2>3. \A p \in HintArea : mem[2 + p][2] = NoHints[p]
    BY <2>2 DEF B
  <2> QED BY <2>3, NoHintsAreZero DEF HintBytes
<1> QED BY <1>1, <1>2, <1>3, NoHintsAreZero DEF Verifies, Whole

\* A step that leaves sm alone keeps the signed message whole.
LEMMA WholeKept ==
    ASSUME NEW cl \in Signable, Whole(cl), large' = large,
           \A a \in 0 .. SigBytes + Len(cl[3]) - 1 : mem'[a] = mem[a]
    PROVE  Whole(cl)'
<1>1. cl[3] \in Seq(ByteCell) /\ Len(cl[3]) \in Nat /\ Len(cl[3]) <= MaxLen
  BY Claims
<1>2. /\ 0 \in 0 .. SigBytes + Len(cl[3]) - 1 /\ 1 \in 0 .. SigBytes + Len(cl[3]) - 1
      /\ 2..SigBytes-1 \subseteq 0 .. SigBytes + Len(cl[3]) - 1
  BY <1>1, Constants
<1>3. mem'[0] = mem[0] /\ mem'[1] = mem[1] /\ \A a \in 2..SigBytes-1 : mem'[a] = mem[a]
  BY <1>2
<1>4. \A k \in 1..Len(cl[3]) : mem'[SigBytes + k - 1] = mem[SigBytes + k - 1]
  <2>1. \A k \in 1..Len(cl[3]) : SigBytes + k - 1 \in 0 .. SigBytes + Len(cl[3]) - 1
    BY <1>1, Constants
  <2> QED BY <2>1
<1>5. Holds(SigBytes, cl[3])'
  BY <1>4 DEF Whole, Holds
<1>6. ~TooLarge(mem[1])'
  BY <1>3 DEF Whole, TooLarge
<1> QED BY <1>3, <1>5, <1>6 DEF Whole

LEMMA KeyStep == IInv /\ ServiceInv /\ [Next]_vars => KeyInv'
<1> SUFFICES ASSUME TypeOK, KeyInv, [Next]_vars PROVE KeyInv'
  BY DEF IInv, ServiceInv
<1>1. CASE CallSign
  BY <1>1 DEF CallSign, KeyInv, SignPcs, OpenPcs
<1>2. CASE CallOpen
  <2>1. PICK key \in keys, ctx \in Context, mp \in MsgPtr, len \in 0..smlen :
           /\ arg' = [pk |-> key.pk, tr |-> <<>>, ctx |-> ctx, text |-> <<>>, mp |-> mp, len |-> len]
           /\ Fits(mp, len - SigBytes)
    BY <1>2 DEF CallOpen
  <2>2. key.pk \in PublicKey
    BY <2>1 DEF TypeOK
  <2>3. /\ arg'.pk \in PublicKey /\ arg'.mp \in MsgPtr /\ i' = 0 /\ pc' = "open"
        /\ Fits(arg'.mp, arg'.len - SigBytes)
    BY <1>2, <2>1, <2>2 DEF CallOpen
  <2> QED BY <2>3 DEF KeyInv, SignPcs, OpenPcs
<1>3. CASE /\ arg' = arg /\ keys \subseteq keys'
           /\ pc' \in SignPcs => pc \in SignPcs
           /\ pc' \in OpenPcs => pc \in OpenPcs
           /\ pc' = "open" => pc = "open" /\ i' = i
  BY <1>3 DEF KeyInv
<1>4. CASE pc' \notin SignPcs \cup OpenPcs
  BY <1>4 DEF KeyInv, OpenPcs
<1>5. CASE KeyPair \/ SignCopy \/ SignPrepare \/ SignTry
  BY <1>3, <1>5 DEF KeyPair, SignCopy, SignPrepare, SignTry, SignPcs, OpenPcs
<1>6. CASE OpenAccept \/ OpenReject \/ OpenCopy \/ OpenWipe \/ UNCHANGED vars
  BY <1>3, <1>6 DEF OpenAccept, OpenReject, OpenCopy, OpenWipe, SignPcs, OpenPcs, vars
<1>7. CASE SignTooLong \/ SignPack \/ Damage \/ Verify \/ OpenReturn
  BY <1>4, <1>7 DEF SignTooLong, SignPack, Damage, Verify, OpenReturn, SignPcs, OpenPcs
<1> QED BY <1>1, <1>2, <1>5, <1>6, <1>7 DEF Next, Library, Caller

LEMMA SigningStep == IInv /\ ServiceInv /\ [Next]_vars => SigningInv'
<1> SUFFICES ASSUME ArgsInv, CopyInv, SigningInv, [Next]_vars PROVE SigningInv'
  BY DEF IInv, ServiceInv
<1>1. CASE SignPrepare
  <2>1. pc = "sign_copy" /\ i = arg.len /\ arg' = arg /\ mem' = mem /\ pc' = "sign_try"
    BY <1>1 DEF SignPrepare
  <2>2. arg.text \in Seq(ByteCell) /\ arg.len = Len(arg.text)
    BY <2>1, TextAssumption DEF ArgsInv, SignPcs
  <2>3. \A k \in 1..arg.len : mem[SigBytes + k - 1] = arg.text[k]
    BY <2>1, <2>2 DEF CopyInv
  <2> QED BY <2>1, <2>2, <2>3 DEF SigningInv, Holds
<1>2. CASE SignTry
  <2>1. pc = "sign_try" /\ arg' = arg /\ mem' = mem /\ large' = large
    BY <1>2 DEF SignTry
  <2>2. pc' = IF TooLarge(z') THEN "sign_try" ELSE "sign_pack"
    BY <1>2 DEF SignTry
  <2>3. pc' = "sign_pack" => ~TooLarge(z)'
    BY <2>1, <2>2 DEF TooLarge
  <2> QED BY <2>1, <2>3 DEF SigningInv, Holds
<1>3. CASE UNCHANGED vars
  BY <1>3 DEF vars, sigvars, SigningInv, Holds, TooLarge
<1>4. [Next]_vars /\ pc' \in {"sign_try", "sign_pack"} =>
         SignPrepare \/ SignTry \/ UNCHANGED vars
  BY DEF Next, Library, Caller, KeyPair, CallSign, SignCopy, SignTooLong, SignPack,
         Damage, Verify, CallOpen, OpenAccept, OpenReject, OpenCopy, OpenWipe, OpenReturn
<1> QED BY <1>1, <1>2, <1>3, <1>4 DEF SigningInv

LEMMA BoxStep == IInv /\ ServiceInv /\ [Next]_vars => BoxInv'
<1> SUFFICES ASSUME TypeOK, ArgsInv, MemInv, SealInv, SignsTheCallersMessage,
                    KeyInv, SigningInv, BoxInv, [Next]_vars
             PROVE  BoxInv'
  BY DEF IInv, ServiceInv
<1> USE Constants
<1> DEFINE Releasing == pc \in {"open_copy", "open_wipe"}
<1>1. CASE SignPack
  <2>0. PICK c : c = <<arg.pk, arg.ctx, arg.text>>
    OBVIOUS
  <2>1. /\ pc = "sign_pack" /\ mem' = Packed /\ smlen' = SigBytes + arg.len
        /\ signed' = signed \cup {c} /\ box' = Service!Boxed(c, TRUE) /\ large' = large
    BY <1>1, <2>0 DEF SignPack
  <2>2. /\ c[1] = arg.pk /\ c[2] = arg.ctx /\ c[3] = arg.text
        /\ arg.text \in Seq(ByteCell) /\ arg.len = Len(arg.text) /\ arg.len \in Nat /\ arg.len <= MaxLen
        /\ mu = Mu(Tr(arg.pk), Pre(arg.ctx), arg.text)
    BY <2>0, <2>1, TextAssumption, LenProperties DEF ArgsInv, SignPcs, SignsTheCallersMessage
  <2>3. mem'[0] = Challenge(mu, z) /\ mem'[1] = z
    BY <2>1 DEF Packed, Addr
  <2>4. \A a \in 2..SigBytes-1 : mem'[a] = B(NoHints[a-2])
    <3>1. \A a \in 2..SigBytes-1 : a \in Addr /\ a # 0 /\ a # 1 /\ a < SigBytes
      BY DEF Addr
    <3> QED BY <2>1, <3>1 DEF Packed
  <2>5. Holds(SigBytes, arg.text)'
    <3>1. \A k \in 1..arg.len : /\ SigBytes + k - 1 \in Addr
                                /\ SigBytes + k - 1 # 0 /\ SigBytes + k - 1 # 1
                                /\ ~(SigBytes + k - 1 < SigBytes)
      BY <2>2 DEF Addr
    <3>2. \A k \in 1..arg.len : mem'[SigBytes + k - 1] = mem[SigBytes + k - 1]
      BY <2>1, <3>1 DEF Packed
    <3>3. arg' = arg
      BY <1>1 DEF SignPack
    <3> QED BY <2>1, <2>2, <3>2, <3>3 DEF SigningInv, Holds
  <2>6. ~TooLarge(mem[1])'
    BY <2>1, <2>3 DEF SigningInv, TooLarge
  <2>7. Whole(c)'
    <3>1. arg' = arg
      BY <1>1 DEF SignPack
    <3>2. mem'[0] = Challenge(Mu(Tr(c[1]), Pre(c[2]), c[3]), mem'[1])
      BY <2>2, <2>3
    <3>3. Holds(SigBytes, c[3])'
      BY <2>2, <2>5, <3>1 DEF Holds
    <3> QED BY <2>4, <2>6, <3>2, <3>3 DEF Whole
  <2>8. c \in signed' /\ smlen' = SigBytes + Len(c[3])
    BY <2>1, <2>2
  <2>9. c \in signed' /\ TRUE \in BOOLEAN /\ box' = Service!Boxed(c, TRUE)
    BY <2>1, <2>8
  <2> QED BY <2>7, <2>8, <2>9 DEF BoxInv
<1>2. CASE box' = <<>>
  BY <1>2 DEF BoxInv
<1>4. ASSUME box # <<>>, box' = box, signed' = signed, smlen' = smlen, large' = large,
             (Releasing' => arg'.mp >= smlen') => (Releasing => arg.mp >= smlen),
             (Releasing => arg.mp >= smlen) => \A a \in 0..smlen-1 : mem'[a] = mem[a]
      PROVE  BoxInv'
  <2>1. PICK cl \in signed, intact \in BOOLEAN :
          /\ box = Service!Boxed(cl, intact)
          /\ smlen = SigBytes + Len(cl[3])
          /\ intact /\ (Releasing => arg.mp >= smlen) => Whole(cl)
    BY <1>4 DEF BoxInv
  <2>2. cl \in Signable
    BY DEF SealInv
  <2>3. intact /\ (Releasing' => arg'.mp >= smlen') => Whole(cl)'
    BY <1>4, <2>1, <2>2, WholeKept
  <2> QED BY <1>4, <2>1, <2>3 DEF BoxInv
<1>5. CASE Damage
  <2>1. PICK cl \in signed, intact \in BOOLEAN :
          box = Service!Boxed(cl, intact) /\ smlen = SigBytes + Len(cl[3])
    BY <1>5 DEF Damage, BoxInv
  <2>2. box' = Service!Boxed(box[1].claim, FALSE) /\ signed' = signed /\ smlen' = smlen
    BY <1>5 DEF Damage
  <2>3. box[1].claim = cl
    BY <2>1 DEF Service!Boxed
  <2> QED BY <2>1, <2>2, <2>3 DEF BoxInv
<1>6. CASE KeyPair \/ Verify \/ CallOpen \/ OpenAccept \/ OpenReject
  <2>1. /\ ~Releasing /\ box' = box /\ signed' = signed /\ smlen' = smlen /\ large' = large
        /\ mem' = mem
    BY <1>6 DEF KeyPair, Verify, CallOpen, OpenAccept, OpenReject, ghosts
  <2>2. CASE box = <<>>
    BY <1>2, <2>1, <2>2
  <2>3. CASE box # <<>>
    BY <1>4, <2>1, <2>3
  <2> QED BY <2>2, <2>3
<1>7. CASE OpenCopy \/ OpenWipe
  <2>1. /\ Releasing /\ Releasing' /\ box' = box /\ signed' = signed /\ smlen' = smlen
        /\ large' = large /\ arg' = arg /\ i \in Nat
    BY <1>7 DEF OpenCopy, OpenWipe, ghosts, TypeOK
  <2>2. box # <<>>
    BY <2>1 DEF ArgsInv, OpenPcs
  <2>3. \E v : mem' = [mem EXCEPT ![arg.mp + i] = v]
    BY <1>7 DEF OpenCopy, OpenCopyByte, OpenWipe
  <2>5. smlen \in Nat /\ smlen <= SmBytes /\ arg.mp \in Nat
    BY <2>1, <2>2, Pointers DEF MemInv, TypeOK, KeyInv, OpenPcs
  <2>4. arg.mp >= smlen => \A a \in 0..smlen-1 : mem'[a] = mem[a]
    <3> SUFFICES ASSUME arg.mp >= smlen, NEW a \in 0..smlen-1 PROVE mem'[a] = mem[a]
      OBVIOUS
    <3>1. a # arg.mp + i
      BY <2>1, <2>5
    <3>2. a \in Addr /\ DOMAIN mem = Addr
      BY <2>5 DEF TypeOK, Addr
    <3> QED BY <2>3, <3>1, <3>2
  <2> QED BY <1>4, <2>1, <2>2, <2>4
<1>8. CASE OpenReturn
  <2>1. /\ ~Releasing' /\ signed' = signed /\ smlen' = smlen /\ large' = large /\ mem' = mem
        /\ box' = IF arg.mp >= smlen THEN box ELSE <<>>
    BY <1>8 DEF OpenReturn
  <2>2. CASE arg.mp >= smlen /\ box # <<>>
    BY <1>4, <2>1, <2>2
  <2>3. CASE ~(arg.mp >= smlen /\ box # <<>>)
    BY <1>2, <2>1, <2>3
  <2> QED BY <2>2, <2>3
<1>9. CASE UNCHANGED vars
  <2>1. /\ Releasing' = Releasing /\ arg' = arg /\ box' = box /\ signed' = signed /\ smlen' = smlen
        /\ large' = large /\ mem' = mem
    BY <1>9 DEF vars, ghosts
  <2>2. CASE box = <<>>
    BY <1>2, <2>1, <2>2
  <2>3. CASE box # <<>>
    BY <1>4, <2>1, <2>3
  <2> QED BY <2>2, <2>3
<1>10. CASE CallSign \/ SignCopy \/ SignTooLong \/ SignPrepare \/ SignTry
  <2>1. CASE CallSign
    BY <1>2, <2>1 DEF CallSign
  <2>2. CASE SignCopy \/ SignTooLong \/ SignPrepare \/ SignTry
    <3>1. pc \in SignPcs /\ box' = box
      BY <2>2 DEF SignCopy, SignTooLong, SignPrepare, SignTry, ghosts, SignPcs
    <3> QED BY <1>2, <3>1 DEF ArgsInv
  <2> QED BY <1>10, <2>1, <2>2
<1> QED BY <1>1, <1>5, <1>6, <1>7, <1>8, <1>9, <1>10 DEF Next, Library, Caller

LEMMA ReleaseStep == IInv /\ ServiceInv /\ [Next]_vars => ReleaseInv'
<1> SUFFICES ASSUME TypeOK, ArgsInv, MemInv, SealInv, KeyInv, ReleaseInv, [Next]_vars,
                    pc' = "open_copy"
             PROVE  ReleaseInv'
  BY DEF IInv, ServiceInv, ReleaseInv
<1> USE Constants
<1>1. CASE OpenAccept
  <2> DEFINE len == arg.len - SigBytes
  <2>1. /\ pc = "open" /\ arg.len >= SigBytes /\ ~TooLong(arg.ctx)
        /\ mem[0] = Challenge(Mu(Tr(arg.pk), Pre(arg.ctx), Read(SigBytes, len)), mem[1])
        /\ mlen' = len /\ arg' = arg /\ mem' = mem /\ signed' = signed /\ i' = i
    BY <1>1 DEF OpenAccept, Opens, Verifies, ghosts
  <2>2. arg.len \in Nat /\ arg.len <= SmBytes /\ arg.ctx \in Context
    BY <2>1, OpenArgs
  <2>3. len \in Nat /\ SigBytes + len <= SmBytes
    BY <2>1, <2>2
  <2>0. PICK t : t = Read(SigBytes, len)
    OBVIOUS
  <2> HIDE DEF len
  <2>4. <<arg.pk, arg.ctx, t>> \in signed /\ t \in Seq(ByteCell)
    BY <2>0, <2>1, <2>2, <2>3, MatchIsSigned
  <2>5. t \in Text
    BY <2>4 DEF SealInv, Signable
  <2>6. Len(t) = len /\ \A k \in 1..len : mem[SigBytes + k - 1] = t[k]
    BY <2>0, <2>3 DEF Read
  <2>7. i' = 0
    BY <2>1 DEF KeyInv
  <2>8. \A k \in 1..mlen' : mem'[IF k <= i' THEN arg'.mp + k - 1 ELSE SigBytes + k - 1] = t[k]
    <3>1. \A k \in 1..mlen' : ~(k <= i')
      BY <2>1, <2>3, <2>7
    <3> QED BY <2>1, <2>6, <3>1
  <2>9. <<arg'.pk, arg'.ctx, t>> \in signed' /\ Len(t) = mlen' /\ i' <= mlen'
    BY <2>1, <2>3, <2>4, <2>6, <2>7
  <2> QED BY <2>5, <2>8, <2>9 DEF ReleaseInv
<1>2. CASE OpenCopy
  <2>1. /\ pc = "open_copy" /\ i < mlen /\ mem' = [mem EXCEPT ![arg.mp + i] = mem[SigBytes + i]]
        /\ i' = i + 1 /\ arg' = arg /\ mlen' = mlen /\ signed' = signed
    BY <1>2 DEF OpenCopy, OpenCopyByte, ghosts
  <2>2. PICK t \in Text :
          /\ <<arg.pk, arg.ctx, t>> \in signed
          /\ Len(t) = mlen /\ i <= mlen
          /\ \A k \in 1..mlen :
                mem[IF k <= i THEN arg.mp + k - 1 ELSE SigBytes + k - 1] = t[k]
    BY <2>1 DEF ReleaseInv
  <2>3. /\ i \in Nat /\ mlen \in Nat /\ mlen <= MaxLen /\ arg.mp \in Nat
        /\ (arg.mp <= SigBytes \/ SigBytes + mlen <= arg.mp) /\ arg.mp <= SmBytes
    <3>1. i \in Nat /\ mlen \in Nat /\ mlen <= MaxLen
      BY <2>1, <2>2, TextAssumption DEF TypeOK
    <3>2. arg.mp \in Nat /\ arg.mp <= SmBytes /\ Fits(arg.mp, arg.len - SigBytes)
      BY <2>1, Pointers DEF KeyInv, OpenPcs
    <3>4. SigBytes + mlen = arg.len /\ arg.len \in Nat
      BY <2>1 DEF ArgsInv, TypeOK
    <3>3. arg.len - SigBytes = mlen
      BY <3>1, <3>4
    <3> QED BY <3>1, <3>2, <3>3 DEF Fits
  <2> DEFINE dst == arg.mp + i
  <2>4. dst \in Int /\ dst \in Addr /\ DOMAIN mem = Addr
    <3>1. dst \in Nat /\ dst <= SmBytes + MaxLen - 1
      BY <2>1, <2>3
    <3> HIDE DEF dst
    <3>2. dst <= 2*SmBytes - 1
      BY <3>1
    <3> QED BY <3>1, <3>2 DEF Addr, TypeOK
  <2>5. mem[SigBytes + i] = t[i + 1]
    <3>1. i + 1 \in 1..mlen /\ ~(i + 1 <= i) /\ SigBytes + (i + 1) - 1 = SigBytes + i
      BY <2>1, <2>3
    <3> QED BY <2>2, <3>1
  <2>6. mem'[dst] = t[i + 1] /\ \A a \in Int : a # dst => mem'[a] = mem[a]
    BY <2>1, <2>4, <2>5
  <2>7. ASSUME NEW k \in 1..mlen
        PROVE  mem'[IF k <= i + 1 THEN arg.mp + k - 1 ELSE SigBytes + k - 1] = t[k]
    <3>1. CASE k <= i
      <4>1. arg.mp + k - 1 \in Int /\ arg.mp + k - 1 # dst /\ k <= i + 1
        BY <2>3, <3>1
      <4> QED BY <2>2, <2>6, <3>1, <4>1
    <3>2. CASE k = i + 1
      <4>1. arg.mp + k - 1 = dst /\ k <= i + 1
        BY <2>3, <3>2
      <4> QED BY <2>6, <3>2, <4>1
    <3>3. CASE k > i + 1
      <4>1. /\ ~(k <= i) /\ ~(k <= i + 1)
            /\ SigBytes + k - 1 \in Int /\ SigBytes + k - 1 # dst
        BY <2>3, <3>3
      <4> QED BY <2>2, <2>6, <4>1
    <3> QED BY <2>3, <3>1, <3>2, <3>3
  <2>8. <<arg'.pk, arg'.ctx, t>> \in signed' /\ Len(t) = mlen' /\ i' <= mlen'
    BY <2>1, <2>2, <2>3
  <2>9. \A k \in 1..mlen' : mem'[IF k <= i' THEN arg'.mp + k - 1 ELSE SigBytes + k - 1] = t[k]
    BY <2>1, <2>7
  <2> QED BY <2>8, <2>9 DEF ReleaseInv
<1>3. CASE UNCHANGED vars
  BY <1>3 DEF vars, ghosts, ReleaseInv
<1>4. OpenAccept \/ OpenCopy \/ UNCHANGED vars
  BY DEF Next, Library, Caller, KeyPair, CallSign, SignCopy, SignTooLong, SignPrepare,
         SignTry, SignPack, Damage, Verify, CallOpen, OpenReject, OpenWipe, OpenReturn
<1> QED BY <1>1, <1>2, <1>3, <1>4

\* A refusal has a reason, as a whole signed message verifies; and it wipes.
LEMMA RefusalStep == IInv /\ ServiceInv /\ [Next]_vars => RefusalInv'
<1> SUFFICES ASSUME TypeOK, ArgsInv, MemInv, SealInv, KeyInv, BoxInv, RefusalInv, [Next]_vars,
                    pc' = "open_wipe"
             PROVE  RefusalInv'
  BY DEF IInv, ServiceInv, RefusalInv
<1>1. CASE OpenReject
  <2>1. /\ pc = "open" /\ ~Opens /\ arg' = arg /\ smlen' = smlen /\ box' = box
        /\ mlen' = 0 /\ i' = i
    BY <1>1 DEF OpenReject, ghosts
  <2>6. i' = 0 /\ i' <= arg'.len /\ \A k \in 0..i'-1 : mem'[arg'.mp + k] = B(0)
    BY <2>1 DEF KeyInv, TypeOK
  <2>2. PICK cl \in signed, intact \in BOOLEAN :
          /\ box = Service!Boxed(cl, intact) /\ smlen = SigBytes + Len(cl[3])
          /\ intact => Whole(cl)
    BY <2>1 DEF BoxInv, ArgsInv, OpenPcs
  <2>3. box[1].claim = cl /\ box[1].intact = intact
    BY <2>2 DEF Service!Boxed
  <2>4. cl \in Signable
    BY DEF SealInv
  <2>5. ASSUME arg.len = smlen, intact, <<arg.pk, arg.ctx>> = <<cl[1], cl[2]>>
        PROVE  FALSE
    <3>1. Verifies(SigBytes, Len(cl[3]), arg.ctx, arg.pk)
      BY <2>2, <2>4, <2>5, WholeVerifies
    <3>2. arg.len - SigBytes = Len(cl[3]) /\ arg.len >= SigBytes
      BY <2>2, <2>4, <2>5, Claims, Constants
    <3> QED BY <2>1, <3>1, <3>2 DEF Opens
  <2> QED BY <2>1, <2>3, <2>5, <2>6 DEF RefusalInv
<1>2. CASE OpenWipe
  <2>1. /\ pc = "open_wipe" /\ i < arg.len /\ mem' = [mem EXCEPT ![arg.mp + i] = B(0)]
        /\ i' = i + 1 /\ arg' = arg /\ smlen' = smlen /\ box' = box /\ mlen' = mlen
    BY <1>2 DEF OpenWipe, WipeBytes, ghosts
  <2>2. /\ mlen = 0 /\ i \in Nat /\ arg.mp \in Nat /\ arg.mp <= SmBytes
        /\ arg.len \in Nat /\ arg.len <= SmBytes
    <3>1. mlen = 0 /\ i \in Nat /\ arg.len \in Nat /\ smlen \in Nat
      BY <2>1 DEF RefusalInv, TypeOK
    <3>2. arg.mp \in MsgPtr
      BY <2>1 DEF KeyInv, OpenPcs
    <3>3. arg.len <= smlen /\ smlen <= SmBytes
      BY <2>1 DEF ArgsInv, MemInv, OpenPcs
    <3>4. arg.len <= SmBytes
      BY <3>1, <3>3, Constants
    <3>5. arg.mp \in Nat /\ arg.mp <= SmBytes
      BY <3>2, Pointers
    <3> QED BY <3>1, <3>4, <3>5
  <2>3. arg.mp + i \in Addr /\ DOMAIN mem = Addr
    BY <2>1, <2>2, Constants DEF Addr, TypeOK
  <2>4. ASSUME NEW k \in 0..i PROVE mem'[arg.mp + k] = B(0)
    <3>1. CASE k = i
      BY <2>1, <2>3, <3>1
    <3>2. CASE k \in 0..i-1
      <4>1. mem[arg.mp + k] = B(0)
        BY <2>1, <3>2 DEF RefusalInv
      <4>2. arg.mp + k # arg.mp + i /\ arg.mp + k \in Addr
        BY <2>1, <2>2, <3>2, Constants DEF Addr
      <4> QED BY <2>1, <2>3, <4>1, <4>2
    <3> QED BY <2>2, <3>1, <3>2
  <2>5. i' <= arg'.len /\ 0..i'-1 = 0..i
    BY <2>1, <2>2
  <2>6. \A k \in 0..i'-1 : mem'[arg'.mp + k] = B(0)
    BY <2>1, <2>4, <2>5
  <2> QED BY <2>1, <2>2, <2>5, <2>6 DEF RefusalInv
<1>3. CASE UNCHANGED vars
  BY <1>3 DEF vars, ghosts, RefusalInv
<1>4. OpenReject \/ OpenWipe \/ UNCHANGED vars
  BY DEF Next, Library, Caller, KeyPair, CallSign, SignCopy, SignTooLong, SignPrepare,
         SignTry, SignPack, Damage, Verify, CallOpen, OpenAccept, OpenCopy, OpenReturn
<1> QED BY <1>1, <1>2, <1>3, <1>4

LEMMA ServiceInvStart == Init => ServiceInv
BY DEF Init, ServiceInv, KeyInv, SigningInv, BoxInv, ReleaseInv, RefusalInv, SignPcs, OpenPcs

LEMMA ServiceInvStep == IInv /\ ServiceInv /\ [Next]_vars => ServiceInv'
BY KeyStep, SigningStep, BoxStep, ReleaseStep, RefusalStep DEF ServiceInv

\* Every action of the library and its caller is an action of the service, or
\* leaves what the service speaks of alone.
LEMMA KeyPairRefines == ASSUME TypeOK, KeyPair PROVE Service!KeyPair
<1>1. PICK s \in Seed : keys' = keys \cup {[pk |-> <<"pk", s>>, tr |-> Tr(<<"pk", s>>)]}
  BY DEF KeyPair
<1>2. <<"pk", s>> \in PublicKey
  BY DEF PublicKey
<1>3. PICK n : n = [pk |-> <<"pk", s>>, tr |-> Tr(<<"pk", s>>)]
  OBVIOUS
<1>4. n.pk = <<"pk", s>> /\ keys' = keys \cup {n}
  BY <1>1, <1>3
<1>5. {key.pk : key \in keys \cup {n}} = {key.pk : key \in keys} \cup {n.pk}
  OBVIOUS
<1>6. {key.pk : key \in keys'} = {key.pk : key \in keys} \cup {<<"pk", s>>}
  BY <1>4, <1>5
<1> QED BY <1>2, <1>6 DEF KeyPair, ghosts, Service!KeyPair

LEMMA SignPackRefines ==
    ASSUME IInv, ServiceInv, SignPack
    PROVE  Service!Sign
<1>1. /\ pc = "sign_pack" /\ keys' = keys
      /\ signed' = signed \cup {<<arg.pk, arg.ctx, arg.text>>}
      /\ box' = Service!Boxed(<<arg.pk, arg.ctx, arg.text>>, TRUE)
      /\ outcome' = Service!Accepted("sign", <<arg.pk, arg.ctx, arg.text>>)
  BY DEF SignPack
<1>2. arg.ctx \in Context /\ arg.text \in Text /\ ~TooLong(arg.ctx)
  BY <1>1 DEF IInv, ArgsInv, SignPcs
<1>3. arg.pk \in {key.pk : key \in keys}
  BY <1>1 DEF ServiceInv, KeyInv, SignPcs
<1> QED BY <1>1, <1>2, <1>3 DEF Service!Sign

LEMMA SignTooLongRefines ==
    ASSUME IInv, SignTooLong
    PROVE  Service!SignRefused
<1>1. arg.ctx \in Context /\ TooLong(arg.ctx)
  BY DEF IInv, ArgsInv, SignPcs, SignTooLong
<1> QED BY <1>1 DEF SignTooLong, Service!SignRefused

LEMMA VerifyRefines ==
    ASSUME IInv, ServiceInv, Verify
    PROVE  Service!Accept("verify") \/ Service!Refuse("verify")
<1> USE Constants
<1> DEFINE len == smlen - SigBytes
<1>1. PICK key \in keys, ctx \in Context, siglen \in {SigBytes, SigBytes - 1} :
        outcome' = IF Verifies(siglen, len, ctx, key.pk)
                   THEN Service!Accepted("verify", <<key.pk, ctx, Read(SigBytes, len)>>)
                   ELSE Service!Refused("verify", <<key.pk, ctx>>, siglen = SigBytes, FALSE)
  BY DEF Verify
<1>2. /\ pc = "idle" /\ box # <<>> /\ keys' = keys /\ signed' = signed /\ box' = box
  BY DEF Verify
<1>3. PICK cl \in signed, intact \in BOOLEAN :
        /\ box = Service!Boxed(cl, intact) /\ smlen = SigBytes + Len(cl[3])
        /\ intact => Whole(cl)
  BY <1>2 DEF ServiceInv, BoxInv
<1>4. cl \in Signable /\ key.pk \in PublicKey /\ box[1].claim = cl /\ box[1].intact = intact
  BY <1>3 DEF IInv, SealInv, TypeOK, Service!Boxed
<1>5. len = Len(cl[3]) /\ len \in Nat /\ SigBytes + len <= SmBytes
  BY <1>3, <1>4, Claims
<1>6. CASE Verifies(siglen, len, ctx, key.pk)
  <2>1. /\ ~TooLong(ctx)
        /\ mem[0] = Challenge(Mu(Tr(key.pk), Pre(ctx), Read(SigBytes, len)), mem[1])
    BY <1>6 DEF Verifies
  <2>2. <<key.pk, ctx, Read(SigBytes, len)>> \in signed
    <3> HIDE DEF len
    <3> QED BY <1>5, <2>1, MatchIsSigned DEF IInv
  <2>3. outcome' = Service!Accepted("verify", <<key.pk, ctx, Read(SigBytes, len)>>)
    BY <1>1, <1>6
  <2> QED BY <1>2, <2>2, <2>3 DEF Service!Accept, Service!KeepOrOverwrite
<1>7. CASE ~Verifies(siglen, len, ctx, key.pk)
  <2>1. outcome' = Service!Refused("verify", <<key.pk, ctx>>, siglen = SigBytes, FALSE)
    BY <1>1, <1>7
  <2>2. \/ siglen # SigBytes \/ ~intact \/ <<key.pk, ctx>> # <<cl[1], cl[2]>>
    <3> SUFFICES ASSUME siglen = SigBytes, intact, <<key.pk, ctx>> = <<cl[1], cl[2]>>
                 PROVE  FALSE
      OBVIOUS
    <3>1. key.pk = cl[1] /\ ctx = cl[2] /\ Whole(cl)
      BY <1>3
    <3>2. Verifies(SigBytes, Len(cl[3]), cl[2], cl[1])
      BY <1>4, <3>1, WholeVerifies DEF IInv
    <3> QED BY <1>5, <1>7, <3>1, <3>2
  <2>3. PICK whole \in BOOLEAN : whole = (siglen = SigBytes)
    OBVIOUS
  <2>4. \/ ~whole \/ ~box[1].intact \/ <<key.pk, ctx>> # <<box[1].claim[1], box[1].claim[2]>>
    BY <1>4, <2>2, <2>3
  <2>6. ("verify" = "open") = FALSE
    OBVIOUS
  <2>5. outcome' = Service!Refused("verify", <<key.pk, ctx>>, whole, "verify" = "open")
    BY <2>1, <2>3, <2>6
  <2> QED BY <1>2, <1>4, <2>4, <2>5 DEF Service!Refuse, Service!KeepOrOverwrite
<1> QED BY <1>6, <1>7

LEMMA OpenReturnRefines ==
    ASSUME IInv, ServiceInv, OpenReturn
    PROVE  Service!Accept("open") \/ Service!Refuse("open")
<1>1. keys' = keys /\ signed' = signed /\ box' \in {box, <<>>}
  BY DEF OpenReturn
<1>2. CASE /\ pc = "open_copy" /\ i = mlen
           /\ outcome' = Service!Accepted("open", <<arg.pk, arg.ctx, Read(arg.mp, mlen)>>)
  <2>1. PICK t \in Text :
          /\ <<arg.pk, arg.ctx, t>> \in signed
          /\ Len(t) = mlen
          /\ \A k \in 1..mlen :
                mem[IF k <= i THEN arg.mp + k - 1 ELSE SigBytes + k - 1] = t[k]
    BY <1>2 DEF ServiceInv, ReleaseInv
  <2>2. \A k \in 1..Len(t) : mem[arg.mp + k - 1] = t[k]
    BY <1>2, <2>1 DEF IInv, TypeOK
  <2>3. arg.mp \in Nat
    <3>1. arg.mp \in MsgPtr
      BY <1>2 DEF ServiceInv, KeyInv, OpenPcs
    <3>2. arg.mp \in 0..SmBytes
      BY <3>1, Constants
    <3> QED BY <3>2
  <2>5. t \in Seq(ByteCell)
    BY TextAssumption
  <2>4. Read(arg.mp, mlen) = t
    BY <2>1, <2>2, <2>3, <2>5, ReadHolds DEF Holds
  <2> QED BY <1>1, <1>2, <2>1, <2>4 DEF Service!Accept, Service!KeepOrOverwrite
<1>3. CASE /\ pc = "open_wipe"
           /\ i = arg.len
           /\ outcome' = Service!Refused("open", <<arg.pk, arg.ctx>>, arg.len = smlen, Wiped)
  <2>1. arg.pk \in PublicKey /\ arg.ctx \in Context
    BY <1>3 DEF ServiceInv, KeyInv, IInv, ArgsInv, OpenPcs
  <2>2. PICK whole \in BOOLEAN : whole = (arg.len = smlen)
    OBVIOUS
  <2>3. \/ ~whole \/ ~box[1].intact \/ <<arg.pk, arg.ctx>> # <<box[1].claim[1], box[1].claim[2]>>
    BY <1>3, <2>2 DEF ServiceInv, RefusalInv
  <2>5. Wiped = ("open" = "open")
    BY <1>3 DEF ServiceInv, RefusalInv, Wiped
  <2>4. outcome' = Service!Refused("open", <<arg.pk, arg.ctx>>, whole, "open" = "open")
    BY <1>3, <2>2, <2>5
  <2> QED BY <1>1, <2>1, <2>3, <2>4 DEF Service!Refuse, Service!KeepOrOverwrite
<1> QED BY <1>2, <1>3 DEF OpenReturn, WipeBytes

LEMMA ServiceStart == Init => Service!Init
<1> SUFFICES ASSUME Init PROVE Service!Init
  OBVIOUS
<1>1. {key.pk : key \in keys} = {}
  BY DEF Init
<1> QED BY <1>1 DEF Init, Service!Init

LEMMA ServiceStep == IInv /\ ServiceInv /\ [Next]_vars => [Service!Next]_(Service!vars)
<1> SUFFICES ASSUME IInv, ServiceInv, [Next]_vars PROVE [Service!Next]_(Service!vars)
  OBVIOUS
<1>1. CASE KeyPair
  BY <1>1, KeyPairRefines DEF IInv, Service!Next
<1>2. CASE CallSign
  <2>1. box' = <<>> /\ keys' = keys /\ signed' = signed /\ outcome' = outcome
    BY <1>2 DEF CallSign
  <2> QED BY <2>1 DEF Service!Next, Service!Discard
<1>3. CASE SignTooLong
  BY <1>3, SignTooLongRefines DEF Service!Next
<1>4. CASE SignPack
  BY <1>4, SignPackRefines DEF Service!Next
<1>5. CASE Damage
  <2>1. /\ box # <<>> /\ box' = Service!Boxed(box[1].claim, FALSE)
        /\ keys' = keys /\ signed' = signed /\ outcome' = outcome
    BY <1>5 DEF Damage
  <2> QED BY <2>1 DEF Service!Next, Service!Damage
<1>6. CASE Verify
  BY <1>6, VerifyRefines DEF Service!Next
<1>7. CASE OpenReturn
  BY <1>7, OpenReturnRefines DEF Service!Next
<1>8. CASE \/ SignCopy \/ SignPrepare \/ SignTry \/ CallOpen \/ OpenAccept \/ OpenReject
           \/ OpenCopy \/ OpenWipe \/ UNCHANGED vars
  <2>1. keys' = keys /\ signed' = signed /\ box' = box /\ outcome' = outcome
    BY <1>8 DEF SignCopy, SignPrepare, SignTry, CallOpen, OpenAccept, OpenReject, OpenCopy,
                OpenWipe, vars, ghosts
  <2> QED BY <2>1 DEF Service!vars
<1> QED BY <1>1, <1>2, <1>3, <1>4, <1>5, <1>6, <1>7, <1>8 DEF Next, Library, Caller

\* The library over bytes implements the service, whatever the caller and the
\* transport do: only what was signed is accepted, and a signed message that
\* arrives whole is opened under its key and context (sign.c:219-337).
THEOREM SignImplements == Spec => ImplementsService
<1>1. Init => IInv /\ ServiceInv
  BY InvariantStart, ServiceInvStart
<1>2. IInv /\ ServiceInv /\ [Next]_vars => IInv' /\ ServiceInv'
  BY InvariantStep, ServiceInvStep
<1> QED BY <1>1, <1>2, ServiceStart, ServiceStep, PTL DEF Spec, ImplementsService, Service!Spec

\* Whatever the caller and the transport do, a box that says it is intact holds
\* a whole signed message, a release copies a signed message, and a refusal has
\* a reason (sign.c:219-337).
THEOREM ServiceInvariantHolds == Spec => []ServiceInv
<1>1. Init => IInv /\ ServiceInv
  BY InvariantStart, ServiceInvStart
<1>2. IInv /\ ServiceInv /\ [Next]_vars => IInv' /\ ServiceInv'
  BY InvariantStep, ServiceInvStep
<1> QED BY <1>1, <1>2, PTL DEF Spec
=============================================================================
