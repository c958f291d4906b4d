-------------------------------- MODULE Sign --------------------------------
(***************************************************************************)
(* The signed-message API of ref/sign.c over the caller's memory.          *)
(*                                                                         *)
(* Memory is one array of cells.  The signed message sm starts at cell 0:  *)
(* one cell for the challenge, one for the packed vector z, OMEGA+K cells  *)
(* for the hint bytes, then the message bytes.  The plain message buffer m *)
(* is at the address mp of the call, over sm or behind it; the copying     *)
(* loops bear any overlap of m and sm that Fits, and no other.             *)
(*                                                                         *)
(* A hash output is a term made of its inputs, so that two outputs are     *)
(* equal exactly when the inputs are.  A cell is tagged with what it is.   *)
(* The copying loops run one byte per step and the rejection loop one      *)
(* candidate per step; every other call is one step.                       *)
(***************************************************************************)
EXTENDS HintEncoding, Sequences

CONSTANTS
    Seed,       \* outputs of randombytes for key generation
    Rnd,        \* values of rnd: many when signing is randomised, one if not
    Text,       \* messages the caller signs: sequences of byte cells
    Context,    \* contexts the caller uses: sequences of byte cells
    MaxLen,     \* bound: length of the longest message
    MsgPtr,     \* addresses the caller uses for m
    L,          \* polynomials in y and z
    NonceMod,   \* values of a uint16_t nonce
    UninitLen,  \* values a size_t may hold before it is assigned
    MaxCalls,   \* bound: calls of crypto_sign, crypto_sign_open, verify
    MaxDamage   \* bound: cells the transport changes

SigBytes == 2 + OMEGA + K            \* CRYPTO_BYTES, in cells
SmBytes == SigBytes + MaxLen
Addr == 0 .. 2*SmBytes - 1

ASSUME SignAssumption ==
    /\ L \in Nat \ {0} /\ NonceMod \in Nat \ {0} /\ MaxLen \in Nat
    /\ MaxCalls \in Nat /\ MaxDamage \in Nat
    /\ UninitLen \subseteq Nat
    /\ MsgPtr \subseteq 0..SmBytes

B(b) == <<"byte", b>>
ByteCell == {B(b) : b \in Byte}

ASSUME TextAssumption ==
    /\ \A t \in Text : t \in Seq(ByteCell) /\ Len(t) <= MaxLen
    /\ \A c \in Context : c \in Seq(ByteCell)

\* Hashes: tr = H(pk), mu = H(tr, pre, m), rhoprime = H(tr, rnd, mu),
\* c = H(mu, z).
PublicKey == {<<"pk", s>> : s \in Seed}
Tr(pk) == <<"tr", pk>>
Mu(tr, pre, text) == <<"mu", tr, pre \o text>>
RhoPrime(tr, r, m) == <<"rhoprime", tr, r, m>>
Challenge(m, zv) == <<"hash", m, zv>>

\* pre[0] = 0, pre[1] = (uint8_t)ctxlen, then the context.
Pre(ctx) == <<B(0), B(Len(ctx) % N)>> \o ctx
\* Faulty form of TooLong: one byte too many is let through.
TooLongOffByOne(ctx) == Len(ctx) > N
TooLong(ctx) == Len(ctx) > N - 1

\* polyvecl_uniform_gamma1: polynomial i of y comes from the XOF stream of
\* (rhoprime, stream number), a uint16_t.
\* Faulty form of Stream: consecutive nonces share streams.
StreamNoStride(n, i) == (n + i) % NonceMod
Stream(n, i) == (L*n + i) % NonceMod
StreamsOf(n) == {Stream(n, i) : i \in 0..L-1}
Candidate(rp, n) == <<"z", rp, [i \in 0..L-1 |-> Stream(n, i)]>>

VARIABLES
    keys,     \* key pairs generated: [pk, tr], tr being the copy in sk
    mem,      \* the caller's memory
    smlen,    \* the caller's *smlen
    mlen,     \* the caller's *mlen
    pc,       \* where the running call is, "idle" between calls
    arg,      \* arguments of the running call
    i,        \* loop index of the running call
    mu, rnd, nonce, z,  \* locals of crypto_sign_signature_internal
    drawn,    \* history: stream numbers used by this signature
    wrapped,  \* history: nonce went through 0 again in this signature
    large,    \* the stream numbers whose polynomial exceeds the norm bound
    signed,   \* history: <<pk, ctx, message>> signed
    box,      \* history: what the caller believes sm holds
    sealed,   \* history: sm as the last two calls of crypto_sign left it
    outcome,  \* history: what the last call returned
    calls, damage   \* counters for the bounds

sigvars == <<mu, rnd, nonce, z, drawn, wrapped>>
ghosts == <<signed, box, sealed, outcome>>
vars == <<keys, mem, smlen, mlen, pc, arg, i, sigvars, large, ghosts, calls, damage>>

Service == INSTANCE SignatureService WITH keys <- {k.pk : k \in keys}

NoArg == [pk |-> <<>>, tr |-> <<>>, ctx |-> <<>>, text |-> <<>>, mp |-> 0, len |-> 0]
NoZ == <<"byte", 0>>

\* len bytes of memory from address a on.
Read(a, len) == [k \in 1..len |-> mem[a + k - 1]]

Init ==
    /\ keys = {}
    /\ mem = [a \in Addr |-> B(0)]
    /\ smlen \in UninitLen
    /\ mlen = 0
    /\ pc = "idle" /\ arg = NoArg /\ i = 0
    /\ mu = <<>> /\ rnd \in Rnd /\ nonce = 0 /\ z = NoZ
    /\ drawn = {} /\ wrapped = FALSE
    /\ large \in SUBSET (0..NonceMod-1)
    /\ signed = {} /\ box = <<>> /\ sealed = <<>>
    /\ outcome = Service!Refused("none", <<>>, FALSE, FALSE)
    /\ calls = 0 /\ damage = 0

-----------------------------------------------------------------------------
(* The library: crypto_sign_keypair and crypto_sign. *)

\* crypto_sign_keypair: tr is computed from the packed pk and stored in sk.
KeyPair == \E s \in Seed :
    /\ pc = "idle"
    /\ keys' = keys \cup {[pk |-> <<"pk", s>>, tr |-> Tr(<<"pk", s>>)]}
    /\ UNCHANGED <<mem, smlen, mlen, pc, arg, i, sigvars, large, ghosts, calls, damage>>

\* The loops copy len bytes between m at mp and sm + CRYPTO_BYTES, down in
\* crypto_sign and up in crypto_sign_open: they bear any overlap when m starts
\* at or before that place (m = sm is one case); else m must start behind the
\* bytes.  The caller keeps to this: elsewhere no copy can work.
Fits(mp, len) == mp <= SigBytes \/ SigBytes + len <= mp

\* The caller writes its message at mp and calls crypto_sign.
CallSign == \E key \in keys, text \in Text, ctx \in Context, mp \in MsgPtr :
    /\ pc = "idle" /\ calls < MaxCalls /\ Fits(mp, Len(text))
    /\ mem' = [a \in Addr |-> IF a \in mp .. mp + Len(text) - 1
                              THEN text[a - mp + 1] ELSE mem[a]]
    /\ arg' = [pk |-> key.pk, tr |-> key.tr, ctx |-> ctx, text |-> text,
               mp |-> mp, len |-> Len(text)]
    /\ i' = 0 /\ pc' = "sign_copy" /\ box' = <<>> /\ calls' = calls + 1
    /\ UNCHANGED <<keys, smlen, mlen, sigvars, large, signed, sealed, outcome, damage>>

\* Faulty form of SignCopyByte: from the first byte up.
SignCopyUp(k) == [mem EXCEPT ![SigBytes + k] = mem[arg.mp + k]]

\* sm[CRYPTO_BYTES + mlen - 1 - i] = m[mlen - 1 - i], from the last byte down.
SignCopyByte(k) == [mem EXCEPT ![SigBytes + arg.len - 1 - k] = mem[arg.mp + arg.len - 1 - k]]
SignCopy ==
    /\ pc = "sign_copy" /\ i < arg.len
    /\ mem' = SignCopyByte(i)
    /\ i' = i + 1
    /\ UNCHANGED <<keys, smlen, mlen, pc, arg, sigvars, large, ghosts, calls, damage>>

\* crypto_sign_signature returns -1 before anything is written; crypto_sign
\* still adds mlen to *smlen.
SignTooLong ==
    /\ pc = "sign_copy" /\ i = arg.len
    /\ TooLong(arg.ctx)
    /\ smlen' = smlen + arg.len
    /\ pc' = "idle" /\ outcome' = Service!Refused("sign", <<>>, FALSE, FALSE)
    /\ UNCHANGED <<keys, mem, mlen, arg, i, sigvars, large, signed, box, sealed, calls, damage>>

\* crypto_sign_signature_internal up to the loop: rnd is drawn, mu computed
\* from the bytes in sm.
SignPrepare == \E r \in Rnd :
    /\ pc = "sign_copy" /\ i = arg.len
    /\ ~TooLong(arg.ctx)
    /\ rnd' = r
    /\ mu' = Mu(arg.tr, Pre(arg.ctx), Read(SigBytes, arg.len))
    /\ nonce' = 0 /\ drawn' = {} /\ wrapped' = FALSE
    /\ pc' = "sign_try"
    /\ UNCHANGED <<keys, mem, smlen, mlen, arg, i, z, large, ghosts, calls, damage>>

\* polyvecl_chknorm(&z, GAMMA1 - BETA) for a vector read from its cell; a cell
\* of plain bytes unpacks to coefficients GAMMA1, beyond the bound.
TooLarge(zv) == \/ zv[1] # "z"
                \/ zv = <<"z", "large">>
                \/ Len(zv) = 3 /\ \E k \in 0..L-1 : zv[3][k] \in large

\* nonce++ on a uint16_t, and two faulty forms: no wrap-around, no increment.
NonceUnbounded(n) == n + 1
NonceStuck(n) == n
NextNonce(n) == (n + 1) % NonceMod

\* One turn of the loop: y from the streams of nonce++, z = y.
SignTry ==
    /\ pc = "sign_try"
    /\ z' = Candidate(RhoPrime(arg.tr, rnd, mu), nonce)
    /\ nonce' = NextNonce(nonce)
    /\ wrapped' = IF nonce' = 0 THEN TRUE ELSE wrapped
    /\ drawn' = drawn \cup StreamsOf(nonce)
    /\ pc' = IF TooLarge(z') THEN "sign_try" ELSE "sign_pack"
    /\ UNCHANGED <<keys, mem, smlen, mlen, arg, i, mu, rnd, large, ghosts, calls, damage>>

\* The hint vector is all zero.
NoHints == PackHints([k \in 0..K-1 |-> {}])

\* sm after pack_sig.
Packed == [a \in Addr |-> IF a = 0 THEN Challenge(mu, z)
                          ELSE IF a = 1 THEN z
                          ELSE IF a < SigBytes THEN B(NoHints[a-2])
                          ELSE mem[a]]
SignPack ==
    /\ pc = "sign_pack"
    /\ mem' = Packed
    /\ smlen' = SigBytes + arg.len
    /\ pc' = "idle"
    /\ signed' = signed \cup {<<arg.pk, arg.ctx, arg.text>>}
    /\ box' = Service!Boxed(<<arg.pk, arg.ctx, arg.text>>, TRUE)
    /\ sealed' = IF sealed = <<>> THEN <<mem'>> ELSE <<mem', sealed[1]>>
    /\ outcome' = Service!Accepted("sign", <<arg.pk, arg.ctx, arg.text>>)
    /\ UNCHANGED <<keys, mlen, arg, i, sigvars, large, calls, damage>>

-----------------------------------------------------------------------------
(* The transport: one cell of sm is replaced by another of its kind, which *)
(* may come from the signed message sealed before this one.                *)

Junk(a) == IF a = 0 THEN {<<"hash", "junk">>}
           ELSE IF a = 1 THEN {<<"z", "small">>, <<"z", "large">>}
           ELSE ByteCell
Damage == \E a \in 0 .. smlen - 1 :
    /\ pc = "idle" /\ box # <<>> /\ damage < MaxDamage
    /\ \E v \in Junk(a) \cup {sealed[k][a] : k \in DOMAIN sealed} :
          /\ v # mem[a]
          /\ mem' = [mem EXCEPT ![a] = v]
    /\ box' = Service!Boxed(box[1].claim, FALSE)
    /\ damage' = damage + 1
    /\ UNCHANGED <<keys, smlen, mlen, pc, arg, i, sigvars, large, signed, sealed, outcome, calls>>

-----------------------------------------------------------------------------
(* crypto_sign_verify and crypto_sign_open. *)

HintBytes == [p \in HintArea |-> mem[2 + p][2]]

\* crypto_sign_verify(sm, siglen, sm + CRYPTO_BYTES, len, ctx, pk) = 0.
Verifies(siglen, len, ctx, pk) ==
    /\ ~TooLong(ctx)
    /\ siglen = SigBytes
    /\ HintsOk(HintBytes)
    /\ ~TooLarge(mem[1])
    /\ mem[0] = Challenge(Mu(Tr(pk), Pre(ctx), Read(SigBytes, len)), mem[1])

\* A detached verification of the signature and message in sm.
Verify == \E key \in keys, ctx \in Context, siglen \in {SigBytes, SigBytes - 1} :
    /\ pc = "idle" /\ box # <<>> /\ calls < MaxCalls
    /\ LET len == smlen - SigBytes
       IN  outcome' = IF Verifies(siglen, len, ctx, key.pk)
                      THEN Service!Accepted("verify", <<key.pk, ctx, Read(SigBytes, len)>>)
                      ELSE Service!Refused("verify", <<key.pk, ctx>>, siglen = SigBytes, FALSE)
    /\ arg' = [NoArg EXCEPT !.pk = key.pk, !.ctx = ctx, !.len = SigBytes + smlen - siglen]
    /\ calls' = calls + 1
    /\ UNCHANGED <<keys, mem, smlen, mlen, pc, i, sigvars, large, signed, box, sealed, damage>>

\* The caller presents the first len bytes of sm, all of them or fewer.
CallOpen == \E key \in keys, ctx \in Context, mp \in MsgPtr, len \in 0 .. smlen :
    /\ pc = "idle" /\ box # <<>> /\ calls < MaxCalls /\ Fits(mp, len - SigBytes)
    /\ arg' = [pk |-> key.pk, tr |-> <<>>, ctx |-> ctx, text |-> <<>>, mp |-> mp, len |-> len]
    /\ i' = 0 /\ pc' = "open" /\ calls' = calls + 1
    /\ UNCHANGED <<keys, mem, smlen, mlen, sigvars, large, ghosts, damage>>

Opens == /\ arg.len >= SigBytes
         /\ Verifies(SigBytes, arg.len - SigBytes, arg.ctx, arg.pk)
OpenAccept ==
    /\ pc = "open" /\ Opens
    /\ mlen' = arg.len - SigBytes
    /\ pc' = "open_copy"
    /\ UNCHANGED <<keys, mem, smlen, arg, i, sigvars, large, ghosts, calls, damage>>

OpenReject ==
    /\ pc = "open" /\ ~Opens
    /\ mlen' = 0
    /\ pc' = "open_wipe"
    /\ UNCHANGED <<keys, mem, smlen, arg, i, sigvars, large, ghosts, calls, damage>>

\* Faulty form of OpenCopyByte: from the last byte down.
OpenCopyDown(k) == [mem EXCEPT ![arg.mp + mlen - 1 - k] = mem[SigBytes + mlen - 1 - k]]

\* m[i] = sm[CRYPTO_BYTES + i], from the first byte up.
OpenCopyByte(k) == [mem EXCEPT ![arg.mp + k] = mem[SigBytes + k]]
OpenCopy ==
    /\ pc = "open_copy" /\ i < mlen
    /\ mem' = OpenCopyByte(i)
    /\ i' = i + 1
    /\ UNCHANGED <<keys, smlen, mlen, pc, arg, sigvars, large, ghosts, calls, damage>>

\* Faulty form of WipeBytes: *mlen, which is 0 by now.
WipeNone == mlen
WipeBytes == arg.len

\* m[i] = 0 for all smlen bytes.
OpenWipe ==
    /\ pc = "open_wipe" /\ i < WipeBytes
    /\ mem' = [mem EXCEPT ![arg.mp + i] = B(0)]
    /\ i' = i + 1
    /\ UNCHANGED <<keys, smlen, mlen, pc, arg, sigvars, large, ghosts, calls, damage>>

\* m[0..len-1] is zero and *mlen too.
Wiped == mlen = 0 /\ \A k \in 0..arg.len-1 : mem[arg.mp + k] = B(0)

\* What the caller finds in m; a plain buffer over sm costs it the signed message.
OpenReturn ==
    /\ \/ /\ pc = "open_copy" /\ i = mlen
          /\ outcome' = Service!Accepted("open", <<arg.pk, arg.ctx, Read(arg.mp, mlen)>>)
       \/ /\ pc = "open_wipe" /\ i = WipeBytes
          /\ outcome' = Service!Refused("open", <<arg.pk, arg.ctx>>, arg.len = smlen, Wiped)
    /\ pc' = "idle"
    /\ box' = IF arg.mp >= smlen THEN box ELSE <<>>
    /\ UNCHANGED <<keys, mem, smlen, mlen, arg, i, sigvars, large, signed, sealed, calls, damage>>

-----------------------------------------------------------------------------
Library == \/ SignCopy \/ SignTooLong \/ SignPrepare \/ SignTry \/ SignPack
           \/ OpenAccept \/ OpenReject \/ OpenCopy \/ OpenWipe \/ OpenReturn
Caller == KeyPair \/ CallSign \/ Verify \/ CallOpen \/ Damage

Next == Library \/ Caller

\* A call that was made keeps running; the caller owes nothing.
Spec == Init /\ [][Next]_vars /\ WF_vars(Library)

-----------------------------------------------------------------------------
(* Properties. *)

\* Types of the variables: no length or index is negative, the nonce is a
\* uint16_t and tr in a secret key is the hash of the public key.
TypeOK ==
    /\ keys \subseteq {[pk |-> p, tr |-> Tr(p)] : p \in PublicKey}
    /\ DOMAIN mem = Addr
    /\ smlen \in Nat /\ mlen \in Nat
    /\ pc \in {"idle", "sign_copy", "sign_try", "sign_pack",
               "open", "open_copy", "open_wipe"}
    /\ arg.mp \in MsgPtr \cup {0} /\ arg.len \in Nat /\ i \in Nat
    /\ rnd \in Rnd /\ nonce \in 0..NonceMod-1
    /\ drawn \subseteq 0..NonceMod-1 /\ wrapped \in BOOLEAN
    /\ large \subseteq 0..NonceMod-1
    /\ calls \in 0..MaxCalls /\ damage \in 0..MaxDamage

\* The bytes from which crypto_sign computed mu are the caller's message, also
\* when m overlaps sm and the copy ran over it (sign.c:225-227), for every
\* place of m that Fits.
SignsTheCallersMessage ==
    pc \in {"sign_try", "sign_pack"} =>
        mu = Mu(Tr(arg.pk), Pre(arg.ctx), arg.text)

\* crypto_sign_open accepts only a message, key and context that crypto_sign
\* was given together: the encoding 0, ctxlen, ctx, m cannot be split in two
\* ways, and a challenge taken from another signed message does not match.
AcceptedIsSigned ==
    pc = "open_copy" /\ i = 0 =>
        <<arg.pk, arg.ctx, Read(SigBytes, mlen)>> \in signed

\* Until the uint16_t arithmetic L*nonce + i wraps, each polynomial of y, over
\* all the candidates of one signature, has an XOF stream of its own.
FreshStreams ==
    pc = "sign_try" /\ ~wrapped /\ L*nonce + L <= NonceMod =>
        /\ StreamsOf(nonce) \cap drawn = {}
        /\ \A j, k \in 0..L-1 : Stream(nonce, j) = Stream(nonce, k) => j = k

\* The API over bytes implements the service: see SignatureService.
ImplementsService == Service!Spec

\* Some vector the loop can reach is within the norm bound.
Acceptable == \E n \in 0..NonceMod-1 : StreamsOf(n) \cap large = {}

\* The rejection loop, which has no bound of its own, ends; so does every call.
CallsReturn == Acceptable => [](pc # "idle" => <>(pc = "idle"))

\* test/test_dilithium.c:52-61, README.md:40: a signed message of which one
\* byte was changed does not open.
DistortedIsRefused ==
    pc = "open_copy" /\ i = 0 /\ box # <<>> /\ arg.len = smlen =>
        \A a \in 0..smlen-1 : mem[a] = sealed[1][a]
=============================================================================
