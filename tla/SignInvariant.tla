---------------------------- MODULE SignInvariant ----------------------------
(***************************************************************************)
(* The inductive invariant behind "only what was signed is opened".  It    *)
(* says what the running call was given, how far its copying loop is,      *)
(* which cells hold bytes, and where a challenge can come from.            *)
(***************************************************************************)
EXTENDS Sign

SignPcs == {"sign_copy", "sign_try", "sign_pack"}
OpenPcs == {"open", "open_copy", "open_wipe"}

ArgsInv ==
    /\ pc \in SignPcs =>
          /\ arg.tr = Tr(arg.pk) /\ arg.pk \in PublicKey
          /\ arg.ctx \in Context /\ arg.text \in Text
          /\ arg.len = Len(arg.text) /\ arg.mp \in MsgPtr /\ box = <<>>
          /\ Fits(arg.mp, arg.len)
    /\ pc \in {"sign_try", "sign_pack"} => ~TooLong(arg.ctx)
    /\ pc \in OpenPcs => arg.ctx \in Context /\ arg.len <= smlen /\ box # <<>>
    /\ pc = "open_copy" => SigBytes + mlen = arg.len

\* After i turns of the copying loop the last i bytes of the message are in sm
\* and the others still at mp.
CopyInv ==
    pc = "sign_copy" =>
        /\ i <= arg.len
        /\ \A k \in 1..arg.len :
              mem[IF k <= arg.len - i THEN arg.mp + k - 1 ELSE SigBytes + k - 1] = arg.text[k]

BytesFrom(m) == \A a \in Addr : a >= SigBytes => m[a] \in ByteCell
MemInv ==
    /\ BytesFrom(mem)
    /\ \A k \in DOMAIN sealed : BytesFrom(sealed[k])
    /\ sealed = <<>> \/ 1 \in DOMAIN sealed
    /\ box # <<>> => smlen <= SmBytes

\* A challenge cell is a byte, junk of the transport, or the challenge of a
\* claim in S.
Sound(S, v) ==
    \/ v \in ByteCell \cup {<<"hash", "junk">>}
    \/ \E cl \in S : v = Challenge(Mu(Tr(cl[1]), Pre(cl[2]), cl[3]), v[3])
Signable == PublicKey \X {d \in Context : ~TooLong(d)} \X Text
SealInv ==
    /\ signed \subseteq Signable
    /\ Sound(signed, mem[0])
    /\ \A k \in DOMAIN sealed : Sound(signed, sealed[k][0])

\* The inductive invariant; it implies AcceptedIsSigned at each acceptance.
IInv == TypeOK /\ ArgsInv /\ CopyInv /\ SignsTheCallersMessage /\ MemInv /\ SealInv

-----------------------------------------------------------------------------
(* The invariant behind ImplementsService: what a whole signed message is, *)
(* and how a call of crypto_sign_open keeps what it decided.               *)

\* The bytes of t are at address a.
Holds(a, t) == \A k \in 1..Len(t) : mem[a + k - 1] = t[k]

\* sm is what crypto_sign left there for the claim cl.
Whole(cl) ==
    /\ mem[0] = Challenge(Mu(Tr(cl[1]), Pre(cl[2]), cl[3]), mem[1])
    /\ ~TooLarge(mem[1])
    /\ \A a \in 2..SigBytes-1 : mem[a] = B(NoHints[a-2])
    /\ Holds(SigBytes, cl[3])

KeyInv ==
    /\ pc \in SignPcs => \E key \in keys : arg.pk = key.pk
    /\ pc \in OpenPcs => /\ arg.pk \in PublicKey /\ arg.mp \in MsgPtr
                        /\ Fits(arg.mp, arg.len - SigBytes)
    /\ pc = "open" => i = 0

SigningInv ==
    /\ pc \in {"sign_try", "sign_pack"} => Holds(SigBytes, arg.text)
    /\ pc = "sign_pack" => ~TooLarge(z)

\* What the caller believes sm holds is of a signed claim, and is there if
\* nothing damaged it; a call that writes its result over sm gives it up.
BoxInv ==
    box # <<>> => \E cl \in signed, intact \in BOOLEAN :
        /\ box = Service!Boxed(cl, intact)
        /\ smlen = SigBytes + Len(cl[3])
        /\ intact /\ (pc \in {"open_copy", "open_wipe"} => arg.mp >= smlen) => Whole(cl)

\* After i turns of the copy that releases the message t, its first i bytes
\* are at m and the others still in sm.
ReleaseInv ==
    pc = "open_copy" => \E t \in Text :
        /\ <<arg.pk, arg.ctx, t>> \in signed
        /\ Len(t) = mlen /\ i <= mlen
        /\ \A k \in 1..mlen :
              mem[IF k <= i THEN arg.mp + k - 1 ELSE SigBytes + k - 1] = t[k]

\* A call that wipes m has a reason, and after i turns the first i bytes of m
\* are zero.
RefusalInv ==
    pc = "open_wipe" =>
        /\ \/ arg.len # smlen
           \/ ~box[1].intact
           \/ <<arg.pk, arg.ctx>> # <<box[1].claim[1], box[1].claim[2]>>
        /\ mlen = 0 /\ i <= arg.len
        /\ \A k \in 0..i-1 : mem[arg.mp + k] = B(0)

ServiceInv == KeyInv /\ SigningInv /\ BoxInv /\ ReleaseInv /\ RefusalInv
=============================================================================
