-------------------------- MODULE SignatureService --------------------------
(***************************************************************************)
(* What the signed-message API (crypto_sign_keypair, crypto_sign,          *)
(* crypto_sign_verify, crypto_sign_open) promises to a caller who keeps    *)
(* one signed message at a time and hands it to a transport that may       *)
(* damage it.  There are no bytes, hashes or loops here: a message is      *)
(* opened only for the key and context it was signed with, is always       *)
(* opened when it arrives whole, and of a message that is not opened       *)
(* nothing is left in the caller's buffer.                                 *)
(***************************************************************************)
EXTENDS Integers

CONSTANTS
    PublicKey,      \* the public keys that key generation may return
    Text,           \* messages
    Context,        \* context strings, the too long ones included
    TooLong(_)      \* contexts the API refuses

VARIABLES
    keys,       \* public keys generated so far
    signed,     \* the <<key, context, message>> signed so far
    box,        \* <<>> or the signed message in the caller's buffer
    outcome     \* what the last call returned

vars == <<keys, signed, box, outcome>>

Boxed(claim, intact) == <<[claim |-> claim, intact |-> intact]>>
Accepted(op, claim) == [op |-> op, ret |-> 0, claim |-> claim, whole |-> TRUE, wiped |-> FALSE]
\* asked: key and context; whole: the signed message was presented to its end;
\* wiped: the buffer for the plain message is empty and all zero.
Refused(op, asked, whole, wiped) ==
    [op |-> op, ret |-> -1, claim |-> asked, whole |-> whole, wiped |-> wiped]

Init ==
    /\ keys = {}
    /\ signed = {}
    /\ box = <<>>
    /\ outcome = Refused("none", <<>>, FALSE, FALSE)

KeyPair == \E pk \in PublicKey :
    /\ keys' = keys \cup {pk}
    /\ UNCHANGED <<signed, box, outcome>>

\* The buffer is about to be overwritten: what it held is given up.
Discard ==
    /\ box' = <<>>
    /\ UNCHANGED <<keys, signed, outcome>>

Sign == \E pk \in keys, ctx \in Context, text \in Text :
    /\ ~TooLong(ctx)
    /\ signed' = signed \cup {<<pk, ctx, text>>}
    /\ box' = Boxed(<<pk, ctx, text>>, TRUE)
    /\ outcome' = Accepted("sign", <<pk, ctx, text>>)
    /\ UNCHANGED keys

SignRefused == \E ctx \in Context :
    /\ TooLong(ctx)
    /\ outcome' = Refused("sign", <<>>, FALSE, FALSE)
    /\ UNCHANGED <<keys, signed, box>>

Damage ==
    /\ box # <<>>
    /\ box' = Boxed(box[1].claim, FALSE)
    /\ UNCHANGED <<keys, signed, outcome>>

\* The buffer survives a call, or the opened message was written over it.
KeepOrOverwrite == box' \in {box, <<>>}

\* Only what was signed is accepted, for the key and the context it was
\* signed with.
Accept(op) == \E claim \in signed :
    /\ outcome' = Accepted(op, claim)
    /\ KeepOrOverwrite
    /\ UNCHANGED <<keys, signed>>

\* A refusal needs a reason: the caller has no whole message in the buffer,
\* presents only a part of it (whole = FALSE), or names another key or context.
\* The outcome tells what was asked.  A refusal to open releases nothing.
Refuse(op) == \E pk \in PublicKey, ctx \in Context, whole \in BOOLEAN :
    /\ \/ box = <<>>
       \/ ~whole
       \/ ~box[1].intact
       \/ <<pk, ctx>> # <<box[1].claim[1], box[1].claim[2]>>
    /\ outcome' = Refused(op, <<pk, ctx>>, whole, op = "open")
    /\ KeepOrOverwrite
    /\ UNCHANGED <<keys, signed>>

Next ==
    \/ KeyPair \/ Discard \/ Sign \/ SignRefused \/ Damage
    \/ \E op \in {"open", "verify"} : Accept(op) \/ Refuse(op)

Spec == Init /\ [][Next]_vars
=============================================================================
