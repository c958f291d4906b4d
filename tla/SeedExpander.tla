---------------------------- MODULE SeedExpander ----------------------------
(***************************************************************************)
(* The seed expander of ref/nistkat/rng.c: bytes of AES-256 in counter     *)
(* mode, given in requests of any length, up to a limit set with the seed. *)
(* A byte of the output is the pair of the counter it was made from and    *)
(* its place in the block.                                                 *)
(***************************************************************************)
EXTENDS Integers, Sequences

CONSTANTS
    BlockLen,   \* 16
    Limit,      \* 2^32, which maxlen must stay below
    CtrMod,     \* values of the four counter bytes, 2^32
    Requests    \* lengths the callers ask for

ASSUME ExpanderAssumption ==
    /\ BlockLen \in Nat \ {0} /\ Limit \in Nat \ {0} /\ CtrMod \in Nat \ {0}
    /\ Limit <= BlockLen*CtrMod
    /\ Requests \subseteq Nat

VARIABLES
    remaining,  \* ctx->length_remaining
    ctr,        \* ctx->ctr[12..15]
    buffer,     \* the counter ctx->buffer was made from, -1 for the zero bytes
    pos,        \* ctx->buffer_pos
    xlen,       \* what the running request has yet to give
    pc,         \* "none" before seedexpander_init, "idle", "loop"
    maxlen,     \* history: the limit given with the seed
    given,      \* history: the bytes given since
    refused     \* history: the length last refused, 0 if it was not refused

vars == <<remaining, ctr, buffer, pos, xlen, pc, maxlen, given, refused>>

Init ==
    /\ remaining = 0 /\ ctr = 0 /\ buffer = -1 /\ pos = 0 /\ xlen = 0
    /\ pc = "none" /\ maxlen = 0 /\ given = <<>> /\ refused = 0

\* seedexpander_init; a maxlen of 2^32 or more is refused and nothing changes.
InitCtx == \E m \in 0..Limit-1 :
    /\ pc \in {"none", "idle"}
    /\ remaining' = m /\ maxlen' = m
    /\ ctr' = 0 /\ buffer' = -1 /\ pos' = BlockLen
    /\ pc' = "idle" /\ given' = <<>> /\ refused' = 0
    /\ UNCHANGED xlen

\* xlen >= length_remaining; also as if it were checked against the limit set
\* with the seed.
TooLongStale(n, r) == n >= maxlen
TooLong(n, r) == n >= r

Request == \E n \in Requests :
    /\ pc = "idle" /\ ~TooLong(n, remaining)
    /\ remaining' = remaining - n /\ xlen' = n /\ pc' = "loop" /\ refused' = 0
    /\ UNCHANGED <<ctr, buffer, pos, maxlen, given>>

RequestRefused == \E n \in Requests :
    /\ pc = "idle" /\ TooLong(n, remaining)
    /\ refused' = n
    /\ UNCHANGED <<remaining, ctr, buffer, pos, xlen, pc, maxlen, given>>

Chunk(n) == [k \in 1..n |-> <<buffer, pos + k - 1>>]

\* xlen <= 16 - buffer_pos; also as if the buffer had a byte more.
BufferHasLate(n) == n <= BlockLen - pos + 1
BufferHas(n) == n <= BlockLen - pos

\* "buffer has what we need"; a request of no byte leaves the loop at once.
Take ==
    /\ pc = "loop" /\ BufferHas(xlen)
    /\ given' = given \o Chunk(xlen)
    /\ pos' = pos + xlen /\ xlen' = 0 /\ pc' = "idle"
    /\ UNCHANGED <<remaining, ctr, buffer, maxlen, refused>>

\* Take what is in the buffer, fill it again, increment the counter.
Refill ==
    /\ pc = "loop" /\ ~BufferHas(xlen)
    /\ given' = given \o Chunk(BlockLen - pos)
    /\ xlen' = xlen - (BlockLen - pos)
    /\ buffer' = ctr /\ ctr' = (ctr + 1) % CtrMod /\ pos' = 0
    /\ UNCHANGED <<remaining, pc, maxlen, refused>>

Next == InitCtx \/ Request \/ RequestRefused \/ Take \/ Refill

Spec == Init /\ [][Next]_vars

-----------------------------------------------------------------------------
\* The bytes given since the seed was set are the key stream from its start:
\* none twice, none left out, no counter used twice, and never the zero bytes
\* the buffer starts with (rng.c:72-99).
IsKeyStream ==
    \A k \in 1..Len(given) : given[k] = <<(k-1) \div BlockLen, (k-1) % BlockLen>>

\* No more than maxlen bytes come out, and length_remaining is what is left of
\* them (rng.c:23, 67-70).
WithinMaxlen ==
    /\ Len(given) + xlen + remaining = maxlen /\ Len(given) <= maxlen
    /\ remaining >= 0

\* rng.c:23: "maxlen - maximum number of bytes generated under this seed": a
\* request is refused only if it would exceed that maximum.
MaxlenIsReachable == refused > 0 => Len(given) + refused > maxlen
=============================================================================
