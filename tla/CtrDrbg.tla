------------------------------ MODULE CtrDrbg ------------------------------
(***************************************************************************)
(* The random bytes of the known-answer generator, ref/nistkat/rng.c: the  *)
(* CTR DRBG of SP 800-90A with AES-256.  A key is named by how it came to  *)
(* be: the seed material, then for each request how many blocks it took.   *)
(* A block of output is <<key, counter>>; what a block holds is free, so   *)
(* the counter after an update may be any, also one about to wrap.         *)
(***************************************************************************)
EXTENDS Integers, Sequences

CONSTANTS
    DBlock,     \* bytes of a block, 16
    Base,       \* values of a byte of V, 256
    VLen,       \* bytes of V, 16
    Seeds,      \* seed materials given to randombytes_init
    Lengths,    \* numbers of bytes asked for
    MaxCalls    \* bound: requests after a seed

ASSUME DrbgAssumption ==
    /\ DBlock \in Nat \ {0} /\ Base \in Nat \ {0} /\ VLen \in Nat \ {0}
    /\ Lengths \subseteq Nat /\ MaxCalls \in Nat

VARIABLES
    dkey,       \* DRBG_ctx.Key
    v,          \* DRBG_ctx.V, the first byte first
    reseed,     \* DRBG_ctx.reseed_counter
    want,       \* xlen, the bytes the running request has yet to give
    at,         \* the caller: "none", "idle", "fill", "update"
    turn,       \* i of AES256_CTR_DRBG_Update
    x,          \* the caller's buffer
    calls       \* history: V of the AES calls under dkey

dvars == <<dkey, v, reseed, want, at, turn, x, calls>>

Counters == [1..VLen -> 0..Base-1]
Zeros == [j \in 1..VLen |-> 0]

DInit ==
    /\ dkey = <<>> /\ v = Zeros /\ reseed = 0 /\ want = 0
    /\ at = "none" /\ turn = 0 /\ x = <<>> /\ calls = <<>>

\* "increment V": trailing 0xff become 0, the byte before them is incremented.
\* Also with the carry lost.
IncrementLow(w) == [w EXCEPT ![VLen] = (@ + 1) % Base]
Increment(w) == [j \in 1..VLen |->
    IF \A k \in j+1..VLen : w[k] = Base - 1 THEN (w[j] + 1) % Base ELSE w[j]]

\* randombytes_init: the state is cleared, then updated with the seed material.
Seed == \E s \in Seeds :
    /\ at \in {"none", "idle"}
    /\ dkey' = <<s>> /\ v' = Zeros /\ reseed' = 0 /\ want' = 0 /\ x' = <<>>
    /\ at' = "update" /\ turn' = 0 /\ calls' = <<>>

DCall == \E n \in Lengths :
    /\ at = "idle" /\ reseed <= MaxCalls
    /\ want' = n /\ x' = <<>> /\ at' = "fill"
    /\ UNCHANGED <<dkey, v, reseed, turn, calls>>

\* A turn of randombytes' loop: a whole block, or what is wanted of the last.
ChunkLen(n) == IF n > DBlock - 1 THEN DBlock ELSE n
FillBlock ==
    /\ at = "fill" /\ want > 0
    /\ v' = Increment(v) /\ calls' = Append(calls, v')
    /\ x' = x \o [b \in 1..ChunkLen(want) |-> <<dkey, Len(calls) + 1, b>>]
    /\ want' = want - ChunkLen(want)
    /\ UNCHANGED <<dkey, reseed, at, turn>>

\* The loop has ended: AES256_CTR_DRBG_Update(NULL, Key, V).
FillEnd ==
    /\ at = "fill" /\ want = 0
    /\ at' = "update" /\ turn' = 0
    /\ UNCHANGED <<dkey, v, reseed, want, x, calls>>

\* A turn of the update's loop; also with V left as it is before the first.
UpdateTurn ==
    /\ at = "update" /\ turn < 3
    /\ v' = Increment(v) /\ calls' = Append(calls, v')
    /\ turn' = turn + 1 /\ UNCHANGED <<dkey, reseed, want, at, x>>

\* Key and V are the three blocks; reseed_counter counts from the seed.
NewState ==
    /\ at = "update" /\ turn = 3
    /\ dkey' = Append(dkey, Len(calls) - 3) /\ v' \in Counters /\ calls' = <<>>
    /\ reseed' = reseed + 1 /\ at' = "idle"
    /\ UNCHANGED <<want, turn, x>>

DNext == Seed \/ DCall \/ FillBlock \/ FillEnd \/ UpdateTurn \/ NewState

DSpec == DInit /\ [][DNext]_dvars

-----------------------------------------------------------------------------
Number(w) == LET Sum[j \in 0..VLen] == IF j = 0 THEN 0 ELSE Base*Sum[j-1] + w[j] IN Sum[VLen]
Highest == [j \in 1..VLen |-> Base - 1]

\* Under one key V takes successive values, across every carry, so that no
\* block is made twice before the counter is through; a request's bytes are
\* those of its own blocks in order, never of the three that become the next
\* Key and V (rng.c:149-183, 191-213).
DrbgStream ==
    /\ \A k \in 1..Len(calls)-1 :
          Number(calls[k+1]) = IF calls[k] = Highest THEN 0 ELSE Number(calls[k]) + 1
    /\ \A b \in 1..Len(x) : LET key == x[b][1] IN
          /\ key = x[1][1] /\ x[b] = <<key, (b-1) \div DBlock + 1, ((b-1) % DBlock) + 1>>
          /\ at = "idle" => dkey = Append(key, (Len(x) + DBlock - 1) \div DBlock)
    /\ at = "idle" => Len(dkey) = reseed + 1
=============================================================================
