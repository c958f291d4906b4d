----------------------------- MODULE KeyLayout -----------------------------
(***************************************************************************)
(* Where ref/packing.c puts the parts of public keys, secret keys and      *)
(* signatures.  The pointer is moved behind each part that was copied, and *)
(* the polynomials behind it are found by a stride; packing and unpacking  *)
(* each do so on their own.  A byte is <<part, place>>; no part has the    *)
(* number 0, which stands for memory that holds none.                      *)
(***************************************************************************)
EXTENDS Integers, Sequences

CONSTANT Layouts    \* records of the sizes of params.h

ASSUME LayoutAssumption == \A s \in Layouts :
    {s.k, s.l, s.omega, s.seed, s.tr, s.ctilde, s.tbar, s.eta, s.z} \subseteq Nat \ {0}

\* CRYPTO_PUBLICKEYBYTES, CRYPTO_SECRETKEYBYTES, CRYPTO_BYTES.
Total(kind, s) ==
    CASE kind = "pk"  -> s.seed + s.k*s.tbar
      [] kind = "sk"  -> s.seed + s.tr + s.l*s.eta
      [] kind = "sig" -> s.ctilde + s.l*s.z + s.omega + s.k

\* The parts that are copied byte by byte, then the packed polynomials.
Heads(kind, s) ==
    CASE kind = "pk"  -> << <<"rho", s.seed>> >>
      [] kind = "sk"  -> << <<"rho", s.seed>>, <<"tr", s.tr>> >>
      [] kind = "sig" -> << <<"c", s.ctilde>> >>
Polys(kind, s) == CASE kind = "pk" -> s.k [] kind \in {"sk", "sig"} -> s.l
\* The distance of two polynomials, as packing and as unpacking have it; also
\* with that of another kind of polynomial.
Stride(kind, s) == CASE kind = "pk" -> s.tbar [] kind = "sk" -> s.eta [] kind = "sig" -> s.z
UnpackStrideZ(kind, s) == CASE kind = "pk" -> s.tbar [] kind = "sk" -> s.z [] kind = "sig" -> s.z
UnpackStride(kind, s) == CASE kind = "pk" -> s.tbar [] kind = "sk" -> s.eta [] kind = "sig" -> s.z

VARIABLES
    kind,       \* "pk", "sk" or "sig"
    sizes,
    phase,      \* "pack", "unpack", "read"
    part,       \* the head, then the polynomial, the loop is at
    ptr,        \* pk, sk or sig, as far as it was moved
    mem,        \* the bytes written, by address
    got         \* the parts unpacked

kvars == <<kind, sizes, phase, part, ptr, mem, got>>

KInit ==
    /\ sizes \in Layouts /\ kind \in {"pk", "sk", "sig"}
    /\ phase = "pack" /\ part = 1 /\ ptr = 0 /\ mem = <<>> /\ got = <<>>

NHeads == Len(Heads(kind, sizes))
InHeads == part <= NHeads
Poly == part - NHeads - 1                   \* the loop's i
InPolys == ~InHeads /\ Poly < Polys(kind, sizes)
Length == IF InHeads THEN Heads(kind, sizes)[part][2]
          ELSE IF kind = "pk" THEN sizes.tbar ELSE IF kind = "sk" THEN sizes.eta ELSE sizes.z
Address == IF InHeads THEN ptr ELSE ptr + Poly*Stride(kind, sizes)
Source == IF InHeads THEN ptr ELSE ptr + Poly*UnpackStride(kind, sizes)
Cells(p) == [b \in 1..Length |-> <<p, b - 1>>]

\* A head is copied and the pointer moves; a polynomial is packed at its place.
PackPart ==
    /\ phase = "pack" /\ (InHeads \/ InPolys)
    /\ mem' = [x \in DOMAIN mem \cup Address..Address+Length-1 |->
                 IF x >= Address /\ x < Address + Length THEN Cells(part)[x - Address + 1] ELSE mem[x]]
    /\ ptr' = IF InHeads THEN ptr + Length ELSE ptr
    /\ part' = part + 1 /\ UNCHANGED <<kind, sizes, phase, got>>

\* A signature ends with the hint area, whose bytes HintCodec describes.
PackEnd ==
    /\ phase = "pack" /\ ~InHeads /\ ~InPolys
    /\ LET hints == ptr + Polys(kind, sizes)*Stride(kind, sizes)
           area  == IF kind = "sig" THEN hints..hints + sizes.omega + sizes.k - 1 ELSE {}
       IN  mem' = [x \in DOMAIN mem \cup area |-> IF x \in area THEN <<"hint", x - hints>> ELSE mem[x]]
    /\ phase' = "unpack" /\ part' = 1 /\ ptr' = 0 /\ UNCHANGED <<kind, sizes, got>>

UnpackPart ==
    /\ phase = "unpack" /\ (InHeads \/ InPolys)
    /\ got' = Append(got, [b \in 1..Length |->
                 IF Source + b - 1 \in DOMAIN mem THEN mem[Source + b - 1] ELSE <<0, 0>>])
    /\ ptr' = IF InHeads THEN ptr + Length ELSE ptr
    /\ part' = part + 1 /\ UNCHANGED <<kind, sizes, phase, mem>>

UnpackEnd ==
    /\ phase = "unpack" /\ ~InHeads /\ ~InPolys
    /\ phase' = "read" /\ UNCHANGED <<kind, sizes, part, ptr, mem, got>>

KNext == PackPart \/ PackEnd \/ UnpackPart \/ UnpackEnd

KSpec == KInit /\ [][KNext]_kvars

-----------------------------------------------------------------------------
\* The parts fill exactly the bytes params.h gives a key or a signature, none
\* on top of another, and unpacking returns each as it was packed
\* (packing.c:39-118, 133-146).
KeysComeBack ==
    /\ phase # "pack" => DOMAIN mem = 0..Total(kind, sizes) - 1
    /\ \A p \in 1..Len(got) : \A b \in 1..Len(got[p]) : got[p][b] = <<p, b - 1>>
    /\ phase = "read" => Len(got) = NHeads + Polys(kind, sizes)
=============================================================================
