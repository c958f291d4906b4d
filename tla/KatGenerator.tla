---------------------------- MODULE KatGenerator ----------------------------
(***************************************************************************)
(* The known-answer generator, ref/nistkat/PQCgenKAT_sign.c: it writes a   *)
(* file of requests, reads it back and writes the responses.  The response *)
(* file is a sequence of <<label, value>> lines, the label without the     *)
(* " = " behind it; a line of the request file also says how much of its   *)
(* value is there, since nothing checks that the file was written: the     *)
(* "whole", "some" of its digits or "none" behind the label.  Random bytes *)
(* are named by the state of the DRBG they come from: the seed and the     *)
(* lengths asked for since (CtrDrbg).                                      *)
(***************************************************************************)
EXTENDS Integers, Sequences

CONSTANT
    Count       \* requests, 100

ASSUME KatAssumption == Count \in 0..100   \* msg holds 33*100 bytes

VARIABLES
    drbg,       \* the seed, and the lengths asked for since
    req,        \* the lines of the request file
    from,       \* the lines of it that were read
    rsp,        \* the lines of the response file
    where,      \* the statement the program is at
    round,      \* i of the first loop
    entry       \* what was read or made for the current response

katvars == <<drbg, req, from, rsp, where, round, entry>>

\* count is not initialised: -1 stands for what it then holds.
Blank == [count |-> -1, seed |-> "none", mlen |-> 0, msg |-> "none", pk |-> "none", sk |-> "none", sm |-> "none"]

KatInit ==
    /\ drbg = <<"entropy">> /\ req = <<>> /\ from = 0 /\ rsp = <<>>
    /\ where = "request" /\ round = 0 /\ entry = Blank

Random(n, d) == <<"random", d, n>>

\* The first loop: a seed, then a message of 33 bytes more each time.  Its mlen
\* is the variable that the second loop reads into.
Whole(label, val) == <<label, val, "whole">>
MessageLen(k) == 33*(k + 1)
RequestTurn ==
    /\ where = "request" /\ round < Count
    /\ LET afterSeed == Append(drbg, 48)
           n == MessageLen(round)
       IN  /\ req' = req \o << Whole("count", round), Whole("seed", Random(48, drbg)),
                 Whole("mlen", n), Whole("msg", Random(n, afterSeed)),
                 Whole("pk", "none"), Whole("sk", "none"), Whole("smlen", "none"), Whole("sm", "none") >>
           /\ drbg' = Append(afterSeed, n)
           /\ entry' = [entry EXCEPT !.mlen = n]
    /\ round' = round + 1 /\ UNCHANGED <<from, rsp, where>>

\* The file is closed and opened again; what was not written to it by then is
\* missing at its end, from the middle of a value on or from the end of a label:
\* a line whose label is cut is not there.
Cut(line, part) == <<line[1], line[2], part>>
Reopen ==
    /\ where = "request" /\ round = Count
    /\ \E n \in 0..Len(req) :
          \/ req' = SubSeq(req, 1, n)
          \/ \E part \in {"some", "none"} :
                n > 0 /\ req' = Append(SubSeq(req, 1, n-1), Cut(req[n], part))
    /\ where' = "count" /\ UNCHANGED <<drbg, from, rsp, round, entry>>

\* FindMarker: the rest of the file up to the first line with this label.  The
\* marker "mlen = " is no part of the request's "smlen =", which ends there.
Found(label, k) == k > from /\ k <= Len(req) /\ req[k][1] = label
FirstOf(label, k) == Found(label, k) /\ \A j \in from+1..k-1 : ~Found(label, j)
Missing(label) == \A k \in 1..Len(req) : ~Found(label, k)
Line(label, val) == rsp' = Append(rsp, <<label, val>>)

\* fscanf, whose result is ignored: the digits that are there, or nothing is
\* assigned and the variable keeps its value.
Digits(v) == {v} \cup ({v \div p : p \in {10, 100, 1000}} \ {0})
Numbers(line, kept) ==
    CASE line[3] = "whole" -> {line[2]}
      [] line[3] = "some" -> Digits(line[2])
      [] OTHER -> {kept}

\* ReadHex behind its marker: what is missing of a value is zeros on the left,
\* and it returns 1.  (Length is never 0.)
ReadHex(line) ==
    CASE line[3] = "whole" -> line[2]
      [] line[3] = "some" -> <<"padded", line[2]>>
      [] OTHER -> <<"zeros">>

\* The count is the only line whose absence is no error.
ReadCount == \E k \in 1..Len(req) :
    /\ where = "count" /\ FirstOf("count", k)
    /\ \E c \in Numbers(req[k], entry.count) :
          entry' = [entry EXCEPT !.count = c] /\ Line("count", c)
    /\ from' = k
    /\ where' = "seed" /\ UNCHANGED <<drbg, req, round>>

NoCount ==
    /\ where = "count" /\ Missing("count")
    /\ from' = Len(req) /\ where' = "success"
    /\ UNCHANGED <<drbg, req, rsp, round, entry>>

\* The DRBG is seeded anew for each response; also as if only for the first.
SeededFirst(seed) == IF entry.count = 0 THEN <<seed>> ELSE drbg
Seeded(seed) == <<seed>>
ReadSeed == \E k \in 1..Len(req) :
    /\ where = "seed" /\ FirstOf("seed", k)
    /\ from' = k /\ entry' = [entry EXCEPT !.seed = ReadHex(req[k])]
    /\ Line("seed", ReadHex(req[k])) /\ drbg' = Seeded(ReadHex(req[k]))
    /\ where' = "mlen" /\ UNCHANGED <<req, round>>

ReadMlen == \E k \in 1..Len(req) :
    /\ where = "mlen" /\ FirstOf("mlen", k)
    /\ \E n \in Numbers(req[k], entry.mlen) :
          entry' = [entry EXCEPT !.mlen = n] /\ Line("mlen", n)
    /\ from' = k
    /\ where' = "msg" /\ UNCHANGED <<drbg, req, round>>

ReadMsg == \E k \in 1..Len(req) :
    /\ where = "msg" /\ FirstOf("msg", k)
    /\ from' = k /\ entry' = [entry EXCEPT !.msg = ReadHex(req[k])]
    /\ Line("msg", ReadHex(req[k]))
    /\ where' = "keypair" /\ UNCHANGED <<drbg, req, round>>

\* KAT_DATA_ERROR.
DataError ==
    /\ where \in {"seed", "mlen", "msg"} /\ Missing(where)
    /\ where' = "error" /\ from' = Len(req)
    /\ UNCHANGED <<drbg, req, rsp, round, entry>>

\* crypto_sign_keypair asks for 32 random bytes, crypto_sign for 32 more.
KeyPairLines ==
    /\ where = "keypair"
    /\ entry' = [entry EXCEPT !.pk = <<"pk", Random(32, drbg)>>, !.sk = <<"sk", Random(32, drbg)>>]
    /\ rsp' = rsp \o << <<"pk", entry'.pk>>, <<"sk", entry'.sk>> >>
    /\ drbg' = Append(drbg, 32)
    /\ where' = "sign" /\ UNCHANGED <<req, from, round>>

SignLines ==
    /\ where = "sign"
    /\ entry' = [entry EXCEPT !.sm = <<entry.msg, entry.sk, Random(32, drbg)>>]
    /\ rsp' = rsp \o << <<"smlen", <<entry.mlen, "CRYPTO_BYTES">>>>, <<"sm", entry'.sm>> >>
    /\ drbg' = Append(drbg, 32)
    /\ where' = "open" /\ UNCHANGED <<req, from, round>>

\* crypto_sign_open and the comparisons; what was just signed opens (Sign).
Compare ==
    /\ where = "open" /\ entry.sm[1] = entry.msg
    /\ where' = "count" /\ UNCHANGED <<drbg, req, from, rsp, round, entry>>

KatNext == \/ RequestTurn \/ Reopen \/ ReadCount \/ NoCount \/ ReadSeed \/ ReadMlen \/ ReadMsg
           \/ DataError \/ KeyPairLines \/ SignLines \/ Compare

KatSpec == KatInit /\ [][KatNext]_katvars

-----------------------------------------------------------------------------
\* What the response to a request must be: made from its own seed and message.
ResponseTo(c, seed, n, msg) ==
    LET key == Random(32, <<seed>>) IN
    << <<"count", c>>, <<"seed", seed>>, <<"mlen", n>>, <<"msg", msg>>,
       <<"pk", <<"pk", key>>>>, <<"sk", <<"sk", key>>>>,
       <<"smlen", <<n, "CRYPTO_BYTES">>>>, <<"sm", <<msg, <<"sk", key>>, Random(32, <<seed, 32>>)>>>> >>

\* The responses are those to the requests, in order and each from its own
\* request alone, whatever was drawn before it: a count, a seed or a length cut
\* off in mid-line gets no response.  Only the response at the very end of the
\* file may be to less than the message written: ReadHex accepts one that is cut.
\* Without an error there is a response to every request the file has
\* (PQCgenKAT_sign.c:80-150).
RespondsToRequests ==
    LET Answered == Len(rsp) \div 8
        Message(c) == IF Len(req) = 8*c + 4 THEN ReadHex(req[8*c + 4]) ELSE req[8*c + 4][2]
        Request(c) == ResponseTo(c, req[8*c + 2][2], req[8*c + 3][2], Message(c))
    IN  /\ \A c \in 0..Answered-1 : SubSeq(rsp, 8*c + 1, 8*c + 8) = Request(c)
        /\ where = "success" => 8*Answered >= Len(req) /\ Len(rsp) = 8*Answered
=============================================================================
