----------------------------- MODULE RandomBytes -----------------------------
(***************************************************************************)
(* randombytes of ref/randombytes.c: the getrandom system call, and the    *)
(* fallback that opens /dev/urandom once per process and keeps the         *)
(* descriptor in a static variable, called by any number of threads.       *)
(*                                                                         *)
(* The static fd is not atomic: a thread may use the value it last read or *)
(* read it again, which the compiler decides, so both happen here.         *)
(***************************************************************************)
EXTENDS Integers, FiniteSets

CONSTANTS
    Thread,
    Environment,    \* records: threads, the threads that call; getrandom, the
                    \* build has SYS_getrandom; interrupts, open may fail with
                    \* EINTR; outlen, the bytes asked for by a call
    MaxOpen         \* descriptors the process may have open

ASSUME RandomAssumption ==
    /\ MaxOpen \in Nat /\ IsFiniteSet(Thread)
    /\ Environment \subseteq [threads : SUBSET Thread, getrandom : BOOLEAN,
                              interrupts : BOOLEAN, outlen : Nat \ {0}]

VARIABLES
    env,        \* the environment of this process
    fd,         \* the static fd
    opened,     \* descriptors of /dev/urandom the process has
    seen,       \* what a thread last read from fd or got from open
    errno,      \* per thread
    left,       \* outlen; out has advanced by OutLen - left
    out,        \* the bytes of out that were written
    pc,
    aborted,    \* abort() was called
    broken,     \* history: the kernel failed with another error than EINTR
    lost        \* history: how often a -1 was put over a descriptor in fd

vars == <<env, fd, opened, seen, errno, left, out, pc, aborted, broken, lost>>

None == -1

OutLen == env.outlen

Init ==
    /\ env \in Environment
    /\ fd = None /\ opened = {}
    /\ seen = [t \in Thread |-> None] /\ errno = [t \in Thread |-> "ok"]
    /\ left = [t \in Thread |-> 0] /\ out = [t \in Thread |-> {}]
    /\ pc = [t \in Thread |-> "idle"]
    /\ aborted = FALSE /\ broken = FALSE /\ lost = 0

At(t, l) == ~aborted /\ pc[t] = l
Goto(t, l) == pc' = [pc EXCEPT ![t] = l]

Call(t) ==
    /\ At(t, "idle")
    /\ left' = [left EXCEPT ![t] = OutLen] /\ out' = [out EXCEPT ![t] = {}]
    /\ seen' = [seen EXCEPT ![t] = fd]
    /\ Goto(t, IF env.getrandom THEN "fill" ELSE "check")
    /\ UNCHANGED <<env, fd, opened, errno, aborted, broken, lost>>

\* while(fd == -1); the faulty form opens on every call.
AlwaysOpens(v) == TRUE
MustOpen(v) == v = None

Check(t) == \E v \in {seen[t], fd} :
    /\ At(t, "check")
    /\ seen' = [seen EXCEPT ![t] = v]
    /\ Goto(t, IF MustOpen(v) THEN "open" ELSE "fill")
    /\ UNCHANGED <<env, fd, opened, errno, left, out, aborted, broken, lost>>

\* The system call, before its result is stored.  It waits, and can be
\* interrupted, only once it has a descriptor.
Open(t) ==
    /\ At(t, "open") /\ Goto(t, "store")
    /\ \/ \E d \in 0..MaxOpen-1 :
             /\ d \notin opened /\ \A e \in 0..d-1 : e \in opened
             /\ opened' = opened \cup {d}
             /\ seen' = [seen EXCEPT ![t] = d]
             /\ UNCHANGED <<errno, broken>>
       \/ /\ seen' = [seen EXCEPT ![t] = None]
          /\ \/ /\ env.interrupts /\ opened # 0..MaxOpen-1
                /\ errno' = [errno EXCEPT ![t] = "EINTR"] /\ UNCHANGED broken
             \/ errno' = [errno EXCEPT ![t] = "EMFILE"] /\ broken' = TRUE
          /\ UNCHANGED opened
    /\ UNCHANGED <<env, fd, left, out, aborted, lost>>

\* A failed call is repeated if it was interrupted; the faulty form never does.
GivesUp(e) == TRUE
Fatal(e) == e # "EINTR"

Store(t) ==
    /\ At(t, "store")
    /\ fd' = seen[t]
    /\ lost' = IF seen[t] = None /\ fd # None THEN lost + 1 ELSE lost
    /\ Goto(t, "test")
    /\ UNCHANGED <<env, opened, seen, errno, left, out, aborted, broken>>

\* if(fd == -1 && errno == EINTR) continue; else if(fd == -1) abort(); then the
\* loop condition: fd may be read each time.
Test(t) == \E v \in {seen[t], fd} : \E w \in {v, fd} :
    /\ At(t, "test") /\ Goto(t, "check")
    /\ seen' = [seen EXCEPT ![t] = w]
    /\ aborted' = (w = None /\ (v # None \/ Fatal(errno[t])))
    /\ UNCHANGED <<env, fd, opened, errno, left, out, broken, lost>>

\* The kernel writes n > 0 of the bytes asked for; out advances by n.  The
\* faulty form restarts at the beginning of out.
FromStart(l, n) == 0 .. n-1
Written(l, n) == OutLen - l .. OutLen - l + n - 1

\* The count given to the kernel; the faulty form is not reduced by what came.
AskedAll(l) == OutLen
Asked(l) == l

\* EINTR changes nothing: it is a stuttering step.
Read(t) == \E v \in {seen[t], fd} :
    /\ At(t, "fill") /\ left[t] > 0
    /\ \/ /\ env.getrandom \/ v # None
          /\ \E n \in 1..Asked(left[t]) :
                /\ out' = [out EXCEPT ![t] = @ \cup Written(left[t], n)]
                /\ left' = [left EXCEPT ![t] = @ - n]
          /\ UNCHANGED <<aborted, broken>>
       \/ /\ env.getrandom \/ v # None
          /\ aborted' = TRUE /\ broken' = TRUE        \* EIO, ENOSYS, ...
          /\ UNCHANGED <<out, left>>
       \/ /\ ~env.getrandom /\ v = None
          /\ aborted' = TRUE                          \* EBADF
          /\ UNCHANGED <<out, left, broken>>
    /\ UNCHANGED <<env, fd, opened, seen, errno, pc, lost>>

Return(t) ==
    /\ At(t, "fill") /\ left[t] = 0
    /\ Goto(t, "idle")
    /\ UNCHANGED <<env, fd, opened, seen, errno, left, out, aborted, broken, lost>>

Run(t) == Check(t) \/ Open(t) \/ Store(t) \/ Test(t) \/ Read(t) \/ Return(t)

Next == \E t \in env.threads : Call(t) \/ Run(t)

\* A running thread is scheduled, and no system call is interrupted for ever.
Opens(t) == Open(t) /\ seen'[t] # None
Spec == /\ Init /\ [][Next]_vars
        /\ \A t \in Thread : WF_vars(Run(t)) /\ SF_vars(Opens(t))

-----------------------------------------------------------------------------
\* When randombytes returns, every byte of the caller's buffer was written,
\* however the kernel cut its answers (randombytes.c:45-54, 69-78).
FillsTheBuffer ==
    \A t \in Thread : pc[t] = "fill" /\ left[t] = 0 => out[t] = 0..OutLen-1

\* The process dies only of an error the kernel reported, and EINTR is none; or,
\* where threads share fd, because the -1 of an open that was interrupted in one
\* thread went over a descriptor another thread had stored (randombytes.c:62):
\* the other one then tests, or reads from, the -1.
AbortHasCause == aborted => broken \/ (lost > 0 /\ Cardinality(env.threads) > 1)

\* A thread opens the device at most once, however often it calls and whoever
\* stores the descriptor last; and once more each time a descriptor is lost.
DescriptorsBounded == Cardinality(opened) <= Cardinality(env.threads) * (1 + lost)

\* Every call returns or the process aborts.
CallsEnd == \A t \in Thread : pc[t] # "idle" ~> (pc[t] = "idle" \/ aborted)
=============================================================================
