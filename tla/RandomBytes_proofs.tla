------------------------- MODULE RandomBytes_proofs -------------------------
(***************************************************************************)
(* Theorems about RandomBytes, for any number of threads, any length and   *)
(* any number of descriptors.                                              *)
(***************************************************************************)
EXTENDS RandomBytes, FiniteSetTheorems, TLAPS

Descriptor == {None} \cup 0..MaxOpen-1

TypeInv ==
    /\ env \in Environment
    /\ fd \in Descriptor
    /\ opened \in SUBSET (0..MaxOpen-1)
    /\ seen \in [Thread -> Descriptor]
    /\ errno \in [Thread -> {"ok", "EINTR", "EMFILE"}]
    /\ left \in [Thread -> Nat]
    /\ out \in [Thread -> SUBSET Nat]
    /\ pc \in [Thread -> {"idle", "check", "open", "store", "test", "fill"}]
    /\ aborted \in BOOLEAN /\ broken \in BOOLEAN
    /\ lost \in Nat

\* The bytes of the buffer before the one that comes next are written.
FillInv == \A t \in Thread : pc[t] # "idle" =>
    left[t] <= OutLen /\ out[t] = 0 .. OutLen - left[t] - 1

LEMMA EnvironmentType ==
    ASSUME env \in Environment
    PROVE  /\ env.threads \in SUBSET Thread /\ OutLen \in Nat \ {0}
           /\ env.getrandom \in BOOLEAN /\ env.interrupts \in BOOLEAN
BY RandomAssumption DEF OutLen

LEMMA TypeInit == Init => TypeInv /\ FillInv
<1> SUFFICES ASSUME Init PROVE TypeInv /\ FillInv
  OBVIOUS
<1>1. None \in Descriptor
  BY DEF Descriptor
<1> HIDE DEF Descriptor, None
<1>2. TypeInv
  BY <1>1 DEF Init, TypeInv
<1>3. FillInv
  BY DEF Init, FillInv
<1> QED BY <1>2, <1>3

\* What read and getrandom add to the buffer of one thread.
LEMMA WrittenNext ==
    ASSUME NEW o \in Nat, NEW l \in Nat, l <= o, NEW n \in 1..l
    PROVE  /\ l - n \in Nat /\ l - n <= o
           /\ (0 .. o - l - 1) \cup (o - l .. o - l + n - 1) = 0 .. o - (l - n) - 1
OBVIOUS

\* A system call that fills some of the buffer of t.
LEMMA ReadStep ==
    ASSUME TypeInv, FillInv, NEW t \in env.threads, Read(t)
    PROVE  TypeInv' /\ FillInv'
<1>0. t \in Thread /\ env \in Environment /\ OutLen \in Nat /\ left[t] \in Nat
      /\ pc[t] = "fill" /\ OutLen' = OutLen
  BY EnvironmentType DEF TypeInv, Read, At, OutLen
<1>1. UNCHANGED <<env, fd, opened, seen, errno, pc, lost>>
  BY DEF Read
<1>2. CASE UNCHANGED <<left, out>>
  <2>1. aborted' \in BOOLEAN /\ broken' \in BOOLEAN
    BY DEF Read, TypeInv
  <2> QED BY <1>1, <1>2, <2>1 DEF TypeInv, FillInv, OutLen
<1>3. CASE \E n \in 1..Asked(left[t]) :
              /\ out' = [out EXCEPT ![t] = @ \cup Written(left[t], n)]
              /\ left' = [left EXCEPT ![t] = @ - n]
              /\ UNCHANGED <<aborted, broken>>
  <2>1. PICK n \in 1..left[t] :
              /\ out' = [out EXCEPT ![t] = @ \cup Written(left[t], n)]
              /\ left' = [left EXCEPT ![t] = @ - n]
              /\ UNCHANGED <<aborted, broken>>
    BY <1>3 DEF Asked
  <2>2. left[t] <= OutLen /\ out[t] = 0 .. OutLen - left[t] - 1
    BY <1>0 DEF FillInv
  <2>3. /\ left[t] - n \in Nat /\ left[t] - n <= OutLen
        /\ out[t] \cup Written(left[t], n) = 0 .. OutLen - (left[t] - n) - 1
    BY <1>0, <2>2, WrittenNext DEF Written
  <2>4. \A u \in Thread :
           /\ left'[u] = IF u = t THEN left[t] - n ELSE left[u]
           /\ out'[u] = IF u = t THEN 0 .. OutLen - (left[t] - n) - 1 ELSE out[u]
    BY <1>0, <2>1, <2>3 DEF TypeInv
  <2>5. left' \in [Thread -> Nat]
    BY <1>0, <2>1, <2>3 DEF TypeInv
  <2>6. out' \in [Thread -> SUBSET Nat]
    <3>1. 0 .. OutLen - (left[t] - n) - 1 \in SUBSET Nat
      BY <1>0, <2>3
    <3>2. out' = [out EXCEPT ![t] = 0 .. OutLen - (left[t] - n) - 1]
      BY <2>1, <2>3, <1>0 DEF TypeInv
    <3> QED BY <1>0, <3>1, <3>2 DEF TypeInv
  <2>7. TypeInv'
    BY <1>1, <2>1, <2>5, <2>6 DEF TypeInv
  <2>8. FillInv'
    <3> SUFFICES ASSUME NEW u \in Thread, pc[u] # "idle"
                 PROVE  left'[u] <= OutLen /\ out'[u] = 0 .. OutLen - left'[u] - 1
      BY <1>0, <1>1 DEF FillInv
    <3>1. CASE u = t
      BY <2>3, <2>4, <3>1
    <3>2. CASE u # t
      BY <2>4, <3>2 DEF FillInv
    <3> QED BY <3>1, <3>2
  <2> QED BY <2>7, <2>8
<1> QED BY <1>2, <1>3 DEF Read

\* The steps that leave the buffers alone.
LEMMA TypeStep == TypeInv /\ FillInv /\ [Next]_vars => TypeInv' /\ FillInv'
<1> SUFFICES ASSUME TypeInv, FillInv, [Next]_vars PROVE TypeInv' /\ FillInv'
  OBVIOUS
<1>0. /\ env.threads \subseteq Thread /\ OutLen \in Nat
      /\ None \in Descriptor /\ 0..MaxOpen-1 \subseteq Descriptor
  BY EnvironmentType DEF TypeInv, Descriptor
<1>1. CASE UNCHANGED vars
  <2>1. TypeInv'
    BY <1>1 DEF vars, TypeInv
  <2>2. FillInv'
    BY <1>1 DEF vars, FillInv, OutLen
  <2> QED BY <2>1, <2>2
<1>2. SUFFICES ASSUME NEW t \in env.threads, Call(t) \/ Run(t) PROVE TypeInv' /\ FillInv'
  BY <1>1 DEF Next
<1> HIDE DEF Descriptor, None
<1>t. t \in Thread
  BY <1>0
<1>3. CASE Call(t)
  <2>1. /\ left' = [left EXCEPT ![t] = OutLen] /\ out' = [out EXCEPT ![t] = {}]
        /\ seen' = [seen EXCEPT ![t] = fd]
        /\ pc' = [pc EXCEPT ![t] = IF env.getrandom THEN "fill" ELSE "check"]
        /\ UNCHANGED <<env, fd, opened, errno, aborted, broken, lost>>
    BY <1>3 DEF Call, Goto
  <2>2. left' \in [Thread -> Nat] /\ out' \in [Thread -> SUBSET Nat]
    BY <1>0, <2>1 DEF TypeInv
  <2>3. seen' \in [Thread -> Descriptor]
    BY <2>1 DEF TypeInv
  <2>4. pc' \in [Thread -> {"idle", "check", "open", "store", "test", "fill"}]
    BY <2>1 DEF TypeInv
  <2>5. TypeInv'
    BY <2>1, <2>2, <2>3, <2>4 DEF TypeInv
  <2>6. FillInv'
    <3> SUFFICES ASSUME NEW u \in Thread, pc'[u] # "idle"
                 PROVE  left'[u] <= OutLen /\ out'[u] = 0 .. OutLen - left'[u] - 1
      BY <2>1 DEF FillInv, OutLen
    <3>1. CASE u = t
      <4>1. left'[u] = OutLen /\ out'[u] = {}
        BY <2>1, <3>1 DEF TypeInv
      <4> QED BY <1>0, <4>1
    <3>2. CASE u # t
      BY <2>1, <3>2 DEF FillInv, TypeInv
    <3> QED BY <3>1, <3>2
  <2> QED BY <2>5, <2>6
<1>4. CASE Read(t)
  BY <1>4, ReadStep
<1>5. CASE Check(t) \/ Open(t) \/ Store(t) \/ Test(t) \/ Return(t)
  <2>1. UNCHANGED <<env, left, out>> /\ OutLen' = OutLen
    BY <1>5 DEF Check, Open, Store, Test, Return, OutLen
  <2>2. /\ pc[t] # "idle"
        /\ \E l \in {"idle", "check", "open", "store", "test", "fill"} : pc' = [pc EXCEPT ![t] = l]
    BY <1>5 DEF Check, Open, Store, Test, Return, At, Goto
  <2>3. pc' \in [Thread -> {"idle", "check", "open", "store", "test", "fill"}]
    BY <2>2 DEF TypeInv
  <2>4. seen' \in [Thread -> Descriptor] /\ fd' \in Descriptor
    <3>1. CASE Check(t)
      BY <1>t, <3>1 DEF Check, TypeInv
    <3>2. CASE Open(t)
      BY <1>0, <1>t, <3>2 DEF Open, TypeInv
    <3>3. CASE Store(t)
      BY <1>t, <3>3 DEF Store, TypeInv
    <3>4. CASE Test(t)
      BY <1>t, <3>4 DEF Test, TypeInv
    <3>5. CASE Return(t)
      BY <3>5 DEF Return, TypeInv
    <3> QED BY <1>5, <3>1, <3>2, <3>3, <3>4, <3>5
  <2>5. errno' \in [Thread -> {"ok", "EINTR", "EMFILE"}]
    BY <1>5, <1>t DEF Check, Open, Store, Test, Return, TypeInv
  <2>6. opened' \in SUBSET (0..MaxOpen-1)
    <3>1. opened \subseteq 0..MaxOpen-1
      BY DEF TypeInv
    <3>2. opened' = opened \/ \E d \in 0..MaxOpen-1 : opened' = opened \cup {d}
      BY <1>5 DEF Check, Open, Store, Test, Return
    <3> QED BY <3>1, <3>2
  <2>7. aborted' \in BOOLEAN /\ broken' \in BOOLEAN
    <3>1. CASE Test(t)
      <4>1. broken' \in BOOLEAN
        BY <3>1 DEF Test, TypeInv
      <4>2. PICK v \in {seen[t], fd}, w \in {seen[t], fd} :
                aborted' = (w = None /\ (v # None \/ Fatal(errno[t])))
        BY <3>1 DEF Test
      <4> QED BY <4>1, <4>2, Zenon
    <3>2. CASE Check(t) \/ Open(t) \/ Store(t) \/ Return(t)
      BY <3>2 DEF Check, Open, Store, Return, TypeInv
    <3> QED BY <1>5, <3>1, <3>2
  <2>n. lost' \in Nat
    <3>1. lost' = lost \/ lost' = lost + 1
      BY <1>5 DEF Check, Open, Store, Test, Return
    <3> QED BY <3>1 DEF TypeInv
  <2>8. TypeInv'
    BY <2>1, <2>3, <2>4, <2>5, <2>6, <2>7, <2>n DEF TypeInv
  <2>9. FillInv'
    <3> SUFFICES ASSUME NEW u \in Thread, pc'[u] # "idle" PROVE pc[u] # "idle"
      BY <2>1 DEF FillInv
    <3> QED BY <2>2 DEF TypeInv
  <2> QED BY <2>8, <2>9
<1> QED BY <1>2, <1>3, <1>4, <1>5 DEF Run

LEMMA TypeInvariant == Spec => [](TypeInv /\ FillInv)
BY TypeInit, TypeStep, PTL DEF Spec

\* However the kernel cuts its answers, and whatever other threads do, the whole
\* of the buffer is written when randombytes returns.
THEOREM BufferFilled == Spec => []FillsTheBuffer
<1>1. TypeInv /\ FillInv => FillsTheBuffer
  <2> SUFFICES ASSUME TypeInv, FillInv, NEW t \in Thread, pc[t] = "fill", left[t] = 0
               PROVE  out[t] = 0..OutLen-1
    BY DEF FillsTheBuffer
  <2>1. OutLen \in Nat /\ out[t] = 0 .. OutLen - left[t] - 1
    BY EnvironmentType DEF TypeInv, FillInv
  <2> QED BY <2>1
<1> QED BY <1>1, TypeInvariant, PTL

(***************************************************************************)
(* The descriptor.  An open that failed leaves -1 in fd and errno for the  *)
(* test that follows.  As long as no such -1 went over a descriptor, a     *)
(* thread that has read a descriptor from fd finds one there again.        *)
(***************************************************************************)

\* Until a descriptor is lost or the kernel fails, -1 means that nothing is open
\* yet, wherever it is read.
CalmInv ==
    /\ ~aborted
    /\ \A t \in env.threads :
          /\ pc[t] # "store" /\ seen[t] # None => fd # None
          /\ pc[t] = "fill" /\ ~env.getrandom => seen[t] # None
          /\ pc[t] \in {"store", "test"} /\ seen[t] = None => errno[t] = "EINTR"

\* A thread that calls alone loses nothing.
Alone == Cardinality(env.threads) <= 1

AloneInv ==
    /\ lost = 0
    /\ \A t \in env.threads :
          /\ pc[t] \in {"check", "test", "fill"} => seen[t] = fd
          /\ pc[t] \in {"open", "store"} => fd = None

QuietInv == ~broken => (lost = 0 => CalmInv) /\ (Alone => AloneInv)

LEMMA FiniteParts ==
    ASSUME TypeInv
    PROVE  IsFiniteSet(env.threads) /\ IsFiniteSet(opened)
<1>1. IsFiniteSet(env.threads)
  BY EnvironmentType, RandomAssumption, FS_Subset DEF TypeInv
<1>2. IsFiniteSet(0..MaxOpen-1) /\ opened \subseteq 0..MaxOpen-1
  BY RandomAssumption, FS_Interval DEF TypeInv
<1> QED BY <1>1, <1>2, FS_Subset

LEMMA OneThread ==
    ASSUME TypeInv, Alone, NEW t \in env.threads, NEW u \in env.threads
    PROVE  u = t
<1>1. IsFiniteSet(env.threads) /\ Cardinality(env.threads) <= 1
  BY FiniteParts DEF Alone
<1>2. Cardinality(env.threads) \in Nat /\ Cardinality(env.threads) # 0
  BY <1>1, FS_CardinalityType, FS_EmptySet
<1>3. Cardinality(env.threads) = 1
  BY <1>1, <1>2
<1> QED BY <1>1, <1>3, FS_Singleton

LEMMA QuietInit == Init /\ TypeInv => QuietInv
<1> SUFFICES ASSUME Init, TypeInv PROVE CalmInv /\ AloneInv
  BY DEF QuietInv
<1>1. env.threads \subseteq Thread
  BY EnvironmentType DEF TypeInv
<1> QED BY <1>1 DEF Init, CalmInv, AloneInv

\* What a step of t leaves alone.
LEMMA StepFrame ==
    ASSUME TypeInv, NEW t \in env.threads, Call(t) \/ Run(t)
    PROVE  /\ t \in Thread /\ env' = env /\ ~aborted
           /\ broken => broken'
           /\ lost' = lost \/ (lost' = lost + 1 /\ Store(t) /\ seen[t] = None /\ fd # None)
           /\ fd' = fd \/ (Store(t) /\ fd' = seen[t])
           /\ \A u \in Thread : u # t => /\ pc'[u] = pc[u] /\ seen'[u] = seen[u]
                                         /\ errno'[u] = errno[u]
<1>1. t \in Thread
  BY EnvironmentType DEF TypeInv
<1>2. CASE Call(t)
  BY <1>1, <1>2 DEF Call, At, Goto, TypeInv
<1>3. CASE Check(t)
  BY <1>1, <1>3 DEF Check, At, Goto, TypeInv
<1>4. CASE Open(t)
  BY <1>1, <1>4 DEF Open, At, Goto, TypeInv
<1>5. CASE Store(t)
  BY <1>1, <1>5 DEF Store, At, Goto, TypeInv
<1>6. CASE Test(t)
  BY <1>1, <1>6 DEF Test, At, Goto, TypeInv
<1>7. CASE Read(t)
  BY <1>1, <1>7 DEF Read, At, TypeInv
<1>8. CASE Return(t)
  BY <1>1, <1>8 DEF Return, At, Goto, TypeInv
<1> QED BY <1>2, <1>3, <1>4, <1>5, <1>6, <1>7, <1>8 DEF Run

LEMMA CalmStep ==
    ASSUME TypeInv, TypeInv', CalmInv, NEW t \in env.threads, Call(t) \/ Run(t),
           ~broken', lost' = lost
    PROVE  CalmInv'
<1>0. t \in Thread /\ env.threads \subseteq Thread /\ env' = env
  BY EnvironmentType, StepFrame DEF TypeInv
<1> DEFINE Fine(u) ==
          /\ pc[u] # "store" /\ seen[u] # None => fd # None
          /\ pc[u] = "fill" /\ ~env.getrandom => seen[u] # None
          /\ pc[u] \in {"store", "test"} /\ seen[u] = None => errno[u] = "EINTR"
<1>1. Fine(t) /\ ~aborted
  BY DEF CalmInv
<1>2. fd' = None => fd = None
  <2>1. CASE Store(t)
    BY <2>1 DEF Store, TypeInv
  <2>2. CASE ~Store(t)
    BY <2>2, StepFrame
  <2> QED BY <2>1, <2>2
<1>3. SUFFICES ~aborted' /\ Fine(t)'
  <2>1. ASSUME NEW u \in env.threads PROVE Fine(u)'
    <3>1. CASE u = t
      BY <1>3, <3>1
    <3>2. CASE u # t
      <4>1. pc'[u] = pc[u] /\ seen'[u] = seen[u] /\ errno'[u] = errno[u]
        BY <1>0, <3>2, StepFrame
      <4>2. Fine(u)
        BY DEF CalmInv
      <4> QED BY <1>0, <1>2, <4>1, <4>2
    <3> QED BY <3>1, <3>2
  <2> HIDE DEF Fine
  <2>2. \A u \in env.threads : Fine(u)'
    BY <2>1
  <2> QED BY <1>0, <1>3, <2>2 DEF CalmInv, Fine
<1>4. CASE Call(t)
  BY <1>0, <1>1, <1>4 DEF Call, Goto, At, TypeInv
<1>5. CASE Check(t)
  BY <1>0, <1>1, <1>5 DEF Check, Goto, At, TypeInv, MustOpen
<1>6. CASE Open(t)
  BY <1>0, <1>1, <1>6 DEF Open, Goto, At, TypeInv, None
<1>7. CASE Store(t)
  BY <1>0, <1>1, <1>7 DEF Store, Goto, At, TypeInv
<1>8. CASE Test(t)
  BY <1>0, <1>1, <1>8 DEF Test, Goto, At, TypeInv, Fatal
<1>9. CASE Read(t)
  BY <1>0, <1>1, <1>9 DEF Read, At, TypeInv
<1>10. CASE Return(t)
  BY <1>0, <1>1, <1>10 DEF Return, Goto, At, TypeInv
<1> QED BY <1>4, <1>5, <1>6, <1>7, <1>8, <1>9, <1>10 DEF Run

LEMMA AloneStep ==
    ASSUME TypeInv, TypeInv', Alone, CalmInv, AloneInv, NEW t \in env.threads,
           Call(t) \/ Run(t)
    PROVE  AloneInv'
<1>0. /\ t \in Thread /\ env' = env /\ \A u \in env.threads : u = t
  BY StepFrame, OneThread
<1>1. /\ pc[t] \in {"check", "test", "fill"} => seen[t] = fd
      /\ pc[t] \in {"open", "store"} => fd = None
      /\ lost = 0
  BY DEF AloneInv
<1>2. lost' = 0
  <2>1. Store(t) => fd = None
    BY <1>1 DEF Store, At
  <2> QED BY <1>1, <2>1, StepFrame
<1>3. /\ pc'[t] \in {"check", "test", "fill"} => seen'[t] = fd'
      /\ pc'[t] \in {"open", "store"} => fd' = None
  <2>1. CASE Call(t)
    BY <1>0, <1>1, <2>1 DEF Call, Goto, At, TypeInv
  <2>2. CASE Check(t)
    BY <1>0, <1>1, <2>2 DEF Check, Goto, At, TypeInv, MustOpen
  <2>3. CASE Open(t)
    BY <1>0, <1>1, <2>3 DEF Open, Goto, At, TypeInv
  <2>4. CASE Store(t)
    BY <1>0, <1>1, <2>4 DEF Store, Goto, At, TypeInv
  <2>5. CASE Test(t)
    BY <1>0, <1>1, <2>5 DEF Test, Goto, At, TypeInv
  <2>6. CASE Read(t)
    BY <1>0, <1>1, <2>6 DEF Read, At, TypeInv
  <2>7. CASE Return(t)
    BY <1>0, <1>1, <2>7 DEF Return, Goto, At, TypeInv
  <2> QED BY <2>1, <2>2, <2>3, <2>4, <2>5, <2>6, <2>7 DEF Run
<1> QED BY <1>0, <1>2, <1>3 DEF AloneInv

LEMMA QuietStep == TypeInv /\ TypeInv' /\ QuietInv /\ [Next]_vars => QuietInv'
<1> SUFFICES ASSUME TypeInv, TypeInv', QuietInv, [Next]_vars, ~broken'
             PROVE  (lost' = 0 => CalmInv') /\ (Alone' => AloneInv')
  BY DEF QuietInv
<1>1. CASE UNCHANGED vars
  <2>1. (lost = 0 => CalmInv) /\ (Alone => AloneInv)
    BY <1>1 DEF vars, QuietInv
  <2>2. lost' = 0 => CalmInv'
    BY <1>1, <2>1 DEF vars, CalmInv
  <2>3. Alone' => AloneInv'
    BY <1>1, <2>1 DEF vars, Alone, AloneInv
  <2> QED BY <2>2, <2>3
<1>2. CASE Next
  <2>1. PICK t \in env.threads : Call(t) \/ Run(t)
    BY <1>2 DEF Next
  <2>2. ~broken /\ env' = env /\ (lost' = lost \/ lost' = lost + 1)
    BY <2>1, StepFrame
  <2>3. (lost = 0 => CalmInv) /\ (Alone => AloneInv)
    BY <2>2 DEF QuietInv
  <2>4. ASSUME lost' = 0 PROVE CalmInv'
    <3>1. lost = 0 /\ lost' = lost
      BY <2>2, <2>4 DEF TypeInv
    <3> QED BY <2>1, <2>3, <3>1, CalmStep
  <2>5. ASSUME Alone' PROVE AloneInv'
    <3>1. Alone
      BY <2>2, <2>5 DEF Alone
    <3>2. CalmInv /\ AloneInv
      BY <2>3, <3>1 DEF AloneInv
    <3> QED BY <2>1, <3>1, <3>2, AloneStep
  <2> QED BY <2>4, <2>5
<1> QED BY <1>1, <1>2

\* No call aborts but for an error of the kernel other than EINTR, or because a
\* failed open of one thread went over the descriptor of another: a thread that
\* calls alone survives every interruption, and so do threads that share the
\* static fd until such a loss.
THEOREM AbortsAreCaused == Spec => []AbortHasCause
<1>1. TypeInv /\ QuietInv => AbortHasCause
  <2> SUFFICES ASSUME TypeInv, QuietInv, aborted, ~broken
               PROVE  lost > 0 /\ Cardinality(env.threads) > 1
    BY DEF AbortHasCause
  <2>1. lost # 0
    BY DEF QuietInv, CalmInv
  <2>2. ~(Cardinality(env.threads) <= 1)
    BY <2>1 DEF QuietInv, Alone, AloneInv
  <2>3. Cardinality(env.threads) \in Nat
    BY FiniteParts, FS_CardinalityType
  <2> QED BY <2>1, <2>2, <2>3 DEF TypeInv
<1>2. Spec => []QuietInv
  BY QuietInit, QuietStep, TypeInvariant, PTL DEF Spec
<1> QED BY <1>1, <1>2, TypeInvariant, PTL

(***************************************************************************)
(* How often the device is opened.                                         *)
(***************************************************************************)

\* The threads that may have an open before them, if no descriptor is lost.
MayOpen(t) ==
    \/ pc[t] = "open"
    \/ pc[t] \in {"check", "store", "test"} /\ seen[t] = None
    \/ fd = None /\ ~(pc[t] = "store" /\ seen[t] # None)

Openers == {t \in env.threads : MayOpen(t)}

OpenedInv ==
    Cardinality(opened) + Cardinality(Openers) <= Cardinality(env.threads) * (1 + lost)

LEMMA OpenersFinite ==
    ASSUME TypeInv
    PROVE  /\ IsFiniteSet(Openers)
           /\ Cardinality(Openers) \in Nat /\ Cardinality(opened) \in Nat
           /\ Cardinality(env.threads) \in Nat
           /\ Cardinality(Openers) <= Cardinality(env.threads)
<1>1. Openers \subseteq env.threads
  BY DEF Openers
<1> QED BY <1>1, FiniteParts, FS_Subset, FS_CardinalityType

LEMMA OpenedInit == Init /\ TypeInv => OpenedInv
<1> SUFFICES ASSUME Init, TypeInv PROVE OpenedInv
  OBVIOUS
<1>1. Cardinality(opened) = 0 /\ lost = 0
  BY FS_EmptySet DEF Init
<1>2. \A n \in Nat, m \in Nat : n <= m => 0 + n <= m * (1 + 0)
  OBVIOUS
<1> QED BY <1>1, <1>2, OpenersFinite DEF OpenedInv

\* A thread that opens the device will not do so again: fd, or what it is about
\* to store in it, is a descriptor from then on, unless a descriptor is lost.
LEMMA OpenersStep ==
    ASSUME TypeInv, TypeInv', NEW t \in env.threads, Call(t) \/ Run(t), lost' = lost
    PROVE  \/ opened' = opened /\ Openers' \subseteq Openers
           \/ /\ \E d : d \notin opened /\ opened' = opened \cup {d}
              /\ t \in Openers /\ Openers' \subseteq Openers \ {t}
<1>0. t \in Thread /\ env.threads \subseteq Thread /\ env' = env
  BY EnvironmentType, StepFrame DEF TypeInv
<1>1. fd' = None => fd = None
  <2>1. CASE Store(t)
    BY <2>1 DEF Store, TypeInv
  <2>2. CASE ~Store(t)
    BY <2>2, StepFrame
  <2> QED BY <2>1, <2>2
<1>2. ASSUME NEW u \in env.threads, u # t, MayOpen(u)' PROVE MayOpen(u)
  <2>1. pc'[u] = pc[u] /\ seen'[u] = seen[u]
    BY <1>0, <1>2, StepFrame
  <2> QED BY <1>1, <1>2, <2>1 DEF MayOpen
<1>3. CASE ~Open(t)
  <2>1. opened' = opened
    BY <1>3 DEF Call, Run, Check, Store, Test, Read, Return
  <2>2. MayOpen(t)' => MayOpen(t)
    <3>1. CASE Call(t)
      BY <1>0, <3>1 DEF Call, Goto, At, TypeInv, MayOpen
    <3>2. CASE Check(t)
      BY <1>0, <3>2 DEF Check, Goto, At, TypeInv, MayOpen, MustOpen
    <3>3. CASE Store(t)
      BY <1>0, <1>1, <3>3 DEF Store, Goto, At, TypeInv, MayOpen
    <3>4. CASE Test(t)
      BY <1>0, <3>4 DEF Test, Goto, At, TypeInv, MayOpen
    <3>5. CASE Read(t)
      BY <1>0, <3>5 DEF Read, At, TypeInv, MayOpen
    <3>6. CASE Return(t)
      BY <1>0, <3>6 DEF Return, Goto, At, TypeInv, MayOpen
    <3> QED BY <1>3, <3>1, <3>2, <3>3, <3>4, <3>5, <3>6 DEF Run
  <2>3. Openers' \subseteq Openers
    BY <1>0, <1>2, <2>2 DEF Openers
  <2> QED BY <2>1, <2>3
<1>4. CASE Open(t)
  <2>1. t \in Openers
    BY <1>4 DEF Open, At, Openers, MayOpen
  <2>2. Openers' \subseteq Openers
    BY <1>0, <1>2, <2>1 DEF Openers
  <2>3. CASE opened' = opened
    BY <2>2, <2>3
  <2>4. CASE \E d \in 0..MaxOpen-1 : /\ d \notin opened /\ opened' = opened \cup {d}
                                     /\ seen' = [seen EXCEPT ![t] = d]
    <3>1. seen'[t] # None /\ pc'[t] = "store"
      BY <1>0, <1>4, <2>4 DEF Open, Goto, TypeInv, None
    <3>2. t \notin Openers'
      BY <3>1 DEF Openers, MayOpen
    <3> QED BY <2>1, <2>2, <2>4, <3>2
  <2>5. \/ opened' = opened
        \/ \E d \in 0..MaxOpen-1 : /\ d \notin opened /\ opened' = opened \cup {d}
                                   /\ seen' = [seen EXCEPT ![t] = d]
    BY <1>4 DEF Open
  <2> QED BY <2>3, <2>4, <2>5
<1> QED BY <1>3, <1>4

\* The arithmetic of a loss: every thread may open once more.
LEMMA OnceMore ==
    ASSUME NEW o \in Nat, NEW w \in Nat, NEW w2 \in Nat, NEW n \in Nat, NEW l \in Nat,
           o + w <= n * (1 + l), w2 <= n
    PROVE  o + w2 <= n * (1 + (l + 1))
<1>1. n * (1 + (l + 1)) = n * (1 + l) + n
  OBVIOUS
<1>2. n * (1 + l) \in Nat
  OBVIOUS
<1> QED BY <1>1, <1>2

LEMMA OpenedStep ==
    ASSUME TypeInv, TypeInv', OpenedInv, NEW t \in env.threads, Call(t) \/ Run(t)
    PROVE  OpenedInv'
<1> DEFINE N(S) == Cardinality(S)
<1>1. IsFiniteSet(Openers) /\ IsFiniteSet(opened) /\ IsFiniteSet(env.threads)
  BY FiniteParts, OpenersFinite
<1>2. /\ N(Openers) \in Nat /\ N(opened) \in Nat /\ N(env.threads) \in Nat
      /\ lost \in Nat
  BY <1>1, FS_CardinalityType DEF TypeInv
<1>3. env' = env /\ (lost' = lost \/ (lost' = lost + 1 /\ opened' = opened))
  BY StepFrame DEF Store
<1>4. IsFiniteSet(Openers') /\ IsFiniteSet(opened')
  <2>1. Openers' \subseteq env.threads /\ opened' \subseteq 0..MaxOpen-1
    BY <1>3 DEF Openers, TypeInv
  <2>2. IsFiniteSet(0..MaxOpen-1)
    BY RandomAssumption, FS_Interval
  <2> QED BY <1>1, <2>1, <2>2, FS_Subset
<1>5. N(Openers') \in Nat /\ N(opened') \in Nat /\ N(Openers') <= N(env.threads)
  <2>1. Openers' \subseteq env.threads
    BY <1>3 DEF Openers
  <2> QED BY <1>1, <1>4, <2>1, FS_CardinalityType, FS_Subset
<1>6. N(opened) + N(Openers) <= N(env.threads) * (1 + lost)
  BY DEF OpenedInv
<1>7. CASE lost' = lost
  <2>1. N(opened') + N(Openers') <= N(opened) + N(Openers)
    <3>1. CASE opened' = opened /\ Openers' \subseteq Openers
      <4>1. N(Openers') <= N(Openers)
        BY <1>1, <3>1, FS_Subset
      <4> QED BY <1>2, <1>5, <3>1, <4>1
    <3>2. CASE /\ \E d : d \notin opened /\ opened' = opened \cup {d}
               /\ t \in Openers /\ Openers' \subseteq Openers \ {t}
      <4>1. N(opened') = N(opened) + 1
        BY <1>1, <3>2, FS_AddElement
      <4>2. IsFiniteSet(Openers \ {t}) /\ N(Openers \ {t}) = N(Openers) - 1
        BY <1>1, <3>2, FS_RemoveElement
      <4>3. N(Openers') <= N(Openers \ {t})
        BY <3>2, <4>2, FS_Subset
      <4> QED BY <1>2, <1>5, <4>1, <4>2, <4>3
    <3> QED BY <1>7, <3>1, <3>2, OpenersStep
  <2> HIDE DEF N
  <2>2. N(env.threads) * (1 + lost) \in Nat
    BY <1>2
  <2>3. N(opened') + N(Openers') <= N(env.threads) * (1 + lost)
    BY <1>2, <1>5, <1>6, <2>1, <2>2
  <2> QED BY <1>3, <1>7, <2>3 DEF OpenedInv, N
<1>8. CASE lost' = lost + 1 /\ opened' = opened
  <2> HIDE DEF N
  <2>1. N(opened) + N(Openers') <= N(env.threads) * (1 + (lost + 1))
    BY <1>2, <1>5, <1>6, OnceMore
  <2> QED BY <1>3, <1>8, <2>1 DEF OpenedInv, N
<1> QED BY <1>3, <1>7, <1>8

\* Threads that race for the static fd open the device once each at most, and
\* never again, but for the times a failed open of one of them has put -1 over
\* the descriptor that the others had: each of them may then open once more.
THEOREM OpensAreBounded == Spec => []DescriptorsBounded
<1>1. TypeInv /\ OpenedInv => DescriptorsBounded
  <2> SUFFICES ASSUME TypeInv, OpenedInv PROVE DescriptorsBounded
    OBVIOUS
  <2>1. \A o, w, n, l \in Nat : o + w <= n * (1 + l) => o <= n * (1 + l)
    <3>1. \A n, l \in Nat : n * (1 + l) \in Nat
      OBVIOUS
    <3>2. \A o, w, m \in Nat : o + w <= m => o <= m
      OBVIOUS
    <3> QED BY <3>1, <3>2, Zenon
  <2> QED BY <2>1, OpenersFinite DEF OpenedInv, DescriptorsBounded, TypeInv
<1>2. TypeInv /\ TypeInv' /\ OpenedInv /\ [Next]_vars => OpenedInv'
  <2> SUFFICES ASSUME TypeInv, TypeInv', OpenedInv, [Next]_vars PROVE OpenedInv'
    OBVIOUS
  <2>1. CASE UNCHANGED vars
    BY <2>1 DEF vars, OpenedInv, Openers, MayOpen
  <2>2. CASE Next
    BY <2>2, OpenedStep DEF Next
  <2> QED BY <2>1, <2>2
<1> QED BY <1>1, <1>2, OpenedInit, TypeInvariant, PTL DEF Spec
=============================================================================
