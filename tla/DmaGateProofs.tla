--------------------------- MODULE DmaGateProofs ---------------------------
(* Theorems about DmaGate for every set of threads, every set of lengths   *)
(* and either build of the spin loop.                                      *)
EXTENDS DmaGate, FiniteSetTheorems, TLAPS

(* Every variable of the gate keeps its type, whatever the threads do.     *)
THEOREM TypeCorrect == Spec => []TypeOK
<1>1. Init => TypeOK
  BY GateAssumption DEF Init, TypeOK, Out
<1>2. TypeOK /\ [Next]_vars => TypeOK'
  <2> SUFFICES ASSUME TypeOK, [Next]_vars PROVE TypeOK'
    OBVIOUS
  <2> USE DEF TypeOK, Transition, Out, Test, Stuck, Passed, Inside
  <2>1. ASSUME NEW t \in Threads, NEW n \in Lens, Call(t, n) PROVE TypeOK'
    BY <2>1, GateAssumption DEF Call
  <2>2. ASSUME NEW t \in Threads, SpinPass(t) PROVE TypeOK'
    BY <2>2 DEF SpinPass
  <2>3. ASSUME NEW t \in Threads, SpinForever(t) PROVE TypeOK'
    BY <2>3 DEF SpinForever
  <2>4. ASSUME NEW t \in Threads, Take(t) PROVE TypeOK'
    BY <2>4 DEF Take, TakenGate
  <2>5. ASSUME NEW t \in Threads, NEW ok \in BOOLEAN, Release(t, ok)
        PROVE TypeOK'
    BY <2>5 DEF Release, LeftGate, CountedUnits
  <2>6. CASE UNCHANGED vars
    BY <2>6 DEF vars
  <2> QED BY <2>1, <2>2, <2>3, <2>4, <2>5, <2>6 DEF Next, Step
<1> QED BY <1>1, <1>2, PTL DEF Spec

(* A set gMutexDma always has a thread inside that is going to clear it,   *)
(* although the test and the set of the gate are not atomic and several    *)
(* threads may be inside at once: no thread is ever shut out for good.     *)
THEOREM GateOpens == Spec => []NeverShutBehind
<1>1. Init => NeverShutBehind
  BY DEF Init, NeverShutBehind
<1>2. TypeOK /\ NeverShutBehind /\ [Next]_vars => NeverShutBehind'
  <2> SUFFICES ASSUME TypeOK, NeverShutBehind, [Next]_vars
               PROVE NeverShutBehind'
    OBVIOUS
  <2> USE DEF NeverShutBehind
  <2>1. ASSUME NEW t \in Threads, pc[t] # Inside, NEW s,
               pc' = [pc EXCEPT ![t] = s], UNCHANGED gMutexDma
        PROVE NeverShutBehind'
    BY <2>1 DEF TypeOK
  <2>2. ASSUME NEW t \in Threads, NEW n \in Lens, Call(t, n)
        PROVE NeverShutBehind'
    BY <2>1, <2>2 DEF Call, Transition, Out, Inside
  <2>3. ASSUME NEW t \in Threads, SpinPass(t) \/ SpinForever(t)
        PROVE NeverShutBehind'
    BY <2>1, <2>3 DEF SpinPass, SpinForever, Transition, Test, Inside
  <2>4. ASSUME NEW t \in Threads, Take(t) PROVE NeverShutBehind'
    BY <2>4 DEF Take, Transition, TypeOK
  <2>5. ASSUME NEW t \in Threads, NEW ok \in BOOLEAN, Release(t, ok)
        PROVE NeverShutBehind'
    BY <2>5 DEF Release, LeftGate
  <2>6. CASE UNCHANGED vars
    BY <2>6 DEF vars
  <2> QED BY <2>2, <2>3, <2>4, <2>5, <2>6 DEF Next, Step
<1> QED BY <1>1, <1>2, TypeCorrect, PTL DEF Spec

-----------------------------------------------------------------------------

(* What ReturnsPrefix needs to be inductive: during a call the units       *)
(* written are among those attempted, and bytes_read counts them.          *)
CallInv(t) ==
  /\ filled[t] \subseteq 0 .. (bytes[t] - 1)
  /\ IsFiniteSet(filled[t]) /\ Cardinality(filled[t]) = bytesRead[t]
  /\ IF pc[t] = Out THEN bytes[t] = len[t] ELSE bytes[t] < len[t]

PrefixInv == \A t \in Threads : CallInv(t)

(* Every step keeps it, of the thread that takes it and of the others.     *)
LEMMA PrefixStep ==
  ASSUME TypeOK, PrefixInv, [Next]_vars, NEW u \in Threads
  PROVE  CallInv(u)'
<1> USE DEF Transition, Out, Test, Stuck, Passed, Inside
<1>0. CallInv(u)
  BY DEF PrefixInv
<1>1. ASSUME UNCHANGED <<len, bytes, filled, bytesRead>>, pc'[u] = Out <=> pc[u] = Out
      PROVE  CallInv(u)'
  BY <1>0, <1>1 DEF CallInv
<1>2. ASSUME NEW t \in Threads, NEW n \in Lens, Call(t, n) PROVE CallInv(u)'
  <2>1. CASE t # u
    BY <1>0, <1>2, <2>1 DEF Call, CallInv, TypeOK
  <2>2. CASE t = u
    <3>1. /\ filled'[u] = {} /\ bytes'[u] = 0 /\ bytesRead'[u] = 0
          /\ len'[u] = n /\ pc'[u] = Test
      BY <1>2, <2>2 DEF Call, TypeOK
    <3>2. n \in Nat /\ n > 0
      BY GateAssumption
    <3> QED BY <3>1, <3>2, FS_EmptySet DEF CallInv
  <2> QED BY <2>1, <2>2
<1>3. ASSUME NEW t \in Threads, SpinPass(t) \/ SpinForever(t) \/ Take(t) PROVE CallInv(u)'
  BY <1>1, <1>3 DEF SpinPass, SpinForever, Take, TypeOK
<1>4. ASSUME NEW t \in Threads, NEW ok \in BOOLEAN, Release(t, ok) PROVE CallInv(u)'
  <2>1. CASE t # u
    BY <1>0, <1>4, <2>1 DEF Release, CallInv, TypeOK
  <2>2. CASE t = u
    <3>1. /\ bytes'[u] = bytes[u] + 1 /\ len'[u] = len[u] /\ pc[u] = Inside
          /\ pc'[u] = IF bytes[u] + 1 < len[u] THEN Test ELSE Out
      BY <1>4, <2>2 DEF Release, TypeOK
    <3>2. bytes[u] \in Nat /\ len[u] \in Nat /\ bytesRead[u] \in Nat
      BY DEF TypeOK
    <3>3. bytes[u] < len[u]
      BY <1>0, <3>1 DEF CallInv
    <3>4. IF pc'[u] = Out THEN bytes'[u] = len'[u] ELSE bytes'[u] < len'[u]
      BY <3>1, <3>2, <3>3
    <3>5. CASE ok
      <4>1. filled'[u] = filled[u] \union {bytes[u]} /\ bytesRead'[u] = bytesRead[u] + 1
        BY <1>4, <2>2, <3>5 DEF Release, CountedUnits, TypeOK
      <4>2. /\ filled[u] \subseteq 0 .. (bytes[u] - 1) /\ bytes[u] \notin filled[u]
            /\ IsFiniteSet(filled[u]) /\ Cardinality(filled[u]) = bytesRead[u]
        BY <1>0, <3>2 DEF CallInv
      <4>3. /\ IsFiniteSet(filled[u] \union {bytes[u]})
            /\ Cardinality(filled[u] \union {bytes[u]}) = bytesRead[u] + 1
        BY <4>2, FS_AddElement
      <4>4. filled'[u] \subseteq 0 .. (bytes'[u] - 1)
        BY <3>1, <3>2, <4>1, <4>2
      <4> QED BY <3>4, <4>1, <4>3, <4>4 DEF CallInv
    <3>6. CASE ~ok
      <4>1. filled'[u] = filled[u] /\ bytesRead'[u] = bytesRead[u]
        BY <1>4, <2>2, <3>6 DEF Release, CountedUnits, TypeOK
      <4>2. filled'[u] \subseteq 0 .. (bytes'[u] - 1)
        BY <1>0, <3>1, <3>2, <4>1 DEF CallInv
      <4> QED BY <1>0, <3>4, <4>1, <4>2 DEF CallInv
    <3> QED BY <3>5, <3>6
  <2> QED BY <2>1, <2>2
<1>5. CASE UNCHANGED vars
  BY <1>1, <1>5 DEF vars
<1> QED BY <1>2, <1>3, <1>4, <1>5 DEF Next, Step

(* A subset of the first n numbers that has n members is all of them.      *)
LEMMA AllOfThem ==
  ASSUME NEW n \in Nat, NEW S \in SUBSET (0 .. (n - 1)), Cardinality(S) = n
  PROVE  S = 0 .. (n - 1)
<1>1. IsFiniteSet(0 .. (n - 1)) /\ Cardinality(0 .. (n - 1)) = n
  <2> DEFINE m == n - 1
  <2>1. 0 \in Int /\ m \in Int /\ (IF 0 > m THEN 0 ELSE m - 0 + 1) = n
    OBVIOUS
  <2> HIDE DEF m
  <2>2. IsFiniteSet(0 .. m) /\ Cardinality(0 .. m) = IF 0 > m THEN 0 ELSE m - 0 + 1
    BY Zenon, <2>1, FS_Interval
  <2>3. Cardinality(0 .. m) = n
    BY Zenon, <2>1, <2>2
  <2> QED BY <2>2, <2>3 DEF m
<1> QED BY <1>1, FS_Subset

(* The value dma_ioctl_read() returns counts what has been written, all of *)
(* it in the part asked for, and is how far the buffer has been filled     *)
(* after a call for one unit or a full one: for calls of every length,     *)
(* whether or not ioctls failed, and however the calls overlap.            *)
THEOREM ReturnedLengthIsPrefix == Spec => []ReturnsPrefix
<1>1. Init => PrefixInv
  BY FS_EmptySet DEF Init, PrefixInv, CallInv, Out
<1>2. TypeOK /\ PrefixInv /\ [Next]_vars => PrefixInv'
  BY PrefixStep DEF PrefixInv
<1>3. TypeOK /\ PrefixInv => ReturnsPrefix
  <2> SUFFICES ASSUME TypeOK, PrefixInv, NEW t \in Threads, pc[t] = Out
               PROVE  /\ filled[t] \subseteq 0 .. (len[t] - 1)
                      /\ Cardinality(filled[t]) = bytesRead[t]
                      /\ len[t] = 1 \/ bytesRead[t] = len[t]
                           => filled[t] = 0 .. (bytesRead[t] - 1)
    BY DEF ReturnsPrefix
  <2>1. /\ filled[t] \in SUBSET (0 .. (len[t] - 1)) /\ Cardinality(filled[t]) = bytesRead[t]
        /\ IsFiniteSet(filled[t]) /\ len[t] \in Nat
    BY DEF PrefixInv, CallInv, TypeOK
  <2>2. bytesRead[t] = len[t] => filled[t] = 0 .. (bytesRead[t] - 1)
    BY <2>1, AllOfThem
  <2>3. CASE len[t] = 1 /\ filled[t] = {}
    <3>1. bytesRead[t] = 0 /\ 0 .. (0 - 1) = {}
      BY <2>1, <2>3, FS_EmptySet
    <3> QED BY <2>1, <2>3, <3>1
  <2>4. CASE len[t] = 1 /\ filled[t] # {}
    <3>1. filled[t] = {0} /\ 0 .. (1 - 1) = {0}
      BY <2>1, <2>4
    <3>2. bytesRead[t] = 1
      BY <2>1, <3>1, FS_Singleton
    <3> QED BY <2>1, <3>1, <3>2
  <2> QED BY <2>1, <2>2, <2>3, <2>4
<1> QED BY <1>1, <1>2, <1>3, TypeCorrect, PTL DEF Spec
=============================================================================
