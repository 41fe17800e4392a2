------------------------------ MODULE DmaGate ------------------------------
(***************************************************************************)
(* The read path of the DMA driver wrapper: udma.c, dma_ioctl_read(), and  *)
(* the global gMutexDma it tries to serialise the device with.             *)
(*                                                                         *)
(* Every receive thread calls dma_ioctl_read(); a call makes one or more   *)
(* transfers of DMA_TRANS_SIZE bytes (one "unit" here).  For each unit the *)
(* thread spins while gMutexDma is set, sets it, issues the ioctl and      *)
(* clears it.  The test and the set are two accesses of a plain global, so *)
(* another thread may run between them.                                    *)
(***************************************************************************)
EXTENDS Naturals, FiniteSets

CONSTANTS
  Threads,   (* the threads that read through the gate                     *)
  Lens,      (* the lengths callers ask for, in units of DMA_TRANS_SIZE    *)
  Builds     (* what a build makes of the spin loop: TRUE, it reads the    *)
             (* non-volatile gMutexDma in every round; FALSE, the compiler *)
             (* has hoisted the read out of the empty loop                 *)

ASSUME GateAssumption ==
  /\ Lens \subseteq Nat \ {0}
  /\ Builds \subseteq BOOLEAN /\ Builds # {}

VARIABLES
  gMutexDma, (* the global of that name: 0 or 1                            *)
  pc,        (* where each thread is in dma_ioctl_read()                   *)
  len,       (* the argument len of the call under way                     *)
  bytes,     (* the loop variable bytes: units attempted                   *)
  filled,    (* the units of the destination the device has written        *)
  bytesRead, (* bytes_read, in units                                       *)
  rereads    (* the build that runs                                        *)

vars == <<gMutexDma, pc, len, bytes, filled, bytesRead, rereads>>

Out     == "out"     \* not in dma_ioctl_read()
Test    == "test"    \* about to evaluate while(gMutexDma > 0)
Stuck   == "stuck"   \* in a spin loop that no longer reads gMutexDma
Passed  == "passed"  \* saw gMutexDma = 0, has not set it yet
Inside  == "inside"  \* set gMutexDma, the ioctl is in the driver

Transition(t, from, to) ==
  /\ pc[t] = from
  /\ pc' = [pc EXCEPT ![t] = to]

TypeOK ==
  /\ gMutexDma \in {0, 1}
  /\ pc \in [Threads -> {Out, Test, Stuck, Passed, Inside}]
  /\ len \in [Threads -> Nat]
  /\ bytes \in [Threads -> Nat]
  /\ filled \in [Threads -> SUBSET Nat]
  /\ bytesRead \in [Threads -> Nat]
  /\ rereads \in BOOLEAN

Init ==
  /\ gMutexDma = 0
  /\ pc = [t \in Threads |-> Out]
  /\ len = [t \in Threads |-> 0]
  /\ bytes = [t \in Threads |-> 0]
  /\ filled = [t \in Threads |-> {}]
  /\ bytesRead = [t \in Threads |-> 0]
  /\ rereads \in Builds

(* A receive thread calls dma_ioctl_read(dma_num, fd, pos, n).             *)
Call(t, n) ==
  /\ Transition(t, Out, Test)
  /\ len' = [len EXCEPT ![t] = n]
  /\ bytes' = [bytes EXCEPT ![t] = 0]
  /\ filled' = [filled EXCEPT ![t] = {}]
  /\ bytesRead' = [bytesRead EXCEPT ![t] = 0]
  /\ UNCHANGED <<gMutexDma, rereads>>

(* while(gMutexDma > 0): the gate is free, the thread leaves the loop.     *)
SpinPass(t) ==
  /\ gMutexDma = 0
  /\ Transition(t, Test, Passed)
  /\ UNCHANGED <<gMutexDma, len, bytes, filled, bytesRead, rereads>>

(* while(gMutexDma > 0): the gate is taken, in a build that has hoisted    *)
(* the read.  (In one that has not, the round changes nothing.)            *)
SpinForever(t) ==
  /\ gMutexDma = 1 /\ ~rereads
  /\ Transition(t, Test, Stuck)
  /\ UNCHANGED <<gMutexDma, len, bytes, filled, bytesRead, rereads>>

(* gMutexDma = 1, and the thread enters ioctl(fd, IOCTL_DMA_RD, &offset).  *)
CountHolders(gate) == gate + 1              \* mutant: a count, not a flag
TakenGate(gate)    == 1

Take(t) ==
  /\ Transition(t, Passed, Inside)
  /\ gMutexDma' = TakenGate(gMutexDma)
  /\ UNCHANGED <<len, bytes, filled, bytesRead, rereads>>

(* What the ioctl's return leaves: the gate open whatever it returned, and *)
(* a unit counted only when the whole of it was transferred.               *)
LeftOnSuccess(gate, ok) == IF ok THEN 0 ELSE gate   \* mutant: early exit
LeftGate(gate, ok)      == 0
CountAttempts(ok)       == 1                \* mutant: counts failures too
CountedUnits(ok)        == IF ok THEN 1 ELSE 0

(* The ioctl returns, DMA_TRANS_SIZE (ok) or anything else; gMutexDma = 0; *)
(* the for loop goes on to the next unit or the call returns.              *)
Release(t, ok) ==
  /\ Transition(t, Inside, IF bytes[t] + 1 < len[t] THEN Test ELSE Out)
  /\ gMutexDma' = LeftGate(gMutexDma, ok)
  /\ bytes' = [bytes EXCEPT ![t] = @ + 1]
  /\ filled' = IF ok THEN [filled EXCEPT ![t] = @ \union {bytes[t]}] ELSE filled
  /\ bytesRead' = [bytesRead EXCEPT ![t] = @ + CountedUnits(ok)]
  /\ UNCHANGED <<len, rereads>>

Step(t) ==
  \/ SpinPass(t)
  \/ SpinForever(t)
  \/ Take(t)
  \/ \E ok \in BOOLEAN : Release(t, ok)

Next == \E t \in Threads : Step(t) \/ \E n \in Lens : Call(t, n)

(* A thread inside dma_ioctl_read() keeps running: the scheduler gives     *)
(* each runnable thread time and the driver's ioctl returns.  Nobody has   *)
(* to call again.                                                          *)
Spec == Init /\ [][Next]_vars /\ \A t \in Threads : WF_vars(Step(t))

-----------------------------------------------------------------------------

(* The gate never stays shut behind a thread that has left: whenever       *)
(* gMutexDma is set some thread is still in the ioctl and will clear it.   *)
(* This holds although the gate is not exclusive, because an overlapping   *)
(* leaver clears the flag early and never late.                            *)
NeverShutBehind ==
  gMutexDma = 1 => \E t \in Threads : pc[t] = Inside

(* What a caller relies on: it advances its buffer position by the value   *)
(* returned.  That counts the units the device has written, all of them in *)
(* the part asked for; they are the first ones of it after a call for one  *)
(* unit, the only ones the receive threads make, and after a call that got *)
(* all it asked for.  (An ioctl that fails in a longer call leaves a hole.)*)
ReturnsPrefix ==
  \A t \in Threads : pc[t] = Out =>
    /\ filled[t] \subseteq 0 .. (len[t] - 1) /\ Cardinality(filled[t]) = bytesRead[t]
    /\ len[t] = 1 \/ bytesRead[t] = len[t] => filled[t] = 0 .. (bytesRead[t] - 1)

(* A thread that waits at the gate gets through and returns once the other *)
(* threads no longer come back: no lost release can lock it out.  Only of  *)
(* a build whose spin loop rereads the flag.                               *)
NotLockedOut ==
  \A t \in Threads :
    (rereads /\ <>[](\A u \in Threads \ {t} : pc[u] = Out))
      => (pc[t] = Test ~> pc[t] = Out)
=============================================================================
