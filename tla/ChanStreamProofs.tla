-------------------------- MODULE ChanStreamProofs --------------------------
(***************************************************************************)
(* Proofs about ChanStream for either channel, blocks of any length and    *)
(* any number of units and failing writes: no unit is stored twice or out  *)
(* of order, and the thread implements SliceFile.                          *)
(*                                                                         *)
(* The order of what is stored is not inductive: a buffered unit is stored *)
(* later, behind what the file has by then.  OrderInv therefore speaks of  *)
(* the receive memory as well.  PlaceInv says which files can be open, and *)
(* what length is good for, at each place of the thread.                   *)
(***************************************************************************)
EXTENDS ChanStream, SequenceTheorems, TLAPS

Memory == [0 .. Block - 1 -> Nat]

-----------------------------------------------------------------------------
(* Sequences: what is written of the receive memory.                       *)

(* The first n units, as a sequence.                                       *)
LEMMA UnitsType ==
  ASSUME NEW mem \in Memory, NEW n \in 0 .. Block
  PROVE  /\ Units(mem, n) \in Seq(Nat) /\ Len(Units(mem, n)) = n
         /\ \A i \in 1 .. n : Units(mem, n)[i] = mem[i - 1]
<1>1. n \in Nat
  BY StreamAssumption
<1>2. \A i \in 1 .. n : mem[i - 1] \in Nat
  <2> SUFFICES ASSUME NEW i \in 1 .. n PROVE mem[i - 1] \in Nat
    OBVIOUS
  <2>1. i - 1 \in 0 .. Block - 1
    BY StreamAssumption
  <2> QED BY <2>1 DEF Memory
<1> QED BY <1>1, <1>2 DEF Units

(* A sequence with units behind it.                                        *)
LEMMA Behind ==
  ASSUME NEW s \in Seq(Nat), NEW mem \in Memory, NEW n \in 0 .. Block
  PROVE  /\ s \o Units(mem, n) \in Seq(Nat) /\ Len(s \o Units(mem, n)) = Len(s) + n
         /\ \A i \in 1 .. Len(s) : (s \o Units(mem, n))[i] = s[i]
         /\ \A i \in 1 .. n : (s \o Units(mem, n))[Len(s) + i] = mem[i - 1]
<1> DEFINE u == Units(mem, n)
<1>1. u \in Seq(Nat) /\ Len(u) = n /\ \A i \in 1 .. n : u[i] = mem[i - 1]
  BY UnitsType
<1>2. n \in Nat /\ Len(s) \in Nat
  BY StreamAssumption
<1> HIDE DEF u
<1>3. /\ s \o u \in Seq(Nat) /\ Len(s \o u) = Len(s) + n
      /\ \A i \in 1 .. Len(s) + n : (s \o u)[i] = IF i <= Len(s) THEN s[i] ELSE u[i - Len(s)]
  BY <1>1, <1>2, ConcatProperties
<1>4. /\ \A i \in 1 .. Len(s) : (s \o u)[i] = s[i]
      /\ \A i \in 1 .. n : (s \o u)[Len(s) + i] = u[i]
  BY <1>2, <1>3
<1> QED BY <1>1, <1>3, <1>4 DEF u

(* Nothing behind it.                                                      *)
LEMMA BehindNothing ==
  ASSUME NEW s \in Seq(Nat), NEW mem \in Memory
  PROVE  s \o Units(mem, 0) = s
<1>1. 0 \in 0 .. Block
  BY StreamAssumption
<1>2. /\ s \o Units(mem, 0) \in Seq(Nat) /\ Len(s \o Units(mem, 0)) = Len(s)
      /\ \A i \in 1 .. Len(s) : (s \o Units(mem, 0))[i] = s[i]
  BY <1>1, Behind
<1> QED BY <1>2, SeqEqual

(* One more unit is a unit appended.                                       *)
LEMMA BehindOneMore ==
  ASSUME NEW s \in Seq(Nat), NEW mem \in Memory, NEW n \in 0 .. Block - 1, NEW x \in Nat
  PROVE  s \o Units([mem EXCEPT ![n] = x], n + 1) = Append(s \o Units(mem, n), x)
<1> DEFINE more == [mem EXCEPT ![n] = x]
           a == s \o Units(more, n + 1)
           b == s \o Units(mem, n)
<1>1. more \in Memory /\ n \in 0 .. Block /\ n + 1 \in 0 .. Block /\ n \in Nat /\ Len(s) \in Nat
  BY StreamAssumption DEF Memory
<1>2. /\ a \in Seq(Nat) /\ Len(a) = Len(s) + (n + 1)
      /\ \A i \in 1 .. Len(s) : a[i] = s[i]
      /\ \A i \in 1 .. n + 1 : a[Len(s) + i] = more[i - 1]
  BY <1>1, Behind
<1>3. /\ b \in Seq(Nat) /\ Len(b) = Len(s) + n
      /\ \A i \in 1 .. Len(s) : b[i] = s[i]
      /\ \A i \in 1 .. n : b[Len(s) + i] = mem[i - 1]
  BY <1>1, Behind
<1>4. \A i \in 1 .. n + 1 : more[i - 1] = IF i = n + 1 THEN x ELSE mem[i - 1]
  BY <1>1 DEF Memory
<1> HIDE DEF more, a, b
<1>5. /\ Append(b, x) \in Seq(Nat) /\ Len(Append(b, x)) = Len(s) + (n + 1)
      /\ \A i \in 1 .. Len(s) + n : Append(b, x)[i] = b[i]
      /\ Append(b, x)[Len(s) + n + 1] = x
  BY <1>1, <1>3
<1>6. ASSUME NEW i \in 1 .. Len(s) + (n + 1) PROVE a[i] = Append(b, x)[i]
  <2>1. CASE i \in 1 .. Len(s)
    BY <1>1, <1>2, <1>3, <1>5, <2>1
  <2>2. CASE i \notin 1 .. Len(s)
    <3>1. PICK k \in 1 .. n + 1 : i = Len(s) + k
      <4>1. i - Len(s) \in 1 .. n + 1 /\ i = Len(s) + (i - Len(s))
        BY <1>1, <2>2
      <4> QED BY <4>1
    <3>2. a[i] = IF k = n + 1 THEN x ELSE mem[k - 1]
      BY <1>2, <1>4, <3>1
    <3>3. Append(b, x)[i] = IF k = n + 1 THEN x ELSE mem[k - 1]
      BY <1>1, <1>3, <1>5, <3>1
    <3> QED BY <3>2, <3>3
  <2> QED BY <2>1, <2>2
<1>7. a = Append(b, x)
  BY <1>2, <1>5, <1>6, SeqEqual
<1> QED BY <1>7 DEF a, b, more

(* ftruncate(): the sequence itself again.                                 *)
LEMMA TakenAway ==
  ASSUME NEW s \in Seq(Nat), NEW mem \in Memory, NEW n \in 0 .. Block
  PROVE  SubSeq(s \o Units(mem, n), 1, Len(s)) = s
<1> DEFINE a == s \o Units(mem, n)
<1>1. a \in Seq(Nat) /\ Len(a) = Len(s) + n /\ \A i \in 1 .. Len(s) : a[i] = s[i]
  BY Behind
<1>2. Len(s) \in Nat /\ n \in Nat
  BY StreamAssumption
<1> HIDE DEF a
<1>3. /\ SubSeq(a, 1, Len(s)) \in Seq(Nat) /\ Len(SubSeq(a, 1, Len(s))) = Len(s)
      /\ \A i \in 1 .. Len(s) : SubSeq(a, 1, Len(s))[i] = a[i]
  BY <1>1, <1>2
<1>4. SubSeq(a, 1, Len(s)) = s
  BY <1>1, <1>3, SeqEqual
<1> QED BY <1>4 DEF a

(* Units in order behind a sequence in order.                              *)
LEMMA BehindIncreasing ==
  ASSUME NEW s \in Seq(Nat), NEW mem \in Memory, NEW n \in 0 .. Block,
         Increasing(s),
         \A i, j \in 0 .. n - 1 : i < j => mem[i] < mem[j],
         \A i \in 1 .. Len(s), j \in 0 .. n - 1 : s[i] < mem[j]
  PROVE  Increasing(s \o Units(mem, n))
<1> DEFINE a == s \o Units(mem, n)
<1>1. /\ a \in Seq(Nat) /\ Len(a) = Len(s) + n
      /\ \A i \in 1 .. Len(s) : a[i] = s[i]
      /\ \A i \in 1 .. n : a[Len(s) + i] = mem[i - 1]
  BY Behind
<1>2. Len(s) \in Nat /\ n \in Nat
  BY StreamAssumption
<1> HIDE DEF a
<1>3. ASSUME NEW i \in 1 .. Len(a), NEW j \in 1 .. Len(a), i < j PROVE a[i] < a[j]
  <2>1. CASE j \in 1 .. Len(s)
    <3>1. i \in 1 .. Len(s)
      BY <1>1, <1>2, <1>3, <2>1
    <3>2. a[i] = s[i] /\ a[j] = s[j]
      BY <1>1, <2>1, <3>1
    <3>3. s[i] < s[j]
      BY <1>3, <2>1, <3>1 DEF Increasing
    <3> QED BY <3>2, <3>3
  <2>2. CASE j \notin 1 .. Len(s)
    <3>1. PICK l \in 1 .. n : j = Len(s) + l
      <4>1. j - Len(s) \in 1 .. n /\ j = Len(s) + (j - Len(s))
        BY <1>1, <1>2, <2>2
      <4> QED BY <4>1
    <3>2. a[j] = mem[l - 1] /\ l - 1 \in 0 .. n - 1
      BY <1>1, <1>2, <3>1
    <3>3. CASE i \in 1 .. Len(s)
      BY <1>1, <3>2, <3>3
    <3>4. CASE i \notin 1 .. Len(s)
      <4>1. PICK k \in 1 .. n : i = Len(s) + k
        <5>1. i - Len(s) \in 1 .. n /\ i = Len(s) + (i - Len(s))
          BY <1>1, <1>2, <3>4
        <5> QED BY <5>1
      <4>2. a[i] = mem[k - 1] /\ k - 1 \in 0 .. n - 1 /\ k - 1 < l - 1
        BY <1>1, <1>2, <1>3, <3>1, <4>1
      <4> QED BY <3>2, <4>2
    <3> QED BY <3>3, <3>4
  <2> QED BY <2>1, <2>2
<1>4. Increasing(a)
  BY <1>3 DEF Increasing
<1> QED BY <1>4 DEF a

-----------------------------------------------------------------------------
(* The places of the thread.  Only an open file has content; chan0 has no  *)
(* file and an empty buffer before its new file and while it is parked.    *)
PlaceInv ==
  /\ ~isOpen => file = <<>>
  /\ pc # "loop" => chan = 1
  /\ pc = "padding" => length = Len(file)
  /\ pc = "truncating" => length <= Len(file)
  /\ pc = "naming" => ~isOpen
  /\ chan = 0 /\ (alt = 1 \/ stored = 1) => ~isOpen /\ pos = 0

(* Everything stored or buffered has been drained, in order; what is       *)
(* buffered, unless a cut has just stored it, comes behind the file.       *)
OrderInv ==
  /\ Increasing(Kept) /\ \A i \in 1 .. Len(Kept) : Kept[i] < next
  /\ \A i \in 0 .. pos - 1 : rxmem[i] < next
  /\ \A i, j \in 0 .. pos - 1 : i < j => rxmem[i] < rxmem[j]
  /\ pc = "loop" => \A i \in 1 .. Len(file), j \in 0 .. pos - 1 : file[i] < rxmem[j]
  /\ Increasing(last)

IInv == TypeOK /\ PlaceInv /\ OrderInv

(* The file after a write.                                                 *)
LEMMA WrittenType ==
  ASSUME TypeOK, NEW mem \in Memory, NEW n \in 0 .. Block, NEW ok \in BOOLEAN
  PROVE  /\ Written(mem, n, ok) \in Seq(Nat)
         /\ Written(mem, n, ok) = IF ok THEN file \o Units(mem, n) ELSE file
BY Behind DEF TypeOK, Written

(* The receive memory after a transfer.                                    *)
LEMMA TransferType ==
  ASSUME TypeOK, NEW dma \in BOOLEAN
  PROVE  (IF dma THEN [rxmem EXCEPT ![pos] = next] ELSE rxmem) \in Memory
BY StreamAssumption DEF TypeOK, Memory

(* A receive keeps the types: read_bytes stays below a block.              *)
LEMMA ReceiveType ==
  ASSUME TypeOK, NEW dma \in BOOLEAN, NEW ok \in BOOLEAN, Receive(dma, ok)
  PROVE  TypeOK'
<1>1. rxmem' \in Memory
  BY TransferType DEF Receive
<1>2. Returned(dma) \in {0, 1} /\ next' \in Nat
  BY DEF Returned, Receive, TypeOK
<1>3. CASE Full(pos + Returned(dma))
  <2>1. lost' \in Nat
    BY <1>3 DEF Receive, Outcome, TypeOK
  <2>2. file' \in Seq(Nat)
    <3>1. Block \in 0 .. Block
      BY StreamAssumption
    <3>2. file' = Written(rxmem', Block, ok)
      BY <1>3 DEF Receive
    <3> QED BY <1>1, <3>1, <3>2, WrittenType
  <2>3. pos' = 0 /\ 0 \in 0 .. Block - 1
    BY <1>3, StreamAssumption DEF Receive
  <2> QED BY <1>1, <1>2, <2>1, <2>2, <2>3 DEF Receive, TypeOK, Memory, flags
<1>4. CASE ~Full(pos + Returned(dma))
  <2>1. pos' \in 0 .. Block - 1 /\ UNCHANGED <<file, lost>>
    BY <1>2, <1>4, StreamAssumption DEF Receive, Full, TypeOK
  <2> QED BY <1>1, <1>2, <2>1 DEF Receive, TypeOK, Memory, flags
<1> QED BY <1>3, <1>4

(* So do the steps that open, write and close files.                       *)
LEMMA FilesType ==
  ASSUME TypeOK, PlaceInv, Files
  PROVE  TypeOK'
<1>0. /\ <<>> \in Seq(Nat) /\ 0 \in 0 .. Block - 1 /\ pos \in 0 .. Block /\ Block \in 0 .. Block
      /\ rxmem \in Memory
  BY StreamAssumption DEF TypeOK, Memory
<1> USE DEF buffer, flags
<1>1. ASSUME NEW ok \in BOOLEAN, NewFile(ok) PROVE TypeOK'
  BY <1>0, <1>1 DEF NewFile, TypeOK
<1>2. ASSUME NEW ok \in BOOLEAN, Cut0(ok) PROVE TypeOK'
  <2>1. Written(rxmem, pos, ok) \in Seq(Nat)
    BY <1>0, WrittenType
  <2>2. file' \in Seq(Nat) /\ last' \in Seq(Nat) /\ lost' \in Nat
    BY <1>0, <1>2, <2>1 DEF Cut0, Closed, Outcome, TypeOK
  <2> QED BY <1>0, <1>2, <2>2 DEF Cut0, Closed, TypeOK
<1>3. ASSUME NEW ok \in BOOLEAN, Cut1(ok) PROVE TypeOK'
  <2>1. file' \in Seq(Nat) /\ lost' \in Nat
    BY <1>0, <1>3, WrittenType DEF Cut1, Outcome, TypeOK
  <2>2. length' \in Nat
    BY <1>3, <2>1 DEF Cut1
  <2> QED BY <1>3, <2>1, <2>2 DEF Cut1, TypeOK
<1>4. ASSUME NEW ok \in BOOLEAN, Pad(ok) PROVE TypeOK'
  <2>1. file' \in Seq(Nat)
    BY <1>0, <1>4, Behind DEF Pad, TypeOK
  <2> QED BY <1>4, <2>1 DEF Pad, TypeOK
<1>5. ASSUME NEW ok \in BOOLEAN, NextFile(ok) PROVE TypeOK'
  BY <1>0, <1>5 DEF NextFile, TypeOK
<1>6. CASE Truncate
  <2>1. last' \in Seq(Nat)
    <3>1. length \in 0 .. Len(file) /\ file \in Seq(Nat)
      BY <1>6 DEF Truncate, TypeOK, PlaceInv
    <3>2. Truncated \in Seq(Nat)
      BY <3>1, SubSeqProperties DEF Truncated
    <3> QED BY <1>6, <3>2 DEF Truncate, Closed, TypeOK
  <2> QED BY <1>0, <1>6, <2>1 DEF Truncate, Closed, TypeOK
<1> QED BY <1>1, <1>2, <1>3, <1>4, <1>5, <1>6 DEF Files

(* So do commands and the control loop.                                    *)
LEMMA CommandsType ==
  ASSUME TypeOK, Commands
  PROVE  TypeOK'
<1>0. <<>> \in Seq(Nat) /\ 0 \in 0 .. Block - 1
  BY StreamAssumption
<1> USE DEF buffer, disk, flags, Closed, Removed
<1>1. ASSUME NEW ok \in BOOLEAN, Start(ok) PROVE TypeOK'
  BY <1>0, <1>1 DEF Start, TypeOK
<1>2. ASSUME NEW zero \in BOOLEAN, Stop0(zero) PROVE TypeOK'
  BY <1>0, <1>2 DEF Stop0, TypeOK
<1>3. CASE Stop1
  BY <1>0, <1>3 DEF Stop1, TypeOK
<1>4. CASE SetSlice \/ Arm
  BY <1>4 DEF SetSlice, Arm, TypeOK
<1> QED BY <1>1, <1>2, <1>3, <1>4 DEF Commands

(* What can be open is kept as well.                                       *)
LEMMA PlaceStep ==
  ASSUME TypeOK, PlaceInv, [Next]_vars
  PROVE  PlaceInv'
<1> USE DEF buffer, disk, flags, TypeOK, PlaceInv
<1>1. ASSUME NEW dma \in BOOLEAN, NEW ok \in BOOLEAN, Receive(dma, ok) PROVE PlaceInv'
  <2>1. ~isOpen => file' = file
    <3>1. CASE Full(pos + Returned(dma))
      BY <1>1, <3>1, StreamAssumption DEF Receive, Outcome, Written
    <3>2. CASE ~Full(pos + Returned(dma))
      BY <1>1, <3>2 DEF Receive
    <3> QED BY <3>1, <3>2
  <2>2. chan = 0 => alt = 0 /\ stored = 0
    BY <1>1 DEF Receive, Drains
  <2> QED BY <1>1, <2>1, <2>2 DEF Receive
<1>2. ASSUME NEW ok \in BOOLEAN, NewFile(ok) \/ Cut0(ok) \/ NextFile(ok) PROVE PlaceInv'
  BY <1>2 DEF NewFile, Cut0, NextFile, Closed
<1>3. ASSUME NEW ok \in BOOLEAN, Cut1(ok) PROVE PlaceInv'
  <2>1. ~isOpen => file' = file
    <3>1. ~isOpen /\ ok => pos = 0 /\ rxmem \in Memory
      BY <1>3 DEF Cut1, Outcome, Memory
    <3> QED BY <1>3, <3>1, BehindNothing DEF Cut1, Written
  <2> QED BY <1>3, <2>1 DEF Cut1
<1>4. ASSUME NEW ok \in BOOLEAN, Pad(ok) PROVE PlaceInv'
  <2>1. Len(file) <= Len(file')
    <3>1. Block \in 0 .. Block /\ rxmem \in Memory
      BY StreamAssumption DEF Memory
    <3>2. file \in Seq(Nat) /\ Len(file) \in Nat
      OBVIOUS
    <3>3. Len(file \o Units(rxmem, Block)) = Len(file) + Block
      BY <3>1, <3>2, Behind
    <3> QED BY <1>4, <3>2, <3>3, StreamAssumption DEF Pad
  <2> QED BY <1>4, <2>1 DEF Pad
<1>5. CASE Truncate
  BY <1>5 DEF Truncate, Closed
<1>6. ASSUME NEW ok \in BOOLEAN, Start(ok) \/ Stop0(ok) PROVE PlaceInv'
  BY <1>6 DEF Start, Stop0, Closed, Removed
<1>7. CASE Stop1 \/ SetSlice \/ Arm
  BY <1>7 DEF Stop1, SetSlice, Arm, Closed
<1>8. CASE UNCHANGED vars
  BY <1>8 DEF vars
<1> QED BY <1>1, <1>2, <1>3, <1>4, <1>5, <1>6, <1>7, <1>8 DEF Next, Files, Commands

(* Types and places hold throughout.                                       *)
LEMMA PlacesHold == Spec => [](TypeOK /\ PlaceInv)
<1>1. Init => TypeOK
  <2> SUFFICES ASSUME Init PROVE TypeOK
    OBVIOUS
  <2>1. rxmem = [i \in 0 .. Block - 1 |-> 0] /\ rxmem \in [0 .. Block - 1 -> Nat]
    BY DEF Init
  <2>2. pos = 0 /\ pos \in 0 .. Block - 1
    BY StreamAssumption DEF Init
  <2>3. isOpen \in BOOLEAN
    BY Zenon DEF Init
  <2>5. file = <<>> /\ last = <<>> /\ <<>> \in Seq(Nat)
    BY DEF Init
  <2>4. next \in Nat /\ lost \in Nat /\ length \in Nat /\ chan \in Channels
    BY DEF Init
  <2> QED BY <2>1, <2>2, <2>3, <2>4, <2>5 DEF Init, TypeOK
<1>2. Init => PlaceInv
  BY DEF Init, PlaceInv
<1>3. TypeOK /\ PlaceInv /\ [Next]_vars => TypeOK'
  <2>1. TypeOK /\ UNCHANGED vars => TypeOK'
    BY DEF TypeOK, vars, buffer, disk, flags
  <2> QED BY <2>1, ReceiveType, FilesType, CommandsType DEF Next
<1> QED BY <1>1, <1>2, <1>3, PlaceStep, PTL DEF Spec

(* Every variable keeps its type; in particular a transfer never starts at *)
(* or past the end of a block, although read_bytes is compared with ==.    *)
THEOREM TypeCorrect == Spec => []TypeOK
BY PlacesHold, PTL

-----------------------------------------------------------------------------
(* mem, as far as n, holds units in order, drained before b and after      *)
(* those of the file.                                                      *)
Ready(mem, n, b) ==
  /\ \A i \in 0 .. n - 1 : mem[i] < b
  /\ \A i, j \in 0 .. n - 1 : i < j => mem[i] < mem[j]
  /\ \A i \in 1 .. Len(file), j \in 0 .. n - 1 : file[i] < mem[j]

Below(s, b) == \A i \in 1 .. Len(s) : s[i] < b

(* A write, whether it fails or not, keeps the order.                      *)
LEMMA WriteOrder ==
  ASSUME NEW mem \in Memory, NEW n \in 0 .. Block, NEW b \in Nat, NEW ok \in BOOLEAN,
         file \in Seq(Nat), Increasing(file), Below(file, b), Ready(mem, n, b)
  PROVE  Increasing(Written(mem, n, ok)) /\ Below(Written(mem, n, ok), b)
<1>1. Increasing(file \o Units(mem, n))
  BY BehindIncreasing DEF Ready
<1>2. Below(file \o Units(mem, n), b)
  <2> DEFINE a == file \o Units(mem, n)
  <2>1. /\ Len(a) = Len(file) + n
        /\ \A i \in 1 .. Len(file) : a[i] = file[i]
        /\ \A i \in 1 .. n : a[Len(file) + i] = mem[i - 1]
    BY Behind
  <2>2. Len(file) \in Nat /\ n \in Nat
    BY StreamAssumption
  <2> HIDE DEF a
  <2>3. ASSUME NEW i \in 1 .. Len(a) PROVE a[i] < b
    <3>1. CASE i \in 1 .. Len(file)
      BY <2>1, <3>1 DEF Below
    <3>2. CASE i \notin 1 .. Len(file)
      <4>1. i - Len(file) \in 1 .. n /\ i = Len(file) + (i - Len(file))
        BY <2>1, <2>2, <3>2
      <4>2. a[i] = mem[(i - Len(file)) - 1] /\ (i - Len(file)) - 1 \in 0 .. n - 1
        BY <2>1, <2>2, <4>1
      <4> QED BY <4>2 DEF Ready
    <3> QED BY <3>1, <3>2
  <2> QED BY <2>3 DEF Below, a
<1> QED BY <1>1, <1>2 DEF Written

(* What a transfer adds comes behind everything.                           *)
LEMMA TransferOrder ==
  ASSUME IInv, NEW dma \in BOOLEAN, NEW ok \in BOOLEAN, Receive(dma, ok)
  PROVE  /\ rxmem' \in Memory /\ pos + Returned(dma) \in 0 .. Block /\ next' \in Nat
         /\ Ready(rxmem', pos + Returned(dma), next')
         /\ Increasing(file) /\ Below(file, next')
<1>1. /\ next \in Nat /\ pos \in 0 .. Block - 1 /\ pos \in Nat /\ file \in Seq(Nat)
      /\ rxmem \in Memory
  BY StreamAssumption DEF IInv, TypeOK, Memory
<1>2. Ready(rxmem, pos, next) /\ Increasing(file) /\ Below(file, next)
  BY DEF IInv, OrderInv, Kept, Ready, Below, Receive
<1>3. rxmem' \in Memory
  BY TransferType DEF Receive, IInv
<1>e. \A i \in 1 .. Len(file) : file[i] \in Nat
  BY <1>1
<1>b. pos + 1 \in 0 .. Block /\ pos + 0 \in 0 .. Block /\ pos + 0 = pos
  BY <1>1, StreamAssumption
<1>4. CASE dma
  <2>1. next' = next + 1 /\ rxmem' = [rxmem EXCEPT ![pos] = next] /\ Returned(dma) = 1
    BY <1>4 DEF Receive, Returned
  <2>2. ASSUME NEW i \in 0 .. pos - 1 PROVE rxmem'[i] = rxmem[i] /\ rxmem[i] \in Nat
    <3>1. i \in 0 .. Block - 1 /\ i # pos
      BY <1>1, StreamAssumption
    <3> QED BY <1>1, <2>1, <3>1 DEF Memory
  <2>5. rxmem'[pos] = next
    BY <1>1, <2>1 DEF Memory
  <2>3. Ready(rxmem', pos + 1, next + 1)
    <3>1. ASSUME NEW i \in 0 .. pos PROVE IF i = pos THEN rxmem'[i] = next
                                         ELSE i \in 0 .. pos - 1 /\ rxmem'[i] = rxmem[i]
      BY <1>1, <2>2, <2>5
    <3>2. \A i \in 0 .. pos - 1 : rxmem[i] \in Nat /\ rxmem[i] < next
      BY <1>2, <2>2 DEF Ready
    <3>3. \A i \in 0 .. pos : rxmem'[i] < next + 1
      BY <1>1, <3>1, <3>2
    <3>4. \A i, j \in 0 .. pos : i < j => rxmem'[i] < rxmem'[j]
      <4> SUFFICES ASSUME NEW i \in 0 .. pos, NEW j \in 0 .. pos, i < j PROVE rxmem'[i] < rxmem'[j]
        OBVIOUS
      <4>1. i \in 0 .. pos - 1 /\ rxmem'[i] = rxmem[i]
        BY <1>1, <3>1
      <4> QED BY <1>2, <3>1, <3>2, <4>1 DEF Ready
    <3>5. \A i \in 1 .. Len(file), j \in 0 .. pos : file[i] < rxmem'[j]
      BY <1>2, <3>1 DEF Ready, Below
    <3>6. (pos + 1) - 1 = pos
      BY <1>1
    <3> QED BY <3>3, <3>4, <3>5, <3>6 DEF Ready
  <2>4. Below(file, next + 1)
    BY <1>1, <1>2, <1>e DEF Below
  <2>6. Ready(rxmem', pos + Returned(dma), next') /\ Below(file, next')
    BY <2>1, <2>3, <2>4
  <2>7. next' \in Nat /\ pos + Returned(dma) \in 0 .. Block
    BY <1>1, <1>b, <2>1
  <2> QED BY <1>2, <1>3, <2>6, <2>7
<1>5. CASE ~dma
  <2>1. next' = next /\ rxmem' = rxmem /\ Returned(dma) = 0
    BY <1>1, <1>5 DEF Receive, Returned
  <2>2. pos + Returned(dma) = pos
    BY <1>b, <2>1
  <2>3. Ready(rxmem', pos + Returned(dma), next') /\ Below(file, next')
    BY <1>2, <2>1, <2>2
  <2>4. next' \in Nat /\ pos + Returned(dma) \in 0 .. Block
    BY <1>1, <1>b, <2>1
  <2> QED BY <1>2, <1>3, <2>3, <2>4
<1> QED BY <1>4, <1>5

(* A receive keeps the order.                                              *)
LEMMA ReceiveOrder ==
  ASSUME IInv, NEW dma \in BOOLEAN, NEW ok \in BOOLEAN, Receive(dma, ok)
  PROVE  OrderInv'
<1> DEFINE n == pos + Returned(dma)
<1>1. /\ rxmem' \in Memory /\ n \in 0 .. Block /\ next' \in Nat
      /\ Ready(rxmem', n, next') /\ Increasing(file) /\ Below(file, next')
  BY TransferOrder
<1>2. pc = "loop" /\ pc' = "loop" /\ last' = last /\ Increasing(last)
  BY DEF Receive, IInv, OrderInv
<1>3. Kept' = file'
  BY <1>2 DEF Kept
<1>4. CASE Full(n)
  <2>1. pos' = 0 /\ file' = Written(rxmem', n, ok)
    BY <1>4 DEF Receive, Full
  <2>2. Increasing(file') /\ Below(file', next')
    BY <1>1, <2>1, WriteOrder DEF IInv, TypeOK
  <2> QED BY <1>2, <1>3, <2>1, <2>2 DEF OrderInv, Below
<1>5. CASE ~Full(n)
  <2>1. pos' = n /\ file' = file
    BY <1>5 DEF Receive
  <2> QED BY <1>1, <1>2, <1>3, <2>1 DEF OrderInv, Below, Ready
<1> QED BY <1>4, <1>5

(* So does everything else: only what is in order is moved or dropped.     *)
LEMMA OrderStep ==
  ASSUME IInv, [Next]_vars
  PROVE  OrderInv'
<1>t. /\ next \in Nat /\ pos \in 0 .. Block - 1 /\ pos \in 0 .. Block /\ Block \in 0 .. Block
      /\ file \in Seq(Nat) /\ last \in Seq(Nat) /\ length \in Nat
      /\ rxmem \in Memory
  BY StreamAssumption DEF IInv, TypeOK, Memory
<1>0. Increasing(<<>>) /\ Below(<<>>, next)
  BY DEF Increasing, Below
<1>k. Increasing(Kept) /\ Below(Kept, next) /\ Increasing(last)
  BY DEF IInv, OrderInv, Below
<1>m. /\ \A i \in 0 .. pos - 1 : rxmem[i] < next
      /\ \A i, j \in 0 .. pos - 1 : i < j => rxmem[i] < rxmem[j]
  BY DEF IInv, OrderInv
<1>r. pc = "loop" => Kept = file /\ Ready(rxmem, pos, next)
  BY DEF IInv, OrderInv, Ready, Kept
<1>a. ASSUME rxmem' = rxmem, pos' \in {pos, 0}, next' = next, Increasing(Kept'), Below(Kept', next),
             Increasing(last'),
             pc' = "loop" => file' = <<>> \/ (pc = "loop" /\ file' = file)
      PROVE  OrderInv'
  <2>0. ASSUME NEW i \in 0 .. pos' - 1 PROVE i \in 0 .. pos - 1
    <3>1. CASE pos' = pos
      BY <2>0, <3>1
    <3>2. CASE pos' = 0
      BY <2>0, <3>2
    <3> QED BY <1>a, <3>1, <3>2
  <2>1. /\ \A i \in 0 .. pos' - 1 : rxmem'[i] < next'
        /\ \A i, j \in 0 .. pos' - 1 : i < j => rxmem'[i] < rxmem'[j]
        /\ \A i \in 0 .. pos' - 1 : i \in 0 .. pos - 1
    <3>1. \A i \in 0 .. pos' - 1 : i \in 0 .. pos - 1
      BY <2>0
    <3> QED BY <1>a, <1>m, <3>1
  <2>2. ASSUME pc' = "loop" PROVE \A i \in 1 .. Len(file'), j \in 0 .. pos' - 1 : file'[i] < rxmem'[j]
    <3>1. CASE file' = <<>>
      BY <3>1
    <3>2. CASE pc = "loop" /\ file' = file
      BY <1>a, <1>r, <2>1, <3>2 DEF Ready
    <3> QED BY <1>a, <2>2, <3>1, <3>2
  <2> QED BY <1>a, <2>1, <2>2 DEF OrderInv, Below
<1>c. ASSUME NEW content, Closed(content), isOpen => Increasing(content),
             rxmem' = rxmem, pos' \in {pos, 0}, next' = next, pc' # "truncating"
      PROVE  OrderInv'
  <2>1. Kept' = <<>> /\ file' = <<>> /\ Increasing(last')
    BY <1>c, <1>k DEF Closed, Kept
  <2> QED BY <1>0, <1>a, <1>c, <2>1
<1>1. ASSUME NEW dma \in BOOLEAN, NEW ok \in BOOLEAN, Receive(dma, ok) PROVE OrderInv'
  BY <1>1, ReceiveOrder
<1>2. ASSUME NEW ok \in BOOLEAN, NewFile(ok) PROVE OrderInv'
  <2>1. Kept' = <<>> /\ file' = <<>>
    BY <1>2 DEF NewFile, Kept
  <2> QED BY <1>0, <1>2, <1>a, <1>k, <2>1 DEF NewFile, buffer
<1>3. ASSUME NEW ok \in BOOLEAN, Cut0(ok) PROVE OrderInv'
  <2>1. Increasing(Written(rxmem, pos, ok))
    BY <1>3, <1>t, <1>k, <1>r, WriteOrder DEF Cut0
  <2> QED BY <1>3, <1>c, <2>1 DEF Cut0
<1>4. ASSUME NEW ok \in BOOLEAN, Cut1(ok) PROVE OrderInv'
  <2>1. Increasing(file') /\ Below(file', next)
    BY <1>4, <1>t, <1>k, <1>r, WriteOrder DEF Cut1
  <2>2. Kept' = file' /\ pc' = "padding"
    BY <1>4 DEF Cut1, Kept
  <2> QED BY <1>4, <1>a, <1>k, <2>1, <2>2 DEF Cut1, buffer
<1>5. ASSUME NEW ok \in BOOLEAN, Pad(ok) PROVE OrderInv'
  <2>1. length = Len(file) /\ Kept = file
    BY <1>5 DEF Pad, IInv, PlaceInv, Kept
  <2>2. Kept' = SubSeq(file', 1, length)
    BY <1>5 DEF Pad, Kept
  <2>3. Kept' = file
    <3>1. CASE ok
      BY <1>5, <1>t, <2>1, <2>2, <3>1, TakenAway DEF Pad
    <3>2. CASE ~ok
      BY <1>5, <1>t, <2>1, <2>2, <3>2, SubSeqFull DEF Pad
    <3> QED BY <3>1, <3>2
  <2> QED BY <1>5, <1>a, <1>k, <2>1, <2>3 DEF Pad, buffer
<1>6. CASE Truncate
  <2>1. Truncated = Kept
    BY <1>6 DEF Truncate, Truncated, Kept
  <2> QED BY <1>6, <1>c, <1>k, <2>1 DEF Truncate, buffer
<1>7. ASSUME NEW ok \in BOOLEAN, NextFile(ok) PROVE OrderInv'
  <2>1. file' = <<>> /\ Kept' = <<>>
    BY <1>7 DEF NextFile, IInv, PlaceInv, Kept
  <2> QED BY <1>0, <1>7, <1>a, <1>k, <2>1 DEF NextFile
<1>8. ASSUME NEW ok \in BOOLEAN, Start(ok) PROVE OrderInv'
  <2>1. Kept' = <<>> /\ file' = <<>> /\ Increasing(last')
    BY <1>8, <1>k, <1>r DEF Start, Kept
  <2> QED BY <1>0, <1>8, <1>a, <2>1 DEF Start
<1>9. ASSUME NEW zero \in BOOLEAN, Stop0(zero) PROVE OrderInv'
  <2>1. rxmem' = rxmem /\ pos' = 0 /\ next' = next /\ pc' = "loop"
    BY <1>9 DEF Stop0
  <2>2. CASE zero /\ named
    <3>1. Kept' = <<>> /\ file' = <<>> /\ last' = <<>>
      BY <1>9, <2>1, <2>2 DEF Stop0, Removed, Kept
    <3> QED BY <1>0, <1>a, <2>1, <3>1
  <2>3. CASE ~(zero /\ named)
    <3>1. Closed(file) /\ Increasing(file)
      BY <1>9, <1>k, <1>r, <2>3 DEF Stop0
    <3> QED BY <1>c, <2>1, <3>1
  <2> QED BY <2>2, <2>3
<1>10. CASE Stop1
  BY <1>10, <1>c, <1>k, <1>r DEF Stop1, buffer
<1>11. CASE SetSlice \/ Arm \/ UNCHANGED vars
  BY <1>11 DEF SetSlice, Arm, vars, buffer, disk, IInv, OrderInv, Kept
<1> QED BY <1>1, <1>2, <1>3, <1>4, <1>5, <1>6, <1>7, <1>8, <1>9, <1>10, <1>11 DEF Next, Files, Commands

(* All three parts hold throughout.                                        *)
LEMMA InvHolds == Spec => []IInv
<1>1. Init => OrderInv
  <2> SUFFICES ASSUME Init PROVE OrderInv
    OBVIOUS
  <2>1. Kept = <<>> /\ file = <<>> /\ last = <<>> /\ pos = 0
    BY DEF Init, Kept
  <2> QED BY <2>1 DEF OrderInv, Increasing
<1>2. TypeOK /\ PlaceInv /\ OrderInv /\ [Next]_vars => OrderInv'
  BY OrderStep DEF IInv
<1> QED BY <1>1, <1>2, PlacesHold, PTL DEF Spec, IInv

(* No unit is stored twice or out of order, whatever transfers and writes  *)
(* fail and whenever a cut, stop or start comes.                           *)
THEOREM UnitsInOrder == Spec => []InOrder
<1>1. IInv => InOrder
  <2> SUFFICES ASSUME IInv PROVE InOrder
    OBVIOUS
  <2>1. rxmem \in Memory /\ pos \in 0 .. Block /\ file \in Seq(Nat)
    BY StreamAssumption DEF IInv, TypeOK, Memory
  <2>2. CASE pc = "loop"
    <3>1. Increasing(file \o Units(rxmem, pos))
      BY <2>1, <2>2, BehindIncreasing DEF IInv, OrderInv, Kept
    <3> QED BY <2>2, <3>1 DEF InOrder, Kept, IInv, OrderInv
  <2>3. CASE pc # "loop"
    <3>1. Kept \in Seq(Nat)
      <4>1. CASE pc = "truncating"
        <5>1. length \in 0 .. Len(file)
          BY <4>1 DEF IInv, TypeOK, PlaceInv
        <5> QED BY <2>1, <4>1, <5>1, SubSeqProperties DEF Kept
      <4>2. CASE pc # "truncating"
        BY <2>1, <4>2 DEF Kept
      <4> QED BY <4>1, <4>2
    <3>2. Kept \o Units(rxmem, 0) = Kept
      BY <2>1, <3>1, BehindNothing
    <3> QED BY <2>3, <3>2 DEF InOrder, IInv, OrderInv
  <2> QED BY <2>2, <2>3
<1> QED BY <1>1, InvHolds, PTL

-----------------------------------------------------------------------------
(* Refinement.  SliceFile sees Content: the file and what is buffered      *)
(* behind it.                                                              *)

Same == UNCHANGED <<next, isOpen, Content, last, lost>>

Step == SliceFiles!Next \/ Same

(* The file without what is buffered is Content without less than a block. *)
LEMMA FileShortened ==
  ASSUME IInv
  PROVE  file \in SliceFiles!Shortened(file \o Units(rxmem, pos))
<1> DEFINE a == file \o Units(rxmem, pos)
<1>1. /\ rxmem \in Memory /\ pos \in 0 .. Block /\ pos \in Nat /\ pos < Block /\ Block \in Nat
      /\ file \in Seq(Nat) /\ Len(file) \in Nat
  BY StreamAssumption DEF IInv, TypeOK, Memory
<1>2. Len(a) = Len(file) + pos /\ SubSeq(a, 1, Len(file)) = file
  BY <1>1, Behind, TakenAway
<1> HIDE DEF a
<1>3. Len(file) \in {m \in 0 .. Len(a) : Len(a) < m + Block}
  BY <1>1, <1>2
<1>4. file \in SliceFiles!Shortened(a)
  BY <1>2, <1>3 DEF SliceFiles!Shortened
<1> QED BY <1>4 DEF a

(* A closed file has no content.                                           *)
LEMMA NoContent == ~isOpen => Content = <<>>
BY DEF Content

(* Opening a file, or failing to.                                          *)
LEMMA OpenRefines ==
  ASSUME IInv, NEW ok \in BOOLEAN, ~isOpen, isOpen' = ok, rxmem' = rxmem,
         pc' = "loop", ok => file' = <<>> /\ pos' = 0,
         UNCHANGED <<next, last, lost>>
  PROVE  Step
<1>1. Content = <<>>
  BY NoContent
<1>2. CASE ok
  <2>1. rxmem' \in Memory /\ file' = <<>> /\ pos' = 0 /\ <<>> \in Seq(Nat)
    BY <1>2 DEF IInv, TypeOK, Memory
  <2>2. <<>> \o Units(rxmem', 0) = <<>>
    BY <2>1, BehindNothing
  <2>3. Content' = <<>>
    BY <2>1, <2>2 DEF Content
  <2>4. isOpen' = TRUE
    BY Zenon, <1>2
  <2> QED BY <1>1, <2>3, <2>4 DEF Step, SliceFiles!Next, SliceFiles!Open
<1>3. CASE ~ok
  <2>1. isOpen' = isOpen
    BY Zenon, <1>3 DEF IInv, TypeOK
  <2>2. Content' = <<>>
    BY <1>3, <2>1 DEF Content
  <2> QED BY <1>1, <2>1, <2>2 DEF Step, Same
<1> QED BY <1>2, <1>3

(* A unit is appended, lost with its block to a write that fails, or goes  *)
(* nowhere because no file is open.                                        *)
LEMMA ReceiveRefines ==
  ASSUME IInv, NEW dma \in BOOLEAN, NEW ok \in BOOLEAN, Receive(dma, ok)
  PROVE  Step
<1>t. /\ next \in Nat /\ pos \in 0 .. Block - 1 /\ pos \in Nat /\ Block \in Nat /\ file \in Seq(Nat)
      /\ rxmem \in Memory /\ rxmem' \in Memory /\ lost \in Nat
  BY StreamAssumption, TransferType DEF IInv, TypeOK, Memory, Receive
<1>u. pc = "loop" /\ pc' = "loop" /\ isOpen' = isOpen /\ last' = last
  BY DEF Receive
<1>1. CASE ~dma
  <2>1. Returned(dma) = 0 /\ rxmem' = rxmem /\ next' = next
    BY <1>1, <1>t DEF Receive, Returned
  <2>2. ~Full(pos + Returned(dma)) /\ pos + Returned(dma) = pos
    BY <1>t, <2>1 DEF Full
  <2>3. pos' = pos /\ file' = file /\ lost' = lost
    BY <2>2 DEF Receive
  <2> QED BY <1>u, <2>1, <2>3 DEF Step, Same, Content
<1>2. CASE dma
  <2>1. Returned(dma) = 1 /\ rxmem' = [rxmem EXCEPT ![pos] = next] /\ next' = next + 1
    BY <1>2 DEF Receive, Returned
  <2>2. CASE ~isOpen
    <3>1. lost' = lost
      <4>1. CASE Full(pos + Returned(dma))
        BY <2>2, <4>1 DEF Receive, Outcome
      <4>2. CASE ~Full(pos + Returned(dma))
        BY <4>2 DEF Receive
      <4> QED BY <4>1, <4>2
    <3>2. Content = <<>> /\ Content' = <<>>
      BY <1>u, <2>2 DEF Content
    <3> QED BY <1>u, <2>1, <2>2, <3>1, <3>2 DEF Step, SliceFiles!Next, SliceFiles!Discard
  <2>3. CASE isOpen
    <3> DEFINE more == file \o Units(rxmem', pos + 1)
    <3>1. Content = file \o Units(rxmem, pos) /\ more = Append(Content, next)
      BY <1>t, <1>u, <2>1, <2>3, BehindOneMore DEF Content
    <3>2. CASE pos + 1 = Block
      <4>1. /\ Full(pos + Returned(dma)) /\ Outcome(Block, ok)
            /\ file' = Written(rxmem', Block, ok) /\ pos' = 0
        BY <2>1, <3>2 DEF Receive, Full
      <4>2. file' \in Seq(Nat)
        <5>1. TypeOK /\ Block \in 0 .. Block
          BY <1>t DEF IInv
        <5> QED BY <1>t, <4>1, <5>1, WrittenType
      <4>3. Content' = file'
        BY <1>t, <1>u, <2>3, <4>1, <4>2, BehindNothing DEF Content
      <4>4. CASE ok
        <5>1. file' = more /\ lost' = lost
          BY <3>2, <4>1, <4>4 DEF Written, Outcome
        <5> QED BY <1>u, <2>1, <2>3, <3>1, <4>3, <5>1 DEF Step, SliceFiles!Next, SliceFiles!Append1
      <4>5. CASE ~ok
        <5>1. file' = file /\ lost' = lost + 1
          BY <2>3, <4>1, <4>5 DEF Written, Outcome
        <5>2. Content' \in SliceFiles!Shortened(Content)
          BY <3>1, <4>3, <5>1, FileShortened
        <5> QED BY <1>u, <2>1, <2>3, <5>1, <5>2 DEF Step, SliceFiles!Next, SliceFiles!LoseEnd
      <4> QED BY <4>4, <4>5
    <3>3. CASE pos + 1 # Block
      <4>1. pos' = pos + 1 /\ file' = file /\ lost' = lost
        BY <2>1, <3>3 DEF Receive, Full
      <4>2. Content' = more
        BY <1>u, <2>3, <4>1 DEF Content
      <4> QED BY <1>u, <2>1, <2>3, <3>1, <4>1, <4>2 DEF Step, SliceFiles!Next, SliceFiles!Append1
    <3> QED BY <3>2, <3>3
  <2> QED BY <2>2, <2>3
<1> QED BY <1>1, <1>2

(* Closing: nothing happens if no file is open; otherwise the content the  *)
(* file is left with decides whether it is finished or given up.           *)
LEMMA ClosedSame ==
  ASSUME IInv, NEW content, Closed(content), ~isOpen, next' = next, lost' = lost
  PROVE  Step
<1>1. isOpen' = isOpen
  BY Zenon DEF Closed, IInv, TypeOK
<1>2. last' = last /\ Content = <<>> /\ Content' = <<>>
  BY <1>1 DEF Closed, Content
<1> QED BY <1>1, <1>2 DEF Step, Same

LEMMA GiveUpRefines ==
  ASSUME IInv, pc = "loop", isOpen, isOpen' \in BOOLEAN, NEW content \in {file, <<>>},
         last' = content, Content' = <<>>, next' = next, lost' = lost
  PROVE  Step
<1>1. Content = file \o Units(rxmem, pos)
  BY DEF Content
<1>2. content \in SliceFiles!Shortened(Content) \union {<<>>}
  BY <1>1, FileShortened
<1> QED BY <1>2 DEF Step, SliceFiles!Next, SliceFiles!GiveUp, SliceFiles!Done

(* remove(): the open file is given up whole, or the finished one removed. *)
LEMMA RemovedRefines ==
  ASSUME IInv, pc = "loop", Removed, next' = next, lost' = lost
  PROVE  Step
<1>1. isOpen' = FALSE /\ last' = <<>> /\ Content' = <<>>
  BY DEF Removed, Content
<1>2. CASE isOpen
  BY <1>1, <1>2, GiveUpRefines
<1>3. CASE ~isOpen
  <2>1. Content = <<>> /\ isOpen' = isOpen
    BY Zenon, <1>1, <1>3, NoContent DEF IInv, TypeOK
  <2> QED BY <1>1, <1>3, <2>1 DEF Step, SliceFiles!Next, SliceFiles!Remove
<1> QED BY <1>2, <1>3

(* chan0's cut: the file is what was drained, unless its tail is lost.     *)
LEMMA Cut0Refines ==
  ASSUME IInv, NEW ok \in BOOLEAN, Cut0(ok)
  PROVE  Step
<1> DEFINE content == Written(rxmem, pos, ok)
<1>1. Closed(content) /\ Outcome(pos, ok) /\ pc = "loop" /\ next' = next
  BY DEF Cut0
<1>2. CASE ~isOpen
  BY <1>1, <1>2, ClosedSame DEF Outcome
<1>3. CASE isOpen
  <2>1. Content = file \o Units(rxmem, pos)
    BY <1>1, <1>3 DEF Content
  <2>2. last' = content /\ isOpen' = FALSE /\ Content' = <<>>
    BY <1>1, <1>3 DEF Closed, Content
  <2>3. CASE ok
    <3>1. content = Content /\ lost' = lost
      BY <1>1, <2>1, <2>3 DEF Written, Outcome
    <3> QED BY <1>1, <1>3, <2>2, <3>1 DEF Step, SliceFiles!Next, SliceFiles!Finish, SliceFiles!Done
  <2>4. CASE ~ok
    <3>1. content = file /\ lost' = lost + 1
      BY <1>1, <1>3, <2>4 DEF Written, Outcome
    <3>2. content \in SliceFiles!Shortened(Content)
      BY <2>1, <3>1, FileShortened
    <3> QED BY <1>1, <1>3, <2>2, <3>1, <3>2
            DEF Step, SliceFiles!Next, SliceFiles!Finish, SliceFiles!Done
  <2> QED BY <2>3, <2>4
<1> QED BY <1>2, <1>3

(* chan1's: the tail is written, or lost, and the file stays open; the     *)
(* padding is never seen ...                                               *)
LEMMA Cut1Refines ==
  ASSUME IInv, NEW ok \in BOOLEAN, Cut1(ok)
  PROVE  Step
<1>1. /\ Outcome(pos, ok) /\ file' = Written(rxmem, pos, ok) /\ pc = "loop" /\ pc' = "padding"
      /\ UNCHANGED <<next, isOpen, last>>
  BY DEF Cut1, disk
<1>2. CASE ~isOpen
  <2>1. Content = <<>> /\ Content' = <<>> /\ lost' = lost
    BY <1>1, <1>2 DEF Content, Outcome
  <2> QED BY <1>1, <2>1 DEF Step, Same
<1>3. CASE isOpen
  <2>1. Content = file \o Units(rxmem, pos) /\ Content' = file'
    BY <1>1, <1>3 DEF Content, Kept
  <2>2. CASE ok
    BY <1>1, <2>1, <2>2 DEF Written, Outcome, Step, Same
  <2>3. CASE ~ok
    <3>1. file' = file /\ lost' = lost + 1
      BY <1>1, <1>3, <2>3 DEF Written, Outcome
    <3>2. Content' \in SliceFiles!Shortened(Content)
      BY <2>1, <3>1, FileShortened
    <3> QED BY <1>1, <1>3, <3>1, <3>2 DEF Step, SliceFiles!Next, SliceFiles!LoseEnd
  <2> QED BY <2>2, <2>3
<1> QED BY <1>2, <1>3

LEMMA PadRefines ==
  ASSUME IInv, NEW ok \in BOOLEAN, Pad(ok)
  PROVE  Step
<1>1. /\ pc = "padding" /\ pc' = "truncating" /\ length = Len(file) /\ length' = length
      /\ file \in Seq(Nat) /\ rxmem \in Memory /\ Block \in 0 .. Block
      /\ UNCHANGED <<next, isOpen, last, lost>>
  BY StreamAssumption DEF Pad, IInv, TypeOK, PlaceInv, Memory
<1>2. Kept = file /\ Kept' = SubSeq(file', 1, Len(file))
  BY <1>1 DEF Kept
<1>3. Kept' = file
  <2>1. CASE ok
    BY <1>1, <1>2, <2>1, TakenAway DEF Pad
  <2>2. CASE ~ok
    BY <1>1, <1>2, <2>2, SubSeqFull DEF Pad
  <2> QED BY <2>1, <2>2
<1>4. Content' = Content
  BY <1>1, <1>2, <1>3 DEF Content
<1> QED BY <1>1, <1>4 DEF Step, Same

(* ... and the file that is closed is the one before it.                   *)
LEMMA TruncateRefines ==
  ASSUME IInv, Truncate
  PROVE  Step
<1>1. /\ pc = "truncating" /\ Closed(Truncated) /\ Truncated = Kept
      /\ UNCHANGED <<next, lost>>
  BY DEF Truncate, Truncated, Kept
<1>2. CASE ~isOpen
  BY <1>1, <1>2, ClosedSame
<1>3. CASE isOpen
  <2>1. Content = Kept /\ Content' = <<>> /\ last' = Kept /\ isOpen' = FALSE
    BY <1>1, <1>3 DEF Content, Closed
  <2> QED BY <1>1, <1>3, <2>1 DEF Step, SliceFiles!Next, SliceFiles!Finish, SliceFiles!Done
<1> QED BY <1>2, <1>3

(* A start and the stops give an open file up.                             *)
LEMMA CommandsRefine ==
  ASSUME IInv, Commands
  PROVE  Step
<1>1. ASSUME NEW ok \in BOOLEAN, Start(ok) PROVE Step
  <2>1. /\ pc = "loop" /\ pc' = "loop" /\ isOpen' = ok /\ file' = <<>> /\ pos' = 0
        /\ UNCHANGED <<next, rxmem, lost>>
    BY <1>1 DEF Start
  <2>2. CASE ~isOpen
    BY <1>1, <2>1, <2>2, OpenRefines DEF Start
  <2>3. CASE isOpen
    <3>1. last' = file /\ isOpen' \in BOOLEAN
      BY Zenon, <1>1, <2>3 DEF Start
    <3>2. rxmem' \in Memory /\ <<>> \in Seq(Nat)
      BY <2>1 DEF IInv, TypeOK, Memory
    <3>3. <<>> \o Units(rxmem', 0) = <<>>
      BY <3>2, BehindNothing
    <3>4. Content' = <<>>
      BY <2>1, <3>3 DEF Content
    <3> QED BY <2>1, <2>3, <3>1, <3>4, GiveUpRefines
  <2> QED BY <2>2, <2>3
<1>2. ASSUME NEW content \in {file, <<>>}, Closed(content), pc = "loop", next' = next, lost' = lost
      PROVE  Step
  <2>1. CASE ~isOpen
    BY <1>2, <2>1, ClosedSame
  <2>2. CASE isOpen
    <3>1. last' = content /\ isOpen' \in BOOLEAN /\ Content' = <<>>
      BY <1>2, <2>2 DEF Closed, Content
    <3> QED BY <1>2, <2>2, <3>1, GiveUpRefines
  <2> QED BY <2>1, <2>2
<1>3. ASSUME NEW zero \in BOOLEAN, Stop0(zero) PROVE Step
  <2>1. pc = "loop" /\ next' = next /\ lost' = lost
    BY <1>3 DEF Stop0
  <2>2. CASE Closed(file)
    BY <1>2, <2>1, <2>2
  <2>3. CASE Removed
    BY <2>1, <2>3, RemovedRefines
  <2> QED BY <1>3, <2>2, <2>3 DEF Stop0
<1>4. CASE Stop1
  BY <1>2, <1>4 DEF Stop1
<1>5. CASE SetSlice \/ Arm
  BY <1>5 DEF SetSlice, Arm, buffer, disk, Step, Same, Content, Kept
<1> QED BY <1>1, <1>3, <1>4, <1>5 DEF Commands

(* The files of both channels are SliceFile's: whatever is drained while a *)
(* file is open is appended to it, in order and once; a cut closes exactly *)
(* that, and a failed write or a stop costs less than a block of its end.  *)
(* Only a stop removes a file, the open one or the one finished last.      *)
THEOREM ChanStreamImplementsSliceFile == Spec => Implements
<1>1. Init => SliceFiles!Init
  BY DEF Init, SliceFiles!Init, Content
<1>2. ASSUME IInv, Next PROVE Step
  <2>1. ASSUME NEW dma \in BOOLEAN, NEW ok \in BOOLEAN, Receive(dma, ok) PROVE Step
    BY <1>2, <2>1, ReceiveRefines
  <2>2. ASSUME NEW ok \in BOOLEAN, NewFile(ok) PROVE Step
    <3>1. ~isOpen /\ pos' = 0 /\ file' = <<>> /\ pc' = "loop" /\ rxmem' = rxmem
      BY <1>2, <2>2 DEF NewFile, buffer, IInv, PlaceInv
    <3> QED BY <1>2, <2>2, <3>1, OpenRefines DEF NewFile
  <2>3. ASSUME NEW ok \in BOOLEAN, Cut0(ok) \/ Cut1(ok) \/ Pad(ok) PROVE Step
    BY <1>2, <2>3, Cut0Refines, Cut1Refines, PadRefines
  <2>4. ASSUME NEW ok \in BOOLEAN, NextFile(ok) PROVE Step
    <3>1. ~isOpen /\ file' = <<>> /\ pc' = "loop" /\ (ok => pos' = 0)
      BY <1>2, <2>4 DEF NextFile, IInv, PlaceInv
    <3> QED BY <1>2, <2>4, <3>1, OpenRefines DEF NextFile
  <2>5. CASE Truncate
    BY <1>2, <2>5, TruncateRefines
  <2>6. CASE Commands
    BY <1>2, <2>6, CommandsRefine
  <2> QED BY <1>2, <2>1, <2>2, <2>3, <2>4, <2>5, <2>6 DEF Next, Files
<1>3. UNCHANGED vars => Same
  BY DEF vars, buffer, disk, Same, Content, Kept
<1>4. IInv /\ [Next]_vars => [SliceFiles!Next]_(SliceFiles!vars)
  BY <1>2, <1>3 DEF Step, Same, SliceFiles!vars
<1> QED BY <1>1, <1>4, InvHolds, PTL DEF Spec, Implements, SliceFiles!Spec
=============================================================================
