------------------------- MODULE IndexStreamProofs -------------------------
(* Theorems about IndexStream for any number of blocks and failures.       *)
EXTENDS IndexStream, Integers, TLAPS

(* The handshake: where the thread is tells the acknowledge, and which     *)
(* block is in BRAM: the one after the last taken, or that one itself from *)
(* its copy to its release.                                                *)
Fresh == valid = 1 /\ pc \notin {"ack", "spin"}

ShakeInv ==
  /\ ack = IF pc = "spin" THEN 1 ELSE 0
  /\ pc \in {"copy", "ack"} => valid = 1
  /\ bram = buf.hi + (IF Fresh THEN 1 ELSE 0)
  /\ buf.lo = IF pc = "copy" THEN bram ELSE buf.hi
  /\ pc \in {"ack", "spin"} => ret = 1
  /\ ret = 1 => buf.hi > 0

(* The files: only blocks up to the last one disposed of, whole and in     *)
(* order.                                                                  *)
Stored(s) == Whole(s) /\ Ordered(s) /\ \A i \in 1 .. Len(s) : s[i].hi <= buf.hi - ret

FileInv == Stored(file) /\ Stored(last)

(* The flags: without a file the next one is still due, a parked thread is *)
(* at the head of its loop, and a block is only left over by an open()     *)
(* that failed: there is no file then, nor the name of one.                *)
FlagInv ==
  /\ fd = IF alt = 0 THEN "open" ELSE "none"
  /\ fd = "none" => file = <<>>
  /\ indexed = 1 => pc = "top" /\ alt = 1 /\ ret = 0
  /\ ret = 1 /\ pc \notin {"ack", "spin", "file", "save"} => alt = 1 /\ ~named

IInv == TypeOK /\ ShakeInv /\ FileInv /\ FlagInv

(* IInv holds to begin with.                                               *)
LEMMA InvInit == Init => IInv
<1> SUFFICES ASSUME Init PROVE IInv
  OBVIOUS
<1>1. TypeOK
  <2>1. <<>> \in Seq(Halves) /\ 0 \in Nat
    OBVIOUS
  <2>2. buf \in Halves
    BY DEF Init, Halves
  <2> QED BY <2>1, <2>2 DEF Init, TypeOK, Places
<1>2. ShakeInv /\ FlagInv
  BY DEF Init, ShakeInv, Fresh, FlagInv
<1>3. FileInv
  BY DEF Init, FileInv, Stored, Whole, Ordered
<1> QED BY <1>1, <1>2, <1>3 DEF IInv

(* Every step keeps the types.                                             *)
LEMMA TypeStep == IInv /\ [Next]_vars => TypeOK'
<1> SUFFICES ASSUME IInv, [Next]_vars PROVE TypeOK'
  OBVIOUS
<1>0. <<>> \in Seq(Halves)
  OBVIOUS
<1> USE DEF IInv, TypeOK, Places, Goto, shake, buffer, disk, flags
<1>1. CASE Take \/ NothingToTake \/ Copy \/ Ack \/ Release
  BY <1>1 DEF Take, NothingToTake, Copy, Ack, Release, Halves
<1>2. ASSUME NEW ok \in BOOLEAN, Save(ok) PROVE TypeOK'
  <2>1. Append(file, buf) \in Seq(Halves)
    OBVIOUS
  <2>2. file' \in Seq(Halves)
    BY <1>2, <2>1 DEF Save, Outcome
  <2> QED BY <1>2, <2>2 DEF Save, Full, RetUsed, Outcome
<1>3. ASSUME NEW zero \in BOOLEAN, Stop(zero) PROVE TypeOK'
  <2>1. fd' = "none" /\ file' = <<>> /\ last' \in Seq(Halves)
    BY <1>0, <1>3 DEF Stop, Closed, Removed
  <2> QED BY <1>0, <1>3, <2>1 DEF Stop, HandBack
<1>4. CASE Enter \/ NewFile \/ NewFileFails \/ NoNewFile \/ NoCut
  <2>1. CASE Enter \/ NoNewFile \/ NoCut
    BY <2>1 DEF Enter, NoNewFile, NoCut
  <2>2. CASE NewFile
    BY <1>0, <2>2 DEF NewFile
  <2>3. CASE NewFileFails
    BY <1>0, <2>3 DEF NewFileFails
  <2> QED BY <1>4, <2>1, <2>2, <2>3
<1>5. CASE Cut
  BY <1>0, <1>5 DEF Cut, HandBack, Closed
<1>6. CASE Environment
  <2>1. CASE SetIndex \/ Arm
    BY <2>1 DEF SetIndex, Arm
  <2>2. CASE PlBlock \/ PlDrop
    BY <2>2 DEF PlBlock, PlDrop
  <2> QED BY <1>6, <2>1, <2>2 DEF Environment
<1>7. CASE UNCHANGED vars
  BY <1>7 DEF vars
<1> QED BY <1>1, <1>2, <1>3, <1>4, <1>5, <1>6, <1>7 DEF Next, Blocks, Files

(* The handshake is kept.                                                  *)
LEMMA ShakeStep == IInv /\ [Next]_vars => ShakeInv'
<1> SUFFICES ASSUME IInv, [Next]_vars PROVE ShakeInv'
  OBVIOUS
<1> USE DEF IInv, TypeOK, Halves, Places, ShakeInv, Fresh, Goto, shake, buffer, disk, flags
<1>1. CASE Take \/ NothingToTake
  BY <1>1 DEF Take, NothingToTake
<1>2. CASE Copy
  BY <1>2 DEF Copy
<1>3. CASE Ack \/ Release
  BY <1>3 DEF Ack, Release, Seen
<1>4. ASSUME NEW ok \in BOOLEAN, Save(ok) PROVE ShakeInv'
  BY <1>4 DEF Save, Full, RetUsed
<1>5. ASSUME NEW zero \in BOOLEAN, Stop(zero) PROVE ShakeInv'
  BY <1>5 DEF Stop, HandBack
<1>6. CASE Enter \/ NewFile \/ NewFileFails \/ NoNewFile \/ NoCut
  BY <1>6 DEF Enter, NewFile, NewFileFails, NoNewFile, NoCut
<1>7. CASE Cut
  BY <1>7 DEF Cut, HandBack
<1>8. CASE Environment
  <2>1. CASE SetIndex \/ Arm
    BY <2>1 DEF SetIndex, Arm
  <2>2. CASE PlBlock \/ PlDrop
    BY <2>2 DEF PlBlock, PlDrop
  <2> QED BY <1>8, <2>1, <2>2 DEF Environment
<1>9. CASE UNCHANGED vars
  BY <1>9 DEF vars
<1> QED BY <1>1, <1>2, <1>3, <1>4, <1>5, <1>6, <1>7, <1>8, <1>9 DEF Next, Blocks, Files

(* The flags are kept.                                                     *)
LEMMA FlagStep == IInv /\ [Next]_vars => FlagInv'
<1> SUFFICES ASSUME IInv, [Next]_vars PROVE FlagInv'
  OBVIOUS
<1> USE DEF IInv, TypeOK, Halves, Places, ShakeInv, FlagInv, Goto, shake, buffer, disk, flags
<1>1. CASE Take \/ NothingToTake \/ Copy \/ Ack \/ Release
  BY <1>1 DEF Take, NothingToTake, Copy, Ack, Release
<1>2. ASSUME NEW ok \in BOOLEAN, Save(ok) PROVE FlagInv'
  BY <1>2 DEF Save, Full, RetUsed
<1>3. ASSUME NEW zero \in BOOLEAN, Stop(zero) PROVE FlagInv'
  BY <1>3 DEF Stop, HandBack, Closed, Removed
<1>4. CASE Enter \/ NewFile \/ NewFileFails \/ NoNewFile \/ NoCut
  BY <1>4 DEF Enter, NewFile, NewFileFails, NeedsFile, NoNewFile, NoCut
<1>5. CASE Cut
  BY <1>5 DEF Cut, HandBack, Closed
<1>6. CASE Environment
  BY <1>6 DEF Environment, SetIndex, Arm, PlBlock, PlDrop
<1>7. CASE UNCHANGED vars
  BY <1>7 DEF vars
<1> QED BY <1>1, <1>2, <1>3, <1>4, <1>5, <1>6, <1>7 DEF Next, Blocks, Files

(* The thread never disposes of fewer blocks than before.                  *)
LEMMA Forward == IInv /\ [Next]_vars => buf.hi - ret <= buf'.hi - ret'
<1> SUFFICES ASSUME IInv, [Next]_vars PROVE buf.hi - ret <= buf'.hi - ret'
  OBVIOUS
<1> USE DEF IInv, TypeOK, Halves, ShakeInv, FlagInv, Fresh, Goto, shake, buffer, disk,
            flags
<1>1. CASE Take \/ NothingToTake \/ Ack \/ Release
  <2>1. ret' = ret /\ buf'.hi = buf.hi
    BY <1>1 DEF Take, NothingToTake, Ack, Release
  <2> QED BY <2>1
<1>7. CASE Copy
  <2>1. ret' = 1 /\ buf'.hi = buf.hi + 1
    BY <1>7 DEF Copy
  <2> QED BY <2>1
<1>2. ASSUME NEW ok \in BOOLEAN, Save(ok) PROVE buf.hi - ret <= buf'.hi - ret'
  BY <1>2 DEF Save, Full, RetUsed
<1>3. ASSUME NEW zero \in BOOLEAN, Stop(zero) PROVE buf.hi - ret <= buf'.hi - ret'
  BY <1>3 DEF Stop, HandBack
<1>4. CASE Enter \/ NewFile \/ NewFileFails \/ NoNewFile \/ NoCut
  BY <1>4 DEF Enter, NewFile, NewFileFails, NoNewFile, NoCut
<1>5. CASE Cut
  BY <1>5 DEF Cut, HandBack
<1>6. CASE Environment \/ UNCHANGED vars
  BY <1>6 DEF Environment, SetIndex, Arm, PlBlock, PlDrop, vars
<1> QED BY <1>1, <1>2, <1>3, <1>4, <1>5, <1>6, <1>7 DEF Next, Blocks, Files

(* The files are kept: the block of a save comes after all stored ones.    *)
LEMMA FileStep == IInv /\ [Next]_vars => FileInv'
<1> SUFFICES ASSUME IInv, [Next]_vars PROVE FileInv'
  OBVIOUS
<1>0. buf.hi - ret <= buf'.hi - ret'
  BY Forward
<1>t. /\ buf.hi \in Nat /\ buf'.hi \in Nat /\ ret \in {0, 1} /\ ret' \in {0, 1}
      /\ file \in Seq(Halves) /\ last \in Seq(Halves)
  BY TypeStep DEF IInv, TypeOK, Halves
<1> DEFINE Later(s) == Whole(s) /\ Ordered(s)
                       /\ \A i \in 1 .. Len(s) : s[i].hi <= buf'.hi - ret'
<1>1. Later(<<>>)
  BY DEF Whole, Ordered
<1>2. ASSUME NEW s \in Seq(Halves), Stored(s) PROVE Later(s)
  <2>1. ASSUME NEW i \in 1 .. Len(s) PROVE s[i].hi <= buf'.hi - ret'
    <3>1. s[i] \in Halves /\ s[i].hi <= buf.hi - ret
      BY <1>2 DEF Stored
    <3>2. s[i].hi \in Nat
      BY <3>1 DEF Halves
    <3> QED BY <1>0, <1>t, <3>1, <3>2
  <2> QED BY <1>2, <2>1 DEF Stored
<1>3. Later(file) /\ Later(last)
  BY <1>2, <1>t DEF IInv, FileInv
<1>4. ASSUME file' \in {file, <<>>}, last' \in {file, last, <<>>} PROVE FileInv'
  BY <1>1, <1>3, <1>4 DEF FileInv, Stored, Whole, Ordered
<1> HIDE DEF Later
<1>5. CASE Take \/ NothingToTake \/ Copy \/ Ack \/ Release
  BY <1>4, <1>5 DEF Take, NothingToTake, Copy, Ack, Release, disk
<1>6. ASSUME NEW ok \in BOOLEAN, Save(ok) PROVE FileInv'
  <2>1. CASE file' = file
    BY <1>4, <1>6, <2>1 DEF Save
  <2>2. CASE file' # file
    <3>1. file' = Append(file, buf) /\ last' = last /\ ret = 1 /\ ret' = 0
          /\ buf' = buf /\ buf.lo = buf.hi
      BY <1>6, <1>t, <2>2
         DEF Save, Outcome, Full, RetUsed, Goto, IInv, TypeOK, ShakeInv
    <3>2. Whole(file) /\ Ordered(file) /\ \A i \in 1 .. Len(file) : file[i].hi <= buf.hi - 1
      BY <3>1 DEF IInv, FileInv, Stored
    <3>3. /\ Len(file') = Len(file) + 1 /\ file'[Len(file) + 1] = buf
          /\ \A i \in 1 .. Len(file) : file'[i] = file[i]
          /\ Len(file) \in Nat
      BY <1>t, <3>1
    <3>3a. \A i \in 1 .. Len(file) : file[i].hi \in Nat
      <4> SUFFICES ASSUME NEW i \in 1 .. Len(file) PROVE file[i].hi \in Nat
        OBVIOUS
      <4>1. file[i] \in Halves
        BY <1>t
      <4> QED BY <4>1 DEF Halves
    <3>4. Whole(file')
      BY <3>1, <3>2, <3>3 DEF Whole
    <3>5. Ordered(file')
      <4> SUFFICES ASSUME NEW i \in 1 .. Len(file'), NEW j \in 1 .. Len(file'), i < j
                   PROVE  file'[i].hi < file'[j].hi
        BY DEF Ordered
      <4>1. CASE j = Len(file) + 1
        BY <1>t, <3>2, <3>3, <3>3a, <4>1
      <4>2. CASE j # Len(file) + 1
        BY <3>2, <3>3, <4>2 DEF Ordered
      <4> QED BY <4>1, <4>2
    <3>6. \A i \in 1 .. Len(file') : file'[i].hi <= buf'.hi - ret'
      BY <1>t, <3>1, <3>2, <3>3, <3>3a
    <3> QED BY <1>3, <3>1, <3>4, <3>5, <3>6
            DEF FileInv, Stored, Whole, Ordered, Later
  <2> QED BY <2>1, <2>2
<1>7. ASSUME NEW zero \in BOOLEAN, Stop(zero) PROVE FileInv'
  BY <1>4, <1>7 DEF Stop, Closed, Removed
<1>8. CASE Enter \/ NewFile \/ NewFileFails \/ NoNewFile \/ NoCut
  BY <1>4, <1>8 DEF Enter, NewFile, NewFileFails, NoNewFile, NoCut, disk
<1>9. CASE Cut
  BY <1>4, <1>9 DEF Cut, Closed
<1>10. CASE Environment \/ UNCHANGED vars
  BY <1>4, <1>10 DEF Environment, SetIndex, Arm, PlBlock, PlDrop, vars, disk
<1> QED BY <1>5, <1>6, <1>7, <1>8, <1>9, <1>10 DEF Next, Blocks, Files

(* IInv holds throughout.                                                  *)
LEMMA InvHolds == Spec => []IInv
<1>1. IInv /\ [Next]_vars => IInv'
  BY TypeStep, ShakeStep, FlagStep, FileStep DEF IInv
<1> QED BY <1>1, InvInit, PTL DEF Spec

(* Every variable keeps its type, and recv_bytes is 0 at every test.       *)
THEOREM TypeCorrect == Spec => []TypeOK
BY InvHolds, PTL DEF IInv

(* No block is stored that was overwritten while it was copied, stored     *)
(* twice or stored out of order.                                           *)
THEOREM BlocksInOrder == Spec => []InOrder
<1>1. IInv => InOrder
  BY DEF IInv, FileInv, Stored, InOrder
<1> QED BY <1>1, InvHolds, PTL

-----------------------------------------------------------------------------
(***************************************************************************)
(* The refinement of SliceFile.                                            *)
(***************************************************************************)

(* The numbers of a file's blocks, as a sequence.                          *)
LEMMA NumbersType ==
  ASSUME NEW s \in Seq(Halves)
  PROVE  Numbers(s) \in Seq(Int) /\ Len(Numbers(s)) = Len(s)
<1>1. \A i \in 1 .. Len(s) : s[i].hi - 1 \in Int
  <2> SUFFICES ASSUME NEW i \in 1 .. Len(s) PROVE s[i].hi - 1 \in Int
    OBVIOUS
  <2>1. s[i] \in Halves
    OBVIOUS
  <2> QED BY <2>1 DEF Halves
<1>2. Len(s) \in Nat
  OBVIOUS
<1> QED BY <1>1, <1>2 DEF Numbers

(* The numbers of an empty file.                                           *)
LEMMA NumbersEmpty == Numbers(<<>>) = <<>>
BY DEF Numbers

(* A block appended to the file is a number appended to the sequence.      *)
LEMMA NumbersAppend ==
  ASSUME NEW s \in Seq(Halves), NEW b \in Halves
  PROVE  Numbers(Append(s, b)) = Append(Numbers(s), b.hi - 1)
<1> DEFINE t == Append(s, b)
           u == Append(Numbers(s), b.hi - 1)
<1>1. t \in Seq(Halves) /\ Len(t) = Len(s) + 1 /\ Len(s) \in Nat
  OBVIOUS
<1>2. Numbers(t) \in Seq(Int) /\ Len(Numbers(t)) = Len(s) + 1
  BY <1>1, NumbersType
<1>3. b.hi - 1 \in Int
  BY DEF Halves
<1>4. Numbers(s) \in Seq(Int) /\ Len(Numbers(s)) = Len(s)
  BY NumbersType
<1>5. u \in Seq(Int) /\ Len(u) = Len(s) + 1
  BY <1>3, <1>4
<1>6. ASSUME NEW i \in 1 .. Len(s) + 1 PROVE Numbers(t)[i] = u[i]
  <2>1. Numbers(t)[i] = t[i].hi - 1
    BY <1>1 DEF Numbers
  <2>2. CASE i = Len(s) + 1
    BY <1>1, <1>3, <1>4, <2>1, <2>2
  <2>3. CASE i # Len(s) + 1
    <3>1. i \in 1 .. Len(s)
      BY <1>1, <2>3
    <3>2. t[i] = s[i] /\ u[i] = Numbers(s)[i]
      BY <1>1, <1>3, <1>4, <3>1
    <3>3. Numbers(s)[i] = s[i].hi - 1
      BY <3>1 DEF Numbers
    <3> QED BY <2>1, <3>2, <3>3
  <2> QED BY <2>2, <2>3
<1> HIDE DEF t, u
<1>7. Numbers(t) = u
  BY <1>1, <1>2, <1>5, <1>6
<1> QED BY <1>7 DEF t, u

(* A sequence is among its shortened forms.                                *)
LEMMA ShortenedSelf == ASSUME NEW s \in Seq(Int) PROVE s \in SliceFiles!Shortened(s)
<1>1. Len(s) \in {m \in 0 .. Len(s) : Len(s) < m + 1}
  OBVIOUS
<1>2. SubSeq(s, 1, Len(s)) = s
  OBVIOUS
<1> QED BY <1>1, <1>2 DEF SliceFiles!Shortened

(* The empty file.                                                         *)
LEMMA StreamInit == Init => SliceFiles!Init
BY NumbersEmpty DEF Init, SliceFiles!Init

(* What SliceFile sees is unchanged.                                       *)
Same == /\ buf'.hi - ret' = buf.hi - ret /\ (fd' = "open") = (fd = "open")
        /\ Numbers(file') = Numbers(file) /\ Numbers(last') = Numbers(last)
        /\ lost' = lost

(* A save appends a block, loses it to a failing write, or drops it.       *)
LEMMA SaveRefines ==
  ASSUME IInv, NEW ok \in BOOLEAN, Save(ok)
  PROVE  SliceFiles!Next \/ Same
<1> DEFINE k == buf.hi - ret
           cur == Numbers(file)
<1>t. /\ buf.hi \in Nat /\ ret \in {0, 1} /\ recv = 0 /\ buf \in Halves
      /\ file \in Seq(Halves) /\ lost \in Nat /\ alt \in {0, 1}
  BY DEF IInv, TypeOK, Halves
<1>1. CASE ret = 0
  <2>1. ret' = ret /\ buf' = buf /\ fd' = fd /\ file' = file /\ last' = last /\ lost' = lost
    BY <1>1, <1>t DEF Save, Full
  <2> QED BY <2>1 DEF Same
<1>2. CASE ret = 1
  <2>1. ret' = 0 /\ buf' = buf /\ fd' = fd /\ last' = last /\ buf'.hi - ret' = k + 1
    BY <1>2, <1>t DEF Save, Full, RetUsed
  <2>2. CASE alt = 0 /\ ok
    <3>1. file' = Append(file, buf) /\ lost' = lost /\ fd = "open"
      BY <1>2, <1>t, <2>2 DEF Save, Full, Outcome, IInv, FlagInv
    <3>2. Numbers(file') = Append(cur, k)
      BY <1>2, <1>t, <3>1, NumbersAppend
    <3> QED BY <2>1, <3>1, <3>2 DEF SliceFiles!Next, SliceFiles!Append1
  <2>3. CASE alt = 0 /\ ~ok
    <3>1. file' = file /\ lost' = lost + 1 /\ fd = "open"
      BY <1>2, <1>t, <2>3 DEF Save, Full, Outcome, IInv, FlagInv
    <3>2. cur \in SliceFiles!Shortened(cur)
      BY <1>t, NumbersType, ShortenedSelf
    <3> QED BY <2>1, <3>1, <3>2 DEF SliceFiles!Next, SliceFiles!LoseEnd
  <2>4. CASE alt = 1
    <3>1. file' = file /\ lost' = lost /\ fd = "none"
      BY <1>2, <1>t, <2>4 DEF Save, Full, IInv, FlagInv
    <3> QED BY <2>1, <3>1 DEF SliceFiles!Next, SliceFiles!Discard
  <2> QED BY <1>t, <2>2, <2>3, <2>4
<1> QED BY <1>t, <1>1, <1>2

(* A copy takes the next block over, which drops one left by a failed      *)
(* open().                                                                 *)
LEMMA CopyRefines ==
  ASSUME IInv, Copy
  PROVE  SliceFiles!Next \/ Same
<1>1. /\ buf'.hi = buf.hi + 1 /\ ret' = 1 /\ ret \in {0, 1} /\ buf.hi \in Nat
      /\ fd' = fd /\ file' = file /\ last' = last /\ lost' = lost
  BY DEF IInv, TypeOK, Halves, ShakeInv, Fresh, Copy, Goto, disk
<1>2. CASE ret = 0
  BY <1>1, <1>2 DEF Same
<1>3. CASE ret = 1
  <2>1. fd = "none"
    BY <1>3 DEF IInv, FlagInv, Copy, Goto
  <2>2. buf'.hi - ret' = buf.hi - ret + 1
    BY <1>1, <1>3
  <2> QED BY <1>1, <2>1, <2>2 DEF SliceFiles!Next, SliceFiles!Discard
<1> QED BY <1>1, <1>2, <1>3

(* A file that is opened is empty, and none was open.                      *)
LEMMA NewFileRefines ==
  ASSUME IInv, NewFile
  PROVE  SliceFiles!Next
<1>1. fd = "none" /\ file = <<>> /\ fd' = "open" /\ file' = file
  BY DEF IInv, TypeOK, FlagInv, NewFile, NeedsFile
<1>2. buf' = buf /\ ret' = ret /\ last' = last /\ lost' = lost
  BY DEF NewFile
<1> QED BY <1>1, <1>2 DEF SliceFiles!Next, SliceFiles!Open

(* Handing the slice back: a file that is open is finished; a block left   *)
(* over is dropped when none is.                                           *)
LEMMA HandBackRefines ==
  ASSUME IInv, pc \notin {"ack", "spin", "file", "save"}, buf' = buf, lost' = lost,
         HandBack, Closed(file)
  PROVE  /\ SliceFiles!Next \/ Same
         /\ fd = "open" => SliceFiles!Finish
<1>1. /\ ret' = 0 /\ ret \in {0, 1} /\ buf.hi \in Nat /\ fd \in {"open", "none"}
      /\ fd' = "none" /\ file' = <<>> /\ Numbers(file') = <<>>
  BY NumbersEmpty DEF HandBack, Closed, IInv, TypeOK, Halves
<1>2. CASE fd = "open"
  <2>1. ret = 0
    BY <1>1, <1>2 DEF IInv, TypeOK, FlagInv
  <2>2. buf'.hi - ret' = buf.hi - ret
    BY <1>1, <2>1
  <2>3. last' = file
    BY <1>2 DEF Closed
  <2>4. SliceFiles!Finish
    BY <1>1, <1>2, <2>2, <2>3 DEF SliceFiles!Finish, SliceFiles!Done
  <2> QED BY <2>4 DEF SliceFiles!Next
<1>3. CASE fd = "none"
  <2>1. file' = file /\ last' = last
    BY <1>1, <1>3 DEF Closed, IInv, FlagInv
  <2>2. CASE ret = 0
    BY <1>1, <1>3, <2>1, <2>2 DEF Same
  <2>3. CASE ret = 1
    <3>1. buf'.hi - ret' = buf.hi - ret + 1
      BY <1>1, <2>3
    <3> QED BY <1>1, <1>3, <2>1, <3>1 DEF SliceFiles!Next, SliceFiles!Discard
  <2> QED BY <1>1, <1>3, <2>2, <2>3
<1> QED BY <1>1, <1>2, <1>3

(* A stop that removes the file named: the open one is given up, a         *)
(* finished one goes.  A block left over would be left by an open() that   *)
(* failed, and then the name is that of no file.                           *)
LEMMA RemovedRefines ==
  ASSUME IInv, pc = "top", named, buf' = buf, lost' = lost, HandBack, Removed
  PROVE  SliceFiles!Next
<1>1. /\ ret' = 0 /\ fd \in {"open", "none"}
      /\ fd' = "none" /\ file' = <<>> /\ Numbers(file') = <<>> /\ Numbers(last') = <<>>
  BY NumbersEmpty DEF HandBack, Removed, IInv, TypeOK
<1>2. ret = 0
  BY DEF IInv, TypeOK, FlagInv
<1>3. buf'.hi - ret' = buf.hi - ret
  BY <1>1, <1>2
<1>4. CASE fd = "open"
  <2>1. SliceFiles!GiveUp
    BY <1>1, <1>3, <1>4 DEF SliceFiles!GiveUp, SliceFiles!Done
  <2> QED BY <2>1 DEF SliceFiles!Next
<1>5. CASE fd = "none"
  <2>1. file = <<>>
    BY <1>5 DEF IInv, FlagInv
  <2>2. SliceFiles!Remove
    BY <1>1, <1>3, <1>5, <2>1 DEF SliceFiles!Remove
  <2> QED BY <2>2 DEF SliceFiles!Next
<1> QED BY <1>1, <1>4, <1>5

(* The index files are SliceFile's: every block taken while the slice has  *)
(* its file is appended to it in order, or lost to a write that failed;    *)
(* the file is complete when a cut closes it; only a stop removes a file,  *)
(* the open one or the one finished last.                                  *)
THEOREM IndexImplementsSliceFile == Spec => Implements
<1>1. ASSUME IInv, [Next]_vars PROVE SliceFiles!Next \/ Same
  <2>1. CASE Take
    BY <2>1 DEF Take, Same, disk
  <2>2. CASE NothingToTake \/ Ack \/ Release
    BY <2>2 DEF NothingToTake, Ack, Release, Same, buffer, disk
  <2>3. CASE Copy
    BY <1>1, <2>3, CopyRefines
  <2>4. ASSUME NEW ok \in BOOLEAN, Save(ok) PROVE SliceFiles!Next \/ Same
    BY <1>1, <2>4, SaveRefines
  <2>5. ASSUME NEW zero \in BOOLEAN, Stop(zero) PROVE SliceFiles!Next \/ Same
    <3>1. pc = "top" /\ buf' = buf /\ lost' = lost /\ HandBack
      BY <2>5 DEF Stop, Goto
    <3>2. CASE zero /\ named
      <4>1. Removed
        BY <2>5, <3>2 DEF Stop
      <4> QED BY <1>1, <3>1, <3>2, <4>1, RemovedRefines
    <3>3. CASE ~(zero /\ named)
      <4>1. Closed(file)
        BY <2>5, <3>3 DEF Stop
      <4> QED BY <1>1, <3>1, <4>1, HandBackRefines
    <3> QED BY <3>2, <3>3
  <2>6. CASE Enter \/ NoNewFile \/ NoCut
    BY <2>6 DEF Enter, NoNewFile, NoCut, Same, buffer, disk
  <2>7. CASE NewFile
    BY <1>1, <2>7, NewFileRefines
  <2>8. CASE NewFileFails
    <3>1. fd = "none" /\ file = <<>>
      BY <1>1, <2>8 DEF IInv, TypeOK, FlagInv, NewFileFails, NeedsFile
    <3> QED BY <2>8, <3>1 DEF NewFileFails, Same, buffer
  <2>9. CASE Cut
    <3>1. /\ pc = "cut" /\ buf' = buf /\ lost' = lost /\ HandBack /\ Closed(file)
      BY <2>9 DEF Cut, Goto
    <3> QED BY <1>1, <3>1, HandBackRefines
  <2>10. CASE Environment
    BY <2>10 DEF Environment, SetIndex, Arm, PlBlock, PlDrop, Same, buffer, disk
  <2>11. CASE UNCHANGED vars
    BY <2>11 DEF vars, Same, buffer, disk
  <2> QED BY <1>1, <2>1, <2>2, <2>3, <2>4, <2>5, <2>6, <2>7, <2>8, <2>9, <2>10, <2>11
          DEF Next, Blocks, Files
<1>2. IInv /\ [Next]_vars => [SliceFiles!Next]_(SliceFiles!vars)
  BY <1>1 DEF Same, SliceFiles!vars
<1> QED BY <1>2, StreamInit, InvHolds, PTL DEF Spec, Implements, SliceFiles!Spec
=============================================================================
