---------------------------- MODULE IndexStream ----------------------------
(***************************************************************************)
(* The data path of index_recv_routine() of store.c: the PL lays a block   *)
(* of index data (BRAM_SIZE bytes, exactly one IDX_WRITE_THRESHOLD) into   *)
(* BRAM and raises index_buf_valid(); the thread copies the block out,     *)
(* releases it with index_buf_invalid() of ubram.c, and writes it to the   *)
(* file of the slice, if there is one.                                     *)
(*                                                                         *)
(* The order of the tests within a round matters here (a failed open()     *)
(* leaves a round in the middle), so each is a place of the thread.  When  *)
(* the flags, the stop word and FILE_MARK change is left open: that is the *)
(* business of module Recorder.                                            *)
(***************************************************************************)
EXTENDS Naturals, Sequences

CONSTANTS
  MaxBlocks,  (* bound on the blocks of the PL                             *)
  MaxLost     (* bound on writes that fail                                 *)

ASSUME IndexAssumption == MaxBlocks \in Nat /\ MaxLost \in Nat

VARIABLES
  \* the handshake with the PL
  bram,       (* number of the block in BRAM, from 1                       *)
  valid,      (* index_buf_valid(): word at 0x1048                         *)
  ack,        (* bram_vptr[1][6]                                           *)
  \* the thread
  pc,         (* the test it comes to next, or a place within one          *)
  buf,        (* index_buffer: the block each half was copied from         *)
  ret, recv,  (* ret_bytes and recv_bytes, in blocks                       *)
  fd,         (* "open" or "none"                                          *)
  file,       (* its blocks                                                *)
  last,       (* the blocks of the file closed last; <<>> once it is removed *)
  named,      (* file_name is that of the file opened last                 *)
  \* flags shared with the control loop
  index, alt, indexed,  (* chan0_index, chan0_index_alt, chan0_indexed     *)
  lost                  (* writes that failed                              *)

shake  == <<bram, valid, ack>>
buffer == <<buf, ret, recv>>
disk   == <<fd, file, last, named>>
flags  == <<index, alt, indexed>>
vars   == <<shake, pc, buffer, disk, flags, lost>>

Init ==
  /\ bram = 0 /\ valid = 0 /\ ack = 0
  /\ pc = "top" /\ buf = [lo |-> 0, hi |-> 0] /\ ret = 0 /\ recv = 0
  /\ fd = "none" /\ file = <<>> /\ last = <<>> /\ named = FALSE
  /\ index = 0 /\ alt = 1 /\ indexed = 0
  /\ lost = 0

Goto(from, to) == pc = from /\ pc' = to

-----------------------------------------------------------------------------
(* close(): the file, if there was one, is final.                          *)
Closed(content) ==
  /\ fd' = "none" /\ file' = <<>>
  /\ last' = IF fd = "open" THEN content ELSE last

(* remove() before close(): the file named is gone, the open one or, when  *)
(* a cut or a stop has closed it already, the finished one.                *)
Removed == fd' = "none" /\ file' = <<>> /\ last' = <<>>

(* What ends a slice, by a cut or a stop.                                  *)
HandBack ==
  /\ recv' = 0 /\ ret' = 0
  /\ index' = 0 /\ alt' = 1 /\ indexed' = 1

(* SY_STOP_STORE is set.  When chan1 has found its file empty (zero),      *)
(* file_name is removed first, open or not; before the first open() it is  *)
(* uninitialised, and names no file.                                       *)
Stop(zero) ==
  /\ Goto("top", "top")
  /\ HandBack
  /\ IF zero /\ named THEN Removed ELSE Closed(file)
  /\ UNCHANGED <<shake, buf, named, lost>>

(* if (!chan0_indexed): the round of a slice.                              *)
Enter ==
  /\ indexed = 0
  /\ Goto("top", "take")
  /\ UNCHANGED <<shake, buffer, disk, flags, lost>>

-----------------------------------------------------------------------------
(* if (index_buf_valid()): the block is copied, which takes its time ...   *)
Take ==
  /\ valid = 1
  /\ Goto("take", "copy")
  /\ buf' = [buf EXCEPT !.lo = bram]
  /\ UNCHANGED <<shake, ret, recv, disk, flags, lost>>

NothingToTake ==
  /\ valid = 0
  /\ Goto("take", "file")
  /\ UNCHANGED <<shake, buffer, disk, flags, lost>>

Copy ==
  /\ Goto("copy", "ack")
  /\ buf' = [buf EXCEPT !.hi = bram]
  /\ ret' = 1
  /\ UNCHANGED <<shake, recv, disk, flags, lost>>

(* ... and then released: the acknowledge is raised, and lowered once the  *)
(* PL has seen it.                                                         *)
Ack ==
  /\ Goto("ack", "spin")
  /\ ack' = 1
  /\ UNCHANGED <<bram, valid, buffer, disk, flags, lost>>

Unseen == TRUE                                 \* mutant: does not wait
Seen   == valid = 0

Release ==
  /\ Goto("spin", "file")
  /\ Seen
  /\ ack' = 0
  /\ UNCHANGED <<bram, valid, buffer, disk, flags, lost>>

-----------------------------------------------------------------------------
(* if (chan0_index_alt && !FILE_MARK): the file of the slice.              *)
EveryRound == TRUE                             \* mutant: the flag is not looked at
NeedsFile  == alt = 1

NewFile ==
  /\ NeedsFile
  /\ Goto("file", "save")
  /\ fd' = "open" /\ file' = <<>> /\ named' = TRUE
  /\ alt' = 0 /\ recv' = 0
  /\ UNCHANGED <<shake, buf, ret, last, index, indexed, lost>>

(* open() fails: continue, past the save and the test for a cut, with a    *)
(* block that was just taken still counted.                                *)
NewFileFails ==
  /\ NeedsFile
  /\ Goto("file", "top")
  /\ fd' = "none" /\ file' = <<>> /\ named' = FALSE
  /\ UNCHANGED <<shake, buffer, last, flags, lost>>

(* The slice has its file, or no name is on offer yet.                     *)
NoNewFile ==
  /\ Goto("file", "save")
  /\ UNCHANGED <<shake, buffer, disk, flags, lost>>

-----------------------------------------------------------------------------
FullAfter(n) == n > 1                          \* mutant: tests too late
Full(n)      == n = 1

RetKept == ret                                 \* mutant: as before 2018-08-21
RetUsed == 0

(* write(): its result is ignored, a block that fails is gone.  A short    *)
(* write, of a part of it, is left out.                                    *)
Outcome(ok) ==
  /\ ~ok => lost < MaxLost
  /\ lost' = IF ok THEN lost ELSE lost + 1

(* recv_bytes += ret_bytes; a block is written if the slice has a file,    *)
(* and dropped if it has none.                                             *)
Save(ok) ==
  /\ Goto("save", "cut")
  /\ IF Full(recv + ret)
     THEN /\ recv' = 0 /\ ret' = RetUsed
          /\ IF alt = 0
             THEN Outcome(ok) /\ file' = IF ok THEN Append(file, buf) ELSE file
             ELSE UNCHANGED <<file, lost>>
     ELSE recv' = recv + ret /\ UNCHANGED <<ret, file, lost>>
  /\ UNCHANGED <<shake, buf, fd, last, named, flags>>

(* if (chan0_index == 1) and nothing is left to write: the cut.            *)
CutWithTail == index = 1 /\ recv > 0           \* mutant: waits for a tail
CutDue      == index = 1 /\ recv = 0

Cut ==
  /\ CutDue
  /\ Goto("cut", "top")
  /\ HandBack
  /\ Closed(file)
  /\ UNCHANGED <<shake, buf, named, lost>>

NoCut ==
  /\ ~CutDue
  /\ Goto("cut", "top")
  /\ UNCHANGED <<shake, buffer, disk, flags, lost>>

Blocks == Take \/ NothingToTake \/ Copy \/ Ack \/ Release \/ \E ok \in BOOLEAN : Save(ok)

Files == \/ (\E zero \in BOOLEAN : Stop(zero)) \/ Enter
         \/ NewFile \/ NewFileFails \/ NoNewFile \/ Cut \/ NoCut

-----------------------------------------------------------------------------
(* The control loop: a cut, at any time; a new slice for a parked thread.  *)
SetIndex ==
  /\ index = 0 /\ index' = 1
  /\ UNCHANGED <<shake, pc, buffer, disk, alt, indexed, lost>>

Arm ==
  /\ indexed = 1 /\ indexed' = 0 /\ alt' = 1
  /\ UNCHANGED <<shake, pc, buffer, disk, index, lost>>

(* The PL (outside the repository): a block when the one before has been   *)
(* released, and valid until acknowledged.                                 *)
PlBlock ==
  /\ valid = 0 /\ ack = 0 /\ bram < MaxBlocks
  /\ bram' = bram + 1 /\ valid' = 1
  /\ UNCHANGED <<ack, pc, buffer, disk, flags, lost>>

PlDrop ==
  /\ valid = 1 /\ ack = 1
  /\ valid' = 0
  /\ UNCHANGED <<bram, ack, pc, buffer, disk, flags, lost>>

Environment == SetIndex \/ Arm \/ PlBlock \/ PlDrop

Next == Blocks \/ Files \/ Environment

Spec == Init /\ [][Next]_vars

(* Fairness: the thread is scheduled, and the PL answers an acknowledge    *)
(* (the spin of index_buf_invalid() has no other exit).                    *)
FairSpec == Spec /\ WF_vars(Blocks \/ Files) /\ WF_vars(PlDrop)

-----------------------------------------------------------------------------
(* Every variable keeps its type.  In particular recv_bytes is 0 whenever  *)
(* a block is copied (to &index_buffer[recv_bytes]) and whenever the cut   *)
(* is tested.                                                              *)
Halves == [lo : Nat, hi : Nat]
Places == {"top", "take", "copy", "ack", "spin", "file", "save", "cut"}

TypeOK ==
  /\ bram \in Nat /\ valid \in {0, 1} /\ ack \in {0, 1}
  /\ pc \in Places
  /\ buf \in Halves /\ ret \in {0, 1} /\ recv = 0
  /\ fd \in {"open", "none"} /\ file \in Seq(Halves) /\ last \in Seq(Halves)
  /\ named \in BOOLEAN
  /\ index \in {0, 1} /\ alt \in {0, 1} /\ indexed \in {0, 1}
  /\ lost \in Nat

(* Each block the PL lays down is copied whole, and stored at most once    *)
(* and in order, whatever opens and writes fail and whenever a stop or a   *)
(* cut comes.                                                              *)
Whole(s)   == \A i \in 1 .. Len(s) : s[i].lo = s[i].hi
Ordered(s) == \A i, j \in 1 .. Len(s) : i < j => s[i].hi < s[j].hi

InOrder == Whole(file) /\ Ordered(file) /\ Whole(last) /\ Ordered(last)

(* The thread implements SliceFile, with files of blocks: every block      *)
(* taken while the slice has a file is appended to it; one that is taken   *)
(* while it has none is dropped, unless its round opens the file or a      *)
(* later one does before the next block comes.  A stop may remove the open *)
(* file or the one finished last.                                          *)
Numbers(s) == [i \in 1 .. Len(s) |-> s[i].hi - 1]

SliceFiles ==
  INSTANCE SliceFile WITH Block <- 1, next <- buf.hi - ret, isOpen <- fd = "open",
                          cur <- Numbers(file), last <- Numbers(last)

Implements == SliceFiles!Spec

(* A cut that comes during a slice ends it, also while blocks keep coming, *)
(* are only half taken over, or were left over by a failed open(): given   *)
(* that a round which comes to the file gets past it again and again.  A   *)
(* failing open() leaves the round before the test for the cut, so that an *)
(* open() that fails for good, under a name still on offer, puts the cut   *)
(* off for good.                                                           *)
GetsPastOpen == []<>(pc = "file") => []<><<NewFile \/ NoNewFile>>_vars

CutTaken == GetsPastOpen => ((index = 1 /\ indexed = 0) ~> index = 0)
=============================================================================
