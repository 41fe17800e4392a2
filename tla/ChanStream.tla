---------------------------- MODULE ChanStream -----------------------------
(***************************************************************************)
(* The data path of a receive thread of store.c: chan_recv_routine(0) and  *)
(* chan1_recv(1).  A transfer puts one unit (DMA_SIZE bytes) at position   *)
(* read_bytes of the receive memory; when read_bytes reaches IFD_WRITE_MN  *)
(* the block is written to the slice's file; a cut writes what is left.    *)
(* chan1 then also pads the file with one more block and truncates it.     *)
(*                                                                         *)
(* The thread owns all of this but the flags, so one action is one pass    *)
(* from test to test.  Who sets the flags is left open here: the control   *)
(* loop and the commands (module Recorder) are the environment.            *)
(***************************************************************************)
EXTENDS Naturals, Sequences

CONSTANTS
  Channels,   (* the channels modelled: subset of {0, 1}                   *)
  Block,      (* units in one write: IFD_WRITE_MN / DMA_SIZE (12)          *)
  MaxUnits,   (* bound on units drained                                    *)
  MaxLost     (* bound on writes that fail                                 *)

ASSUME StreamAssumption ==
  /\ Channels \subseteq {0, 1} /\ Block \in Nat \ {0}
  /\ MaxUnits \in Nat /\ MaxLost \in Nat

VARIABLES
  chan,     (* the channel this thread serves                              *)
  pc,       (* "loop", or on chan1 a place within the cut                  *)
  next,     (* number of the next unit in the FIFO                         *)
  rxmem,    (* the receive memory, as far as a block reaches               *)
  pos,      (* read_bytes, in units                                        *)
  isOpen,   (* fd is an open file                                          *)
  file,     (* the content of that file, on disk                           *)
  length,   (* chan1's length, taken before the padding                    *)
  last,     (* the content of the file closed last; <<>> once it is removed *)
  named,    (* chan0's file_name is that of the file opened last           *)
  slice, stored, alt,   (* chan_slice, chan_stored, chan_slice_alt         *)
  lost      (* writes that failed; nobody looks at write()'s result        *)

buffer == <<rxmem, pos>>
disk   == <<isOpen, file, length, last, named>>
flags  == <<slice, stored, alt>>
vars   == <<chan, pc, next, buffer, disk, flags, lost>>

Init ==
  /\ chan \in Channels /\ pc = "loop"
  /\ next = 0 /\ rxmem = [i \in 0 .. Block - 1 |-> 0] /\ pos = 0
  /\ isOpen = FALSE /\ file = <<>> /\ length = 0 /\ last = <<>> /\ named = FALSE
  /\ slice = 0 /\ stored = 0 /\ alt = 1
  /\ lost = 0

(* The first n units of the receive memory mem.                            *)
Units(mem, n) == [i \in 1 .. n |-> mem[i - 1]]

(* The outcome of write(fd, rxmem, n), not called for n = 0: all of it is  *)
(* written, or nothing because it fails (disk full, or no file is open).   *)
(* A short write, of a part of it, is left out.                            *)
Outcome(n, ok) ==
  /\ ok => isOpen \/ n = 0
  /\ ~ok => n > 0 /\ (isOpen => lost < MaxLost)
  /\ lost' = IF ok \/ ~isOpen THEN lost ELSE lost + 1

Written(mem, n, ok) == IF ok THEN file \o Units(mem, n) ELSE file

(***************************************************************************)
(* Draining the FIFO.                                                      *)
(***************************************************************************)
CountAttempts(ok) == 1                         \* mutant: ignores the result
Returned(ok)      == IF ok THEN 1 ELSE 0

FullAfter(n) == n > Block                      \* mutant: tests too late
Full(n)      == n = Block

(* chan0 drains only once it has a file for the slice; chan1 always.       *)
Drains == stored = 0 /\ (chan = 0 => alt = 0)

(* One transfer (dma ok or not), and the write it may complete.            *)
Receive(dma, ok) ==
  /\ pc = "loop" /\ Drains /\ next < MaxUnits
  /\ next' = next + (IF dma THEN 1 ELSE 0)
  /\ rxmem' = IF dma THEN [rxmem EXCEPT ![pos] = next] ELSE rxmem
  /\ IF Full(pos + Returned(dma))
     THEN /\ Outcome(Block, ok)
          /\ file' = Written(rxmem', Block, ok)
          /\ pos' = 0
     ELSE pos' = pos + Returned(dma) /\ UNCHANGED <<file, lost>>
  /\ UNCHANGED <<chan, pc, isOpen, length, last, named, flags>>

(***************************************************************************)
(* Files.                                                                  *)
(***************************************************************************)

(* chan0's new file, under a name chan1 has offered.  fd[] is unsigned: a  *)
(* failed open() passes for a file, of a name that no file has.            *)
NewFile(ok) ==
  /\ chan = 0 /\ pc = "loop" /\ stored = 0 /\ alt = 1
  /\ isOpen' = ok /\ file' = <<>> /\ alt' = 0 /\ named' = ok
  /\ UNCHANGED <<chan, pc, next, buffer, length, last, slice, stored, lost>>

(* What close() leaves: the file, if there was one, is finished.           *)
Closed(content) ==
  /\ isOpen' = FALSE /\ file' = <<>>
  /\ last' = IF isOpen THEN content ELSE last

(* remove() before close(): the file named is gone, the open one or, when  *)
(* a cut or a stop has closed it already, the finished one.                *)
Removed == isOpen' = FALSE /\ file' = <<>> /\ last' = <<>>

(* The cut on chan0: the tail is written, the file closed and the slice    *)
(* handed back.                                                            *)
Cut0(ok) ==
  /\ chan = 0 /\ pc = "loop" /\ stored = 0 /\ slice = 1
  /\ Outcome(pos, ok)
  /\ Closed(Written(rxmem, pos, ok))
  /\ pos' = 0 /\ slice' = 0 /\ stored' = 1
  /\ UNCHANGED <<chan, pc, next, rxmem, length, named, alt>>

(* The cut on chan1: the tail is written and the length taken ...          *)
Cut1(ok) ==
  /\ chan = 1 /\ pc = "loop" /\ stored = 0 /\ slice = 1
  /\ pc' = "padding"
  /\ Outcome(pos, ok)
  /\ file' = Written(rxmem, pos, ok)
  /\ length' = Len(file')
  /\ UNCHANGED <<chan, next, buffer, isOpen, last, named, flags>>

(* ... a whole block is written behind it ...                              *)
Pad(ok) ==
  /\ pc = "padding"
  /\ ok => isOpen
  /\ pc' = "truncating"
  /\ file' = IF ok THEN file \o Units(rxmem, Block) ELSE file
  /\ UNCHANGED <<chan, next, buffer, isOpen, length, last, named, flags, lost>>

(* ... ftruncate() takes it away again, and the file is closed.            *)
Untruncated == file                            \* mutant: ftruncate left out
Truncated   == SubSeq(file, 1, length)

Truncate ==
  /\ pc = "truncating"
  /\ pc' = "naming"
  /\ Closed(Truncated)
  /\ UNCHANGED <<chan, next, buffer, length, named, flags, lost>>

(* chan1's next file.  If open() fails the cut comes again.                *)
NextFile(ok) ==
  /\ pc = "naming"
  /\ pc' = "loop"
  /\ isOpen' = ok
  /\ IF ok THEN pos' = 0 /\ slice' = 0 /\ stored' = 1
           ELSE UNCHANGED <<pos, slice, stored>>
  /\ UNCHANGED <<chan, next, rxmem, file, length, last, named, alt, lost>>

(***************************************************************************)
(* Commands.                                                               *)
(***************************************************************************)

(* STAR_STORE on chan1: the buffer is emptied, a new file opened; one that *)
(* is still open is left as it stands.                                     *)
Start(ok) ==
  /\ chan = 1 /\ pc = "loop"
  /\ pos' = 0
  /\ isOpen' = ok /\ file' = <<>>
  /\ last' = IF isOpen THEN file ELSE last
  /\ UNCHANGED <<chan, pc, next, rxmem, length, named, flags, lost>>

(* MN_STOP_STORE: what is buffered is dropped.  When chan1 has found its   *)
(* own file empty (zero), file_name is removed first, open or not.         *)
Stop0(zero) ==
  /\ chan = 0 /\ pc = "loop"
  /\ IF zero /\ named THEN Removed ELSE Closed(file)
  /\ pos' = 0 /\ slice' = 0 /\ stored' = 1
  /\ UNCHANGED <<chan, pc, next, rxmem, length, named, alt, lost>>

(* LS_STOP_STORE: only the file is closed (an open, empty one is removed:  *)
(* of a closed one lseek() tells no length); what is buffered stays until  *)
(* a start.                                                                *)
Stop1 ==
  /\ chan = 1 /\ pc = "loop"
  /\ Closed(file)
  /\ UNCHANGED <<chan, pc, next, buffer, length, named, flags, lost>>

(* The control loop: a cut, at any time; a new slice for a parked thread.  *)
SetSlice ==
  /\ slice = 0 /\ slice' = 1
  /\ UNCHANGED <<chan, pc, next, buffer, disk, stored, alt, lost>>

Arm ==
  /\ stored = 1 /\ stored' = 0 /\ alt' = 1
  /\ UNCHANGED <<chan, pc, next, buffer, disk, slice, lost>>

Files ==
  \/ \E ok \in BOOLEAN : NewFile(ok) \/ Cut0(ok) \/ Cut1(ok) \/ Pad(ok) \/ NextFile(ok)
  \/ Truncate

Commands == (\E b \in BOOLEAN : Start(b) \/ Stop0(b)) \/ Stop1 \/ SetSlice \/ Arm

Next == (\E dma, ok \in BOOLEAN : Receive(dma, ok)) \/ Files \/ Commands

Spec == Init /\ [][Next]_vars

-----------------------------------------------------------------------------
(* Every variable keeps its type.  In particular read_bytes is never at or *)
(* past IFD_WRITE_MN when a transfer starts, although it is only compared  *)
(* with ==, and a transfer always lands inside the block.                  *)
TypeOK ==
  /\ chan \in Channels
  /\ pc \in {"loop", "padding", "truncating", "naming"}
  /\ next \in Nat /\ lost \in Nat /\ length \in Nat
  /\ rxmem \in [0 .. Block - 1 -> Nat] /\ pos \in 0 .. Block - 1
  /\ isOpen \in BOOLEAN /\ file \in Seq(Nat) /\ last \in Seq(Nat) /\ named \in BOOLEAN
  /\ slice \in {0, 1} /\ stored \in {0, 1} /\ alt \in {0, 1}

(* The part of the file that is there to stay, during chan1's padding too. *)
Kept == IF pc = "truncating" THEN SubSeq(file, 1, length) ELSE file

Increasing(s) == \A i, j \in 1 .. Len(s) : i < j => s[i] < s[j]

(* Whatever transfers and writes fail and whenever a cut, stop or start    *)
(* comes, no unit is ever stored twice or out of order: a file and what is *)
(* buffered behind it, and each finished file, hold units in FIFO order.   *)
InOrder ==
  /\ Increasing(Kept \o Units(rxmem, IF pc = "loop" THEN pos ELSE 0))
  /\ Increasing(last)

(* The receive thread implements SliceFile: what it has buffered counts as *)
(* appended, the padding does not, and a stop may remove the open file or  *)
(* the one finished last.                                                  *)
Content ==
  IF ~isOpen THEN <<>>
  ELSE IF pc = "loop" THEN file \o Units(rxmem, pos) ELSE Kept

SliceFiles == INSTANCE SliceFile WITH cur <- Content

Implements == SliceFiles!Spec
=============================================================================
