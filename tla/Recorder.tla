----------------------------- MODULE Recorder ------------------------------
(***************************************************************************)
(* The recording core of store.c: the control loop (store_control), the    *)
(* three receive threads (chan0 "mn", chan1 "ls", index "sy"), the control *)
(* words in BRAM through which the command server starts and stops them    *)
(* (tcp_process.c), and the FPGA ("PL") on the other side of the words.    *)
(*                                                                         *)
(* Data is left out: a chunk drained from a FIFO or written to a file does *)
(* not change any variable below.  What is kept is every shared flag, who  *)
(* writes it and in which order: a step is one visit of a thread to the    *)
(* shared state, so threads interleave between a test and what follows.    *)
(*                                                                         *)
(* All four threads are endless polling loops, while (1) { if ... if ... },*)
(* that keep nothing from one test to the next.  A thread between two      *)
(* tests is at "loop", and each if is an action guarded by its condition:  *)
(* a test that fails changes nothing.  The tests of a round may so be seen *)
(* in any order, which only adds behaviours.                               *)
(***************************************************************************)
EXTENDS Naturals

CONSTANTS
  CycMark,       (* cyc_mark: slots of the file name ring (128)            *)
  MaxFileCount,  (* MAX_FILE_COUNT: the control loop stops arming there    *)
  Commands,      (* commands that may arrive: subset of start, stop, full  *)
  CutChans,      (* channels on which the PL ends slices                   *)
  Patient,       (* stops come only while recording, starts only after the *)
                 (* last stop was taken up                                 *)
  MaxOrders,     (* bound on commands carried out                          *)
  MaxFails       (* bound on failing open() calls                          *)

ASSUME RecorderAssumption ==
  /\ CycMark \in Nat \ {0}
  /\ MaxFileCount \in Nat \ {0} /\ MaxOrders \in Nat /\ MaxFails \in Nat
  /\ Commands \subseteq {"start", "stop", "full"}
  /\ CutChans \subseteq {0, 1}
  /\ Patient \in BOOLEAN

Bit       == {0, 1}
Chans     == {0, 1}
Workers   == {"mn", "ls", "sy"}
Followers == {"mn", "sy"}    \* they open files under the names ls gives out
Threads   == Workers \union {"ctl", "op"}
FdStates  == {"unset", "open", "closed", "failed"}

VARIABLES
  \* BRAM words and GPIO pins, shared with the PL and the command server
  starStore,      (* STAR_STORE   bram_vptr[1][18]                         *)
  fileMark,       (* FILE_MARK    bram_vptr[1][19]: 0 "a name is ready"    *)
  stopWord,       (* LS_, MN_, SY_STOP_STORE  bram_vptr[1][22..24]         *)
  workState,      (* device state bram_vptr[1][25]                         *)
  source,         (* GPIO 0: data source enabled                           *)
  flowReq,        (* GPIO 13: flow_ctrl_req(0)                             *)
  granted,        (* the PL streams a chan0 slice it was granted           *)
  cutReq, cutAck, (* per channel, bram_vptr[1][518/519] and [3/4]          *)
  \* globals of store.c
  chanSlice, chanStored, chanSliceAlt,     (* chan_slice, _stored, _alt[0] *)
  chan0Index, chan0IndexAlt, chan0Indexed,
  sliceCount,     (* slice_count[] of store_control                        *)
  fileNames,      (* file_name_all[]: number + 1 of the name in each slot  *)
  lsNum, fileNum, (* ls_file_num; mn_file_num and sy_file_num              *)
  \* thread-local
  pc,             (* where each thread is                                  *)
  opCmd,          (* the command the server is executing                   *)
  loaded,         (* mn_, sy_file_num as loaded for the name and the ++    *)
  fd,             (* each worker's descriptor                              *)
  orders, fails   (* counters of the bounds                                *)

words   == <<starStore, fileMark, stopWord, workState>>
plVars  == <<source, flowReq, granted, cutReq, cutAck>>
chan0   == <<chanSliceAlt, chan0Index, chan0IndexAlt, chan0Indexed>>
flags   == <<chanSlice, chanStored, chan0, sliceCount>>
numbers == <<fileNames, lsNum, fileNum, loaded>>
bounds  == <<orders, fails>>
vars    == <<words, plVars, flags, numbers, pc, opCmd, fd, bounds>>

Goto(p, from, to) ==
  /\ pc[p] = from
  /\ pc' = [pc EXCEPT ![p] = to]

(* What BRAM, the pins and the PL hold after power-on, store_init() and    *)
(* main(), and what the program's own variables begin with.                *)
BoardInit ==
  /\ starStore = 0 /\ fileMark = 1
  /\ stopWord = [w \in Workers |-> 0]
  /\ workState = "ready"
  /\ source = 0 /\ flowReq = 0 /\ granted = 0
  /\ cutReq = [c \in Chans |-> 0] /\ cutAck = [c \in Chans |-> 0]

FirstPc == [p \in Threads |-> IF p = "mn" THEN "wait" ELSE "loop"]

ProgramInit ==
  /\ chanSlice = [c \in Chans |-> 0] /\ chanStored = [c \in Chans |-> 0]
  /\ chanSliceAlt = 1 /\ chan0Index = 0 /\ chan0IndexAlt = 1 /\ chan0Indexed = 0
  /\ sliceCount = [c \in Chans |-> 1]
  /\ fileNames = [i \in 0 .. CycMark - 1 |-> 0]
  /\ lsNum = 0 /\ fileNum = [w \in Followers |-> 0]
  /\ loaded = [w \in Followers |-> 0]
  /\ pc = FirstPc
  /\ opCmd = "stop"
  /\ fd = [w \in Workers |-> "unset"]

Init == BoardInit /\ ProgramInit /\ orders = 0 /\ fails = 0

-----------------------------------------------------------------------------
(* The control loop: store_control() and wait_slice().                     *)

(* Both chan0 threads have handed their slice back.                        *)
ArmOnEither == chan0Indexed = 1 \/ chanStored[0] = 1    \* mutant
ArmOnIndex  == chan0Indexed = 1                         \* mutant
ArmReady == chan0Indexed = 1 /\ chanStored[0] = 1

LimitInclusive(c) == sliceCount[c] <= MaxFileCount      \* mutant
BelowLimit(c)     == sliceCount[c] < MaxFileCount

(* flow_ctrl_ack(0): a pending request is granted.  (A reset_pl() since    *)
(* the request was seen has withdrawn it: the pulse is then lost.)         *)
FlowAck ==
  /\ flowReq' = 0
  /\ granted' = IF flowReq = 1 THEN 1 ELSE granted

(* Both threads are ready, the limit is not reached, the PL asks for flow. *)
CtlSeesFlow ==
  /\ Goto("ctl", "loop", "arming")
  /\ ArmReady /\ BelowLimit(0) /\ flowReq = 1
  /\ UNCHANGED <<words, plVars, flags, numbers, opCmd, fd, bounds>>

(* The request is acknowledged and a new slice opens on both threads.      *)
CtlArm0 ==
  /\ Goto("ctl", "arming", "loop")
  /\ FlowAck
  /\ chanSliceAlt' = 1 /\ chan0IndexAlt' = 1
  /\ chan0Indexed' = 0
  /\ chanStored' = [chanStored EXCEPT ![0] = 0]
  /\ sliceCount' = [sliceCount EXCEPT ![0] = @ + 1]
  /\ UNCHANGED <<words, source, cutReq, cutAck, chanSlice, chan0Index,
                 numbers, opCmd, fd, bounds>>

(* chan1 has no flow control: a slice handed back is reopened at once.     *)
CtlArm1 ==
  /\ Goto("ctl", "loop", "loop")
  /\ chanStored[1] = 1 /\ BelowLimit(1)
  /\ chanStored' = [chanStored EXCEPT ![1] = 0]
  /\ sliceCount' = [sliceCount EXCEPT ![1] = @ + 1]
  /\ UNCHANGED <<words, plVars, chanSlice, chan0, numbers, opCmd, fd, bounds>>

AckPc(c) == IF c = 0 THEN "ack0" ELSE "ack1"

(* chan_cut_req(c) is set: chan_cut_ack(c) raises the acknowledge word.    *)
CtlCut(c) ==
  /\ cutReq[c] = 1
  /\ Goto("ctl", "loop", AckPc(c))
  /\ cutAck' = [cutAck EXCEPT ![c] = 1]
  /\ UNCHANGED <<words, source, flowReq, granted, cutReq, flags, numbers,
                 opCmd, fd, bounds>>

(* Its spin ends when the PL drops the request: the acknowledge falls and  *)
(* the receive threads are told to end their slice.                        *)
CtlCutDone(c) ==
  /\ cutReq[c] = 0
  /\ Goto("ctl", AckPc(c), "loop")
  /\ cutAck' = [cutAck EXCEPT ![c] = 0]
  /\ chanSlice' = [chanSlice EXCEPT ![c] = 1]
  /\ chan0Index' = IF c = 0 THEN 1 ELSE chan0Index
  /\ UNCHANGED <<words, source, flowReq, granted, cutReq, chanStored,
                 chanSliceAlt, chan0IndexAlt, chan0Indexed, sliceCount,
                 numbers, opCmd, fd, bounds>>

Control == CtlSeesFlow \/ CtlArm0 \/ CtlArm1 \/ \E c \in Chans : CtlCut(c) \/ CtlCutDone(c)

-----------------------------------------------------------------------------
(* open(): a descriptor, or a failure (at most MaxFails of them).          *)
Open(w, ok) ==
  /\ ok \/ fails < MaxFails
  /\ fd' = [fd EXCEPT ![w] = IF ok THEN "open" ELSE "failed"]
  /\ fails' = IF ok THEN fails ELSE fails + 1
  /\ UNCHANGED orders

Close(w) == fd' = [fd EXCEPT ![w] = "closed"]

Taken(w) == stopWord' = [stopWord EXCEPT ![w] = 0]

(* XX_STOP_STORE was seen set; the thread goes to its stop branch.         *)
SeesStop(w) ==
  /\ stopWord[w] = 1
  /\ Goto(w, "loop", "stopping")
  /\ UNCHANGED <<words, plVars, flags, numbers, opCmd, fd, bounds>>

(* The stop branch's last call.                                            *)
LeaveOpen(w) == fd' = fd                                \* mutant
StopEnd(w)   == Close(w)

StopClose(w) ==
  /\ Goto(w, "closing", "loop")
  /\ StopEnd(w)
  /\ UNCHANGED <<words, plVars, flags, numbers, opCmd, bounds>>

(* sprintf of the file name; the counter is loaded for its increment.      *)
TakeName(w) ==
  /\ Goto(w, "naming", "opening")
  /\ loaded' = [loaded EXCEPT ![w] = fileNum[w]]
  /\ UNCHANGED <<words, plVars, flags, fileNames, lsNum, fileNum, opCmd, fd,
                 bounds>>

(* xx_file_num++ is stored whether or not the open that follows succeeds.  *)
Advance(w) ==
  /\ fileNum' = [fileNum EXCEPT ![w] = loaded[w] + 1]
  /\ loaded' = [loaded EXCEPT ![w] = 0]
  /\ UNCHANGED <<fileNames, lsNum>>

(***************************************************************************)
(* chan0: chan0_recv_routine() and chan_recv_routine(0).                   *)
(***************************************************************************)

(* Before anything else the thread waits for the first flow request.       *)
MnFirstFlow ==
  /\ flowReq = 1
  /\ Goto("mn", "wait", "flow")
  /\ UNCHANGED <<words, plVars, flags, numbers, opCmd, fd, bounds>>

(* It acknowledges the request and enters its loop.                        *)
MnFirstAck ==
  /\ Goto("mn", "flow", "loop")
  /\ FlowAck
  /\ UNCHANGED <<words, source, cutReq, cutAck, flags, numbers, opCmd, fd,
                 bounds>>

StayInSlice == chanStored                               \* mutant
Park        == [chanStored EXCEPT ![0] = 1]

(* The stop branch: the thread parks itself and takes the word back; the   *)
(* close comes after that (StopClose).                                     *)
MnStop ==
  /\ Goto("mn", "stopping", "closing")
  /\ chanSlice' = [chanSlice EXCEPT ![0] = 0]
  /\ chanStored' = Park
  /\ Taken("mn")
  /\ UNCHANGED <<starStore, fileMark, workState, plVars, chan0, sliceCount,
                 numbers, opCmd, fd, bounds>>

(* if (!chan_stored) { if (chan_slice_alt && !FILE_MARK) ...               *)
MnNewFileParked == chanSliceAlt = 1 /\ fileMark = 0      \* mutant
MnNewFile == chanStored[0] = 0 /\ chanSliceAlt = 1 /\ fileMark = 0

MnSeesName ==
  /\ MnNewFile
  /\ Goto("mn", "loop", "naming")
  /\ UNCHANGED <<words, plVars, flags, numbers, opCmd, fd, bounds>>

(* open() of the new file.  fd[] is unsigned, so "fd < 0" never holds: a   *)
(* failed open is taken for a new file.                                    *)
MnOpen(ok) ==
  /\ Goto("mn", "opening", "marking")
  /\ Advance("mn")
  /\ Open("mn", ok)
  /\ chanSliceAlt' = 0
  /\ UNCHANGED <<words, plVars, chanSlice, chanStored, chan0Index,
                 chan0IndexAlt, chan0Indexed, sliceCount, opCmd>>

(* FILE_MARK = 1: the name is used up.                                     *)
MnMark ==
  /\ Goto("mn", "marking", "loop")
  /\ fileMark' = 1
  /\ UNCHANGED <<starStore, stopWord, workState, plVars, flags, numbers,
                 opCmd, fd, bounds>>

(* if (chan_slice) inside the slice: write the tail, close, hand it back.  *)
MnCutWithFile == chanStored[0] = 0 /\ chanSlice[0] = 1 /\ chanSliceAlt = 0  \* mutant
MnCutReady == chanStored[0] = 0 /\ chanSlice[0] = 1

MnCut ==
  /\ MnCutReady
  /\ Goto("mn", "loop", "loop")
  /\ chanSlice' = [chanSlice EXCEPT ![0] = 0]
  /\ chanStored' = Park
  /\ Close("mn")
  /\ UNCHANGED <<words, plVars, chan0, sliceCount, numbers, opCmd, bounds>>

Mn == \/ MnFirstFlow \/ MnFirstAck \/ SeesStop("mn") \/ MnStop \/ StopClose("mn")
      \/ MnSeesName \/ TakeName("mn") \/ (\E ok \in BOOLEAN : MnOpen(ok))
      \/ MnMark \/ MnCut

(***************************************************************************)
(* chan1: chan1_recv(1), which also names the files of all three threads.  *)
(***************************************************************************)

(* STAR_STORE seen: directory, first name, first file.  If open() fails    *)
(* the loop comes round with STAR_STORE still set.                         *)
LsStart(ok) ==
  /\ starStore = 1
  /\ Goto("ls", "loop", IF ok THEN "starting" ELSE "loop")
  /\ fileNames' = [fileNames EXCEPT ![0] = 1]
  /\ lsNum' = 0
  /\ Open("ls", ok)
  /\ UNCHANGED <<words, plVars, flags, fileNum, loaded, opCmd>>

(* The three counters restart; STAR_STORE = 0.                             *)
LsStarted ==
  /\ Goto("ls", "starting", "offering")
  /\ fileNum' = [w \in Followers |-> 0]
  /\ lsNum' = lsNum + 1
  /\ starStore' = 0
  /\ UNCHANGED <<fileMark, stopWord, workState, plVars, flags, fileNames,
                 loaded, opCmd, fd, bounds>>

(* FILE_MARK = 0: the first name may be used.                              *)
LsOffer ==
  /\ Goto("ls", "offering", "loop")
  /\ fileMark' = 0
  /\ UNCHANGED <<starStore, stopWord, workState, plVars, flags, numbers,
                 opCmd, fd, bounds>>

(* The stop branch: the word is taken back, then the file is closed.       *)
LsStop ==
  /\ Goto("ls", "stopping", "closing")
  /\ Taken("ls")
  /\ UNCHANGED <<starStore, fileMark, workState, plVars, flags, numbers,
                 opCmd, fd, bounds>>

SlotPastEnd(n) == n % (CycMark + 1)                     \* mutant
Slot(n)        == n % CycMark

(* The cut: close the file, name and open the next one.  If that fails the *)
(* loop comes round with the cut still pending and the number used up.     *)
LsCut(ok) ==
  /\ chanStored[1] = 0 /\ chanSlice[1] = 1
  /\ Goto("ls", "loop", IF ok THEN "cutDone" ELSE "loop")
  /\ fileNames' = [fileNames EXCEPT ![Slot(lsNum)] = lsNum + 1]
  /\ lsNum' = lsNum + 1
  /\ Open("ls", ok)
  /\ UNCHANGED <<words, plVars, flags, fileNum, loaded, opCmd>>

(* FILE_MARK = 0 offers the new name; the slice is handed back.            *)
LsCutDone ==
  /\ Goto("ls", "cutDone", "loop")
  /\ fileMark' = 0
  /\ chanSlice' = [chanSlice EXCEPT ![1] = 0]
  /\ chanStored' = [chanStored EXCEPT ![1] = 1]
  /\ UNCHANGED <<starStore, stopWord, workState, plVars, chan0, sliceCount,
                 numbers, opCmd, fd, bounds>>

Ls == \/ (\E ok \in BOOLEAN : LsStart(ok) \/ LsCut(ok)) \/ LsStarted
      \/ LsOffer \/ SeesStop("ls") \/ LsStop \/ StopClose("ls") \/ LsCutDone

(***************************************************************************)
(* index: index_recv_routine().                                            *)
(***************************************************************************)

(* chan0_index = 0, chan0_index_alt = 1, chan0_indexed = 1.                *)
SyEnd ==
  /\ chan0Index' = 0 /\ chan0IndexAlt' = 1 /\ chan0Indexed' = 1
  /\ UNCHANGED <<chanSlice, chanStored, chanSliceAlt, sliceCount>>

SyStop ==
  /\ Goto("sy", "stopping", "closing")
  /\ SyEnd
  /\ Taken("sy")
  /\ UNCHANGED <<starStore, fileMark, workState, plVars, numbers, opCmd, fd,
                 bounds>>

(* if (!chan0_indexed) { ... if (chan0_index_alt && !FILE_MARK) ...        *)
SyNewFileAgain == chan0Indexed = 0 /\ fileMark = 0       \* mutant
SyNewFile == chan0Indexed = 0 /\ chan0IndexAlt = 1 /\ fileMark = 0

SySeesName ==
  /\ SyNewFile
  /\ Goto("sy", "loop", "naming")
  /\ UNCHANGED <<words, plVars, flags, numbers, opCmd, fd, bounds>>

(* A failed open is retried in the next round, under the next name.        *)
SyOpen(ok) ==
  /\ Goto("sy", "opening", "loop")
  /\ Advance("sy")
  /\ Open("sy", ok)
  /\ chan0IndexAlt' = IF ok THEN 0 ELSE chan0IndexAlt
  /\ UNCHANGED <<words, plVars, chanSlice, chanStored, chanSliceAlt,
                 chan0Index, chan0Indexed, sliceCount, opCmd>>

(* if (chan0_index) inside the slice: close and hand it back.  (recv_bytes *)
(* is always 0 here: a block, BRAM_SIZE, is as long as IDX_WRITE_THRESHOLD.) *)
SyCut ==
  /\ chan0Indexed = 0 /\ chan0Index = 1
  /\ Goto("sy", "loop", "loop")
  /\ SyEnd
  /\ Close("sy")
  /\ UNCHANGED <<words, plVars, numbers, opCmd, bounds>>

Sy == \/ SeesStop("sy") \/ SyStop \/ StopClose("sy") \/ SySeesName
      \/ TakeName("sy") \/ (\E ok \in BOOLEAN : SyOpen(ok)) \/ SyCut

-----------------------------------------------------------------------------
(***************************************************************************)
(* The command server, process_conn_server() of tcp_process.c, with one    *)
(* connection.  The words are written one after the other.                 *)
(***************************************************************************)

(* Every worker has taken up the last stop (mn cannot before its first     *)
(* flow request).                                                          *)
StopsTaken == \A w \in Workers : stopWord[w] = 0 \/ pc[w] = "wait"

(* A command is taken from the connection.                                 *)
Order(cmd, next) ==
  /\ cmd \in Commands /\ orders < MaxOrders
  /\ Goto("op", "loop", next)
  /\ opCmd' = cmd /\ orders' = orders + 1
  /\ UNCHANGED fails

(* CMD_SET_START, accepted only in state WORK_READY: reset_pl() and the    *)
(* stop words are cleared, whether or not the workers have seen them.      *)
OpStart ==
  /\ Order("start", "star")
  /\ workState = "ready" /\ (Patient => StopsTaken)
  /\ workState' = "record"
  /\ flowReq' = 0 /\ granted' = 0 /\ cutReq' = [c \in Chans |-> 0]
  /\ stopWord' = [w \in Workers |-> 0]
  /\ UNCHANGED <<starStore, fileMark, source, cutAck, flags, numbers, fd>>

(* CMD_SET_STOP, accepted in every state.                                  *)
OpStop ==
  /\ Order("stop", "enable")
  /\ Patient => workState = "record"
  /\ workState' = "ready"
  /\ stopWord' = [w \in Workers |-> 1]
  /\ UNCHANGED <<starStore, fileMark, plVars, flags, numbers, fd>>

(* The check before each command finds the disk full while recording: the  *)
(* source is switched off, the stop words are left alone.                  *)
OpFull ==
  /\ Order("full", "enable")
  /\ workState = "record"
  /\ UNCHANGED <<words, plVars, flags, numbers, fd>>

(* Not recording, the check only follows the disk.                         *)
OpDisk ==
  /\ "full" \in Commands /\ pc["op"] = "loop"
  /\ \/ workState = "ready" /\ workState' = "full"
     \/ workState = "full" /\ workState' = "ready"
  /\ UNCHANGED <<starStore, fileMark, stopWord, plVars, flags, numbers, pc,
                 opCmd, fd, bounds>>

(* bram_vptr[1][18] = 1 and [19] = 1 of CMD_SET_START itself.              *)
OpStar ==
  /\ Goto("op", "star", "mark")
  /\ starStore' = 1
  /\ UNCHANGED <<fileMark, stopWord, workState, plVars, flags, numbers, opCmd,
                 fd, bounds>>

OpMark ==
  /\ Goto("op", "mark", "enable")
  /\ fileMark' = 1
  /\ UNCHANGED <<starStore, stopWord, workState, plVars, flags, numbers,
                 opCmd, fd, bounds>>

EnableValue == IF opCmd = "start" THEN 1 ELSE 0

(* enable_data_source(value): GPIO 0 and word 18 (no other thread reads    *)
(* both), then word 19.                                                    *)
OpEnable ==
  /\ Goto("op", "enable", "enMark")
  /\ source' = EnableValue
  /\ starStore' = EnableValue
  /\ UNCHANGED <<fileMark, stopWord, workState, flowReq, granted, cutReq,
                 cutAck, flags, numbers, opCmd, fd, bounds>>

OpEnMark ==
  /\ Goto("op", "enMark", "loop")
  /\ fileMark' = EnableValue
  /\ workState' = IF opCmd = "full" THEN "full" ELSE workState
  /\ UNCHANGED <<starStore, stopWord, plVars, flags, numbers, opCmd, fd,
                 bounds>>

ServerSteps == OpStar \/ OpMark \/ OpEnable \/ OpEnMark
Server == OpStart \/ OpStop \/ OpFull \/ OpDisk \/ ServerSteps

-----------------------------------------------------------------------------
(***************************************************************************)
(* The PL (outside the repository), as the code uses it: it asks for flow  *)
(* control when it has a chan0 slice to stream, streams it once granted,   *)
(* and ends a slice with a cut request it holds until acknowledged.        *)
(***************************************************************************)

PlAsk ==
  /\ source = 1 /\ flowReq = 0 /\ granted = 0 /\ cutReq[0] = 0
  /\ flowReq' = 1
  /\ UNCHANGED <<words, source, granted, cutReq, cutAck, flags, numbers, pc,
                 opCmd, fd, bounds>>

PlCut(c) ==
  /\ c \in CutChans /\ cutReq[c] = 0 /\ cutAck[c] = 0
  /\ IF c = 0 THEN granted = 1 ELSE source = 1
  /\ cutReq' = [cutReq EXCEPT ![c] = 1]
  /\ UNCHANGED <<words, source, flowReq, granted, cutAck, flags, numbers, pc,
                 opCmd, fd, bounds>>

PlDrop(c) ==
  /\ cutReq[c] = 1 /\ cutAck[c] = 1
  /\ cutReq' = [cutReq EXCEPT ![c] = 0]
  /\ granted' = IF c = 0 THEN 0 ELSE granted
  /\ UNCHANGED <<words, source, flowReq, cutAck, flags, numbers, pc, opCmd,
                 fd, bounds>>

Pl == PlAsk \/ \E c \in Chans : PlCut(c) \/ PlDrop(c)

Next == Control \/ Mn \/ Ls \/ Sy \/ Server \/ Pl

Spec == Init /\ [][Next]_vars

(***************************************************************************)
(* Fairness.  The four threads run on a preemptive scheduler: a thread of  *)
(* which some test holds, or that is past one, goes on.  Every round of    *)
(* the control loop makes the chan0 test, however often cuts keep it busy  *)
(* elsewhere (hence strong fairness).  A command that was begun is carried *)
(* out, and a PL whose request is acknowledged drops it (the spin of       *)
(* chan_cut_ack() has no other exit).  Nobody has to send a command, ask   *)
(* for flow or cut.                                                        *)
(***************************************************************************)
FairSpec ==
  /\ Spec
  /\ SF_vars(CtlSeesFlow)
  /\ WF_vars(Control) /\ WF_vars(Mn) /\ WF_vars(Ls) /\ WF_vars(Sy)
  /\ WF_vars(ServerSteps)
  /\ \A c \in Chans : WF_vars(PlDrop(c))

-----------------------------------------------------------------------------
(* Every variable keeps its type; slice_count never passes MAX_FILE_COUNT. *)
CtlPcs == {"loop", "arming", "ack0", "ack1"}
MnPcs  == {"wait", "flow", "loop", "stopping", "closing", "naming", "opening", "marking"}
LsPcs  == {"loop", "starting", "offering", "stopping", "closing", "cutDone"}
SyPcs  == {"loop", "stopping", "closing", "naming", "opening"}
OpPcs  == {"loop", "star", "mark", "enable", "enMark"}

WordsOK ==
  /\ starStore \in Bit /\ fileMark \in Bit
  /\ stopWord \in [Workers -> Bit]
  /\ workState \in {"ready", "record", "full"}
  /\ source \in Bit /\ flowReq \in Bit /\ granted \in Bit
  /\ cutReq \in [Chans -> Bit] /\ cutAck \in [Chans -> Bit]

FlagsOK ==
  /\ chanSlice \in [Chans -> Bit] /\ chanStored \in [Chans -> Bit]
  /\ chanSliceAlt \in Bit /\ chan0Index \in Bit
  /\ chan0IndexAlt \in Bit /\ chan0Indexed \in Bit
  /\ sliceCount \in [Chans -> 1 .. MaxFileCount]

NumbersOK ==
  /\ fileNames \in [0 .. CycMark - 1 -> Nat]
  /\ lsNum \in Nat
  /\ fileNum \in [Followers -> Nat] /\ loaded \in [Followers -> Nat]

LocalsOK ==
  /\ pc \in [Threads -> CtlPcs \union MnPcs \union LsPcs \union SyPcs \union OpPcs]
  /\ pc["ctl"] \in CtlPcs /\ pc["mn"] \in MnPcs /\ pc["ls"] \in LsPcs
  /\ pc["sy"] \in SyPcs /\ pc["op"] \in OpPcs
  /\ opCmd \in {"start", "stop", "full"}
  /\ fd \in [Workers -> FdStates]
  /\ orders \in 0 .. MaxOrders /\ fails \in 0 .. MaxFails

TypeOK == WordsOK /\ FlagsOK /\ NumbersOK /\ LocalsOK

-----------------------------------------------------------------------------
(* A thread that has handed its slice back holds no file: whenever         *)
(* store_control() finds chan_stored[0] or chan0_indexed set, the file of  *)
(* the slice before is closed, or its thread is in the stop branch on its  *)
(* way to the close.  So no new slice is granted into an old file.         *)
ParkedHoldsNothing ==
  /\ chanStored[0] = 1 => fd["mn"] # "open" \/ pc["mn"] = "closing"
  /\ chan0Indexed = 1 => fd["sy"] # "open" \/ pc["sy"] = "closing"

(* chan0 and index never open a file over one they still hold: whatever    *)
(* the order of cuts, stops, starts and failing open() calls, neither      *)
(* descriptor is lost.  (chan1 does lose one, see the README.)             *)
NoDescriptorLost ==
  \A w \in Followers : pc[w] \in {"naming", "opening"} => fd[w] # "open"

(* flow_ctrl_req(0) is polled in two places, by chan0 before its first     *)
(* slice and by the control loop: never by both, so no request is          *)
(* acknowledged twice and no slice is granted to a thread still waiting.   *)
OneFlowConsumer == pc["mn"] \in {"wait", "flow"} => ~ArmReady

(* Within one recording a cut only ever ends the slice it was meant for:   *)
(* while the PL streams a slice no earlier cut is still on its way to      *)
(* chan0 or to index, which would cut this slice short in one file only.   *)
CutsAligned == granted = 1 => chanSlice[0] = 0 /\ chan0Index = 0

(* The ring of names never loses one that is still of use: whoever reads   *)
(* the slot of a number chan1 has given in this recording, at most CycMark *)
(* numbers ago, finds that number's name, not an older nor a newer one.    *)
RingKeepsNames ==
  \A n \in 0 .. lsNum - 1 :
    lsNum <= n + CycMark => fileNames[n % CycMark] = n + 1

(* A follower uses up at most one name in a slice, index one more for each *)
(* open() that failed, although an offer may stand after it was used and   *)
(* chan1's reset of the counters may be lost between load and store: they  *)
(* may fall behind the slices, but never run ahead of them.                *)
OneNameEachSlice ==
  /\ fileNum["mn"] <= sliceCount[0]
  /\ fileNum["sy"] <= sliceCount[0] + fails

(* The control loop and the chan0 threads implement SliceCycle: the two    *)
(* flags, two descriptors and the stop branch's late close of a thread     *)
(* amount to one phase, and the test and the assignments of the control    *)
(* loop, with all that the threads do in between, to one step.             *)
Parked(w) == IF w = "mn" THEN chanStored[0] = 1 ELSE chan0Indexed = 1

Phase == [w \in Followers |->
            IF Parked(w) THEN "parked"
            ELSE IF fd[w] = "open" /\ pc[w] # "closing" THEN "filing" ELSE "armed"]

Cycle == INSTANCE SliceCycle WITH phase <- Phase, slices <- sliceCount[0]

ImplementsCycle == Cycle!Spec

(* store.c:215, "wait until all receive threads are ready, then enable the *)
(* data source": when the source is enabled after an earlier recording,    *)
(* and chan1 has not begun the new one yet, neither follower still holds a *)
(* file of the old one.  The START handler enables it without waiting.     *)
EnableOnlyWhenReady ==
  [][source = 0 /\ source' = 1 /\ starStore = 1 /\ lsNum > 0
       => \A w \in Followers : fd[w] # "open"]_vars

(* Chan0 keeps flowing: as long as the slice limit is not reached, a flow  *)
(* request of the PL is acknowledged (or withdrawn by a reset).            *)
FlowAnswered ==
  (flowReq = 1 /\ sliceCount[0] < MaxFileCount) ~> (flowReq = 0)

(* A stop gets through: each worker that sees the stop word set ends up    *)
(* without an open file, parked or not.                                    *)
StopLetsGo ==
  \A w \in Workers : stopWord[w] = 1 ~> fd[w] # "open"
=============================================================================
