# zh3t: specifications of the recorder program

zh3t_demo is the program on the processor of a two-channel data recorder. An
FPGA ("the PL") streams data of two channels, chan0 and chan1, and an index of
chan0 into FIFOs and a shared block RAM (BRAM); the program stores each stream in
files on `/smbshare`, cut into slices where the PL says so, and takes commands
from clients over TCP port 10881. These TLA+ modules model that program and prove
what makes it correct. Line numbers are those of the repository (`store.c:222` is
line 222 of the file store.c).

## Inventory

| Component | State | Operations | Where modelled |
|---|---|---|---|
| Control loop: `store_control`, `wait_slice` (store.c) | `slice_count[]`, the slice flags it shares with the workers | arm chan0 when both its threads are parked, below the limit and the PL asks for flow; re-arm chan1; take a cut request and tell the workers | Recorder, Boot |
| chan0 worker "mn": `chan0_recv_routine`, `chan_recv_routine` (store.c) | `fd`, `read_bytes`, `rxmem`, `chan_slice[0]`, `chan_slice_alt[0]`, `chan_stored[0]`, `mn_file_num` | first flow request, new file, drain, block write, cut, stop | Recorder (flags, files, names), ChanStream (data) |
| chan1 worker "ls": `chan1_recv` (store.c) | the same of chan1, `file_name_all[]`, `ls_file_num`, `zero_mark` | start (new directory, first name), drain, padded cut, offering names, stop | Recorder, ChanStream |
| index worker "sy": `index_recv_routine` (store.c) | `fd`, `recv_bytes`, `ret_bytes`, `chan0_index`, `chan0_index_alt`, `chan0_indexed`, `sy_file_num` | new file, taking over a block, block write, cut, stop | Recorder (flags, files, names), IndexStream (data) |
| Index block handshake: `index_buf_valid`, `index_buf_invalid` (ubram.c) | two BRAM words | copy out, release | IndexStream |
| DMA read path: `dma_ioctl_read` (udma.c) | `gMutexDma` | one call: a gate and an ioctl per unit | DmaGate |
| Command processing: `process_conn_server` (tcp_process.c) | `fisk_threshold`, `fisk_warn`, the command buffer; the state word `bram_vptr[1][25]`, GPIO pins | disk check, 10 commands | CommandServer, Clock, Queries; its effect on the workers in Recorder |
| Command server: `net_routine` (tcp_server.c) | sockets, a process per connection | accept, fork | CommandServer |
| Cut handshake (ubram.c), GPIO pins (ugpio.c) | shared with the PL | `chan_cut_req/_ack`, `flow_ctrl_req/_ack`, `reset_pl`, `enable_data_source` | Recorder, CommandServer, Clock |
| Start-up and restart: `main` (zh3t_demo.c), `store_init`, `store_prepare_recv` | BRAM words the last run left | reset, source off, words cleared, threads started | Boot |
| Heartbeat, serport.c, ummap.c, udmabuf.c, the self tests and the DMA calls nobody makes | | | not modelled, see the end |

**How they interact.** There is one program process. Its threads are the three
receive threads, the heartbeat, and `net_routine` (store.c:252-268); the main
thread runs the control loop. They share plain globals (the slice flags, the name
ring and its counters) with no lock. `net_routine` forks a process per connection,
which inherits the mappings and the descriptors open at that moment; those
processes share no C variable with the threads or with each other, only BRAM words
and pins: `STAR_STORE` (word 18) and `FILE_MARK` (19) start a recording and say "a
name is ready", words 22 to 24 stop one worker each, word 25 is the device state.
The PL shares the flow request (pin 13), the cut request and acknowledge words and
the index block's valid and acknowledge words. BRAM, pins and PL outlive the
program.

**What makes it hard.**

* Every thread is an endless polling loop that tests a flag and acts on it some
  system calls later. Nothing but the order of the assignments keeps two threads
  from meeting in a state nobody intended.
* chan0's two threads are armed together and parked separately; a cut is one
  notice for both, a name (`FILE_MARK = 0`) is one notice for both that only chan0
  takes back.
* A stop may come anywhere: between a test and an `open()`, with a cut pending,
  before the first flow request. A start clears stop words not yet taken up.
* `open()`, `write()`, `read()` and the DMA ioctl fail, and most results are not
  looked at.
* The program may end at any moment and find, when it is started again, the words
  its last run left.
* Every connection is a process of its own; the tests and assignments of the state
  word are separate steps, and each process may die of SIGPIPE at a reply.
* The disk fills or is emptied, links go up and down and folders cannot be opened
  while commands run.

**What makes each component correct.**

* Control loop and workers: no slice is granted into an old file; neither follower
  loses a descriptor; a flow request has one consumer; a cut ends only its own
  slice, in both files; data and index files are cut in step; the name ring keeps
  the names still of use; chan0 keeps flowing; a stop gets through.
* Restart: no stop of the run before is carried out, nothing records by itself,
  chan0 flows again.
* Data paths: a file holds units (blocks) in order and none twice, and no index
  block the PL overwrote while it was copied; at a cut exactly those of the slice; a
  failed write costs less than a block of the end; only a stop removes a file; index
  takes every cut, unless its `open()` fails for good.
* DMA gate: nobody is locked out for good; the value returned tells which part of
  the buffer was filled.
* Command server: no command is carried out twice, each is answered; state word,
  source, LED, warning pin and status replies agree; warnings are about the
  client's own threshold.
* Clock: system clock and RTC show the same instant; what is set reads back.
* Queries: for each link on its own, no status is reported that was not true at some
  time during the command; files are counted right.

## The modules

| Module | Models | Composes or refines |
|---|---|---|
| Recorder | control loop, three workers, the words, the server as the workers see it, the PL | implements SliceCycle |
| Boot | the program ending and starting | extends Recorder |
| ChanStream | the data path of chan0 or chan1 | implements SliceFile |
| IndexStream | the data path of the index thread, with the PL's handshake | implements SliceFile (blocks of one) |
| DmaGate | `dma_ioctl_read` for any set of callers | |
| CommandServer | `net_routine` and a `process_conn_server` per connection | |
| Clock, Queries | the commands CommandServer knows only as such | |
| SliceCycle, SliceFile | abstract: what the chan0 threads, and a data path, promise | |
| MC* | constants for TLC | |
| *Proofs | the theorems | extend the module they are about |

The models are cut where the code's shared state allows it: a module leaves as
free choice what another one determines, so each is checked against more
behaviours than the program has. Recorder leaves out the data; ChanStream and
IndexStream let slice flags, stops and starts come at any time; CommandServer
leaves out the workers, and Recorder's server sends any allowed sequence of
commands.

**Recorder.** One variable per shared word, pin or global, under the source's name
where TLA+ allows it, and a `pc` per thread. All threads poll, `while (1) { if ..
if .. }`, and keep nothing between two tests: at "loop" a thread is between tests,
and each `if` is an action guarded by its condition. A test and the assignments
behind it are separate steps wherever another thread could see the difference;
assignments are one step if nobody reads one without the other. The tests of a
round may be made in any order, which only adds behaviours. `Mn*`, `Ls*`, `Sy*`
are the workers, `Ctl*` the control loop, `Op*` the command server with one
connection, `Pl*` the PL as the code uses it (external). A name is the number of
the slice it was made for; `fileNames` is the ring `file_name_all[]`, and `loaded`
is a follower's counter between its use in the name and the `++`, where chan1's
start may reset it. `MaxOrders` and `MaxFails` bound the commands and failing
`open()` calls, `MaxFileCount` is the program's own limit, `CycMark` the ring's
length. `Patient` restricts the operator to stops while recording and to starts
after the last stop was taken up.

**SliceCycle.** A phase per chan0 thread (armed, filing, parked) and a count of
slices: neither thread begins the next slice before both have handed back the one
before, and each opens at most one file in it. Recorder maps two flags, a
descriptor and the late close of the stop branch to the phase, and the control
loop's arming to one step.

**Boot.** A crash sets every variable of the program to its initial value and
leaves words, pins and PL alone; `BootReset`, `BootSource` and `BootWords` are the
writes of `store_init()` and `main()` that the PL can tell apart. All threads and
the connection's process end together. `heard` has the commands since the start,
`early` a flow request that came between `reset_pl()` and `enable_data_source(0)`.

**ChanStream, SliceFile.** One receive thread with its buffer. A unit is one DMA
transfer and is known by its number; a block (`IFD_WRITE_MN`) has `Block` units. A
pass between two tests is one action, since only the thread itself touches buffer
and file; chan1's cut (pad, truncate, next file) has steps of its own, as each call
of it may fail. `Closed` is what is left when the file is closed, `Removed` when
a stop removes it because chan1's is empty (`zero_mark`, a free choice here).
`remove(file_name)` does not ask whether a file is open: it takes the open file, or,
when a cut or an earlier stop has closed that already, the finished one; `named` says
that `file_name` is the name of the file opened last, and not of one whose `open()`
failed. SliceFile has only an open file to which units are appended and the file
finished last, which nothing but a stop's `Remove` may touch; the refinement maps
`cur` to the file and what is buffered behind it, and hides the padding.

**IndexStream.** Here the order of the tests in a round matters (a failed `open()`
ends a round in the middle with a block taken over), so each test is a place of
the thread. A block in `index_buffer` is two halves, so that a copy the PL
overwrites would be seen as torn. `recv` and `ret` are `recv_bytes` and `ret_bytes`
in blocks. `open()` may fail any number of times; `named` and `Removed` are as in
ChanStream (before the first `open()` `file_name` is uninitialised, and taken to name
no file). The refinement numbers the blocks and leaves out one that is taken over
and not disposed of yet.

**DmaGate.** Each thread is before, at, past or in the gate; the test and the set
of `gMutexDma` are two steps. `rereads` tells whether the build reads the
non-volatile flag in each round of the spin or once: both are builds of this code.

**CommandServer.** A process per connection, with its own copy of `fisk_threshold`,
`fisk_warn` and buffer (as `fork()` copies them), over shared state word, pins and
disk, each access to these a step. If the socket cannot be set up (`socket()`, `bind()`,
`listen()`), every client is refused from the beginning. `buf` is what `buffer[3]` holds: the command
read, or the code of the reply that was built over it, which is what a failing
`read()` makes the switch run on. A reply to a client that has gone may end the
process (SIGPIPE is not handled). Commands that touch nothing of this (0x02, 0x05,
0x06, 0x09, 0x10) are one kind, "query"; Clock and Queries have what they do. Space
is counted in units of the 30,000,000,000 bytes of a threshold. Clients wait for
the answer to one command before they send the next.

**Clock.** Times by field, as sent; BCD packing, unpacking, the eight-hour shift
and `mktime()`'s carrying are modelled by what they compute; the system clock is a
day and a second. It assumes TZ=UTC, unsigned `char` (the ARM processor) and
clients that send dates the calendar has. The RTC takes the time word over on the
rising strobe (external).

**Queries.** `connect_check()` with a step per link, while links change, and
`get_file_count()` over a tree of numbered entries, with `errno` as the last
subfolder left it. The recursion is a recursive function over the tree.

## The runs

| Run | What it shows | Bounds, and why they are enough |
|---|---|---|
| recorder | `TypeOK`, `ParkedHoldsNothing`, `NoDescriptorLost`, `OneFlowConsumer`, `OneNameEachSlice`, `ImplementsCycle` with any two commands at any moment, chan0 cuts and a failing `open()` | Two commands give start-stop, stop-start, start-full in every interleaving; a slice limit of 2 includes one re-arming and then the limit. All six are also proved, for all bounds |
| session | `CutsAligned`, `RingKeepsNames`, `FlowAnswered` in one recording with cuts on both channels | One start, slice limit 2: first slice by chan0's own wait, second by the control loop, cuts before, during and after a file is open; a ring of two wraps round. The first two are also proved, for all bounds |
| restart | `NoOldStop`, `SilentStart`, `CycleAcrossRestarts`, `FlowAnsweredAfterBoot`, `StopLetsGo` for start, stop, start, with two restarts at any moment | The second recording is the first that finds the flags as a stop left them, and a restart may fall in the start-up of another. No cuts, and a slice limit of 3: see the limits below. The first three are also proved, for all bounds |
| leftover_stop | violates `StopsClearedAtStart` (finding) | |
| enable | violates `EnableOnlyWhenReady` (finding) | |
| gate | `TypeOK`, `NeverShutBehind`, `ReturnsPrefix`, `NotLockedOut` for three callers | One more than the program has. Calls for one unit, as the workers make, and for two, where the gate opens between the units and an ioctl that fails leaves a hole. All but `NotLockedOut` are also proved |
| stream | `TypeOK`, `InOrder`, `Implements` for either channel | 8 units in blocks of 3: two whole blocks and a tail, several slices, a failing transfer at any place and one failing write. All three are also proved |
| index | `TypeOK`, `InOrder`, `Implements`, `CutTaken` | 5 blocks, two failing writes, any number of failing `open()` calls: a block left over in one round, met by a cut, a stop or the next block. All but `CutTaken` are also proved |
| commands | `TypeOK`, `AnsweredOnce`, `WarnHonest`, `StateMatchesSource`, `FullEndsRecording`, `WarningShown`, `StatusConsistent`: one client after the other, each hanging up in mid-command if it likes | Two commands a connection and two connections give start/stop/status/threshold in every order across a hang-up; the disk is free, low or full at every step, also over the quota; one `read()` error. Connections are interchangeable (symmetry). All are also proved, the first three for any number of clients at once |
| answered | `EveryCommandAnswered`: two clients at once | A command per client that is accepted, refused or unconditional; each process goes round the same loop for the next |
| clock | `TypeOK`, `SystemIsUtc`, `ClocksAgree`, `RoundTrip` | Each year 2000-2099 and eight dates around the ends of months, leap days and years, at five times around the 8 o'clock test; two settings, so that an old time could be taken for the new one. Proved for every date |
| queries | `TypeOK`, `LinksHonest`, `FilesCounted` | Every tree of three entries: nested, side by side, openable or not; links change at every step. All three are also proved, for any number of entries |

Each property has a mutant of the code's definition (the definitions marked
"mutant") under which TLC finds it violated.

**Fairness.** The kernel schedules every thread and process: weak fairness of each
thread's steps (Recorder, Boot, DmaGate, IndexStream) and each process's and of
`accept()` (CommandServer). The control loop makes its chan0 test every round
whatever else it does, which in a model with one action per test is strong fairness
of `CtlSeesFlow`. A start-up that was begun is finished; nothing has to crash. A
PL whose cut request or index block is acknowledged drops it; the code spins for
that without a timeout, so nothing can be promised of a PL that does not. Clients,
the operator, and the PL's requests and blocks have no fairness. Of `open()` nothing
is assumed; `CutTaken` says in its premise, `GetsPastOpen`, what it needs: if the
index thread comes to the test for its file again and again, it gets past it again
and again, because `open()` succeeds or no name is on offer.

**Findings.** (1) store.c:215 says "wait until all receive threads are ready, then
enable the data source". The source is enabled by START (tcp_process.c:311), which
looks at no thread: after a quick stop-start the index worker can still hold the
file of the recording before (run "enable"). (2) zh3t_demo.c:54 clears the stop
words under the comment `STOP_STORE = 0`, but writes word 22 twice and word 24,
the index thread's, not at all: a stop it had not taken up when the program ended
parks it at the next start, and the first slice gets no index file (run
"leftover_stop"). `NoOldStop` is therefore about chan0 and chan1.

**Limits the models show.** These hold of the code, contradict no promise the
repository makes, and are why some runs and properties are restricted:

* *A request pending at STOP.* With chan0 cuts in the configuration of "restart"
  `FlowAnsweredAfterBoot` fails: a request pending when STOP parks the chan0 threads
  is granted to them at once, START's `reset_pl()` drops the grant, and with the
  ready flags down the next request is never answered (store.c:220).
* *A request at start-up.* If the program ends with the source on, the PL may ask
  for flow between the start-up's `reset_pl()` and its `enable_data_source(0)`.
  chan0 takes that request before any START, whose `reset_pl()` drops the grant,
  and chan0, never parked, flows no more. `FlowAnsweredAfterBoot` is conditional on
  `~early`.
* *Restart in mid-recording.* The state word still says "recording", so START is
  refused until a STOP; a chan1 cut pending at the restart makes the workers open
  files before any START (`SilentStart` speaks of the time before chan1's first
  name).
* *STOP before the first flow request.* mn does not look at its stop word before
  its first flow request. If START clears the word first, mn runs unparked while
  index is parked; the first slice has no index file, and the next cut finds
  index still parked, so that `chan0_index` stays set and later index files are cut
  short at their beginning. `CutsAligned` is about recordings without a stop.
* *A doubled start.* START writes `STAR_STORE` and `FILE_MARK`, and
  `enable_data_source(1)` writes both again (tcp_process.c:309-311). chan1 may
  handle both and loses a descriptor; or chan0 uses one offer twice and takes a
  number chan1 has not given yet, and stays out of step with chan1's names for the
  whole recording. `NoDescriptorLost` is about chan0 and index, `RingKeepsNames`
  about numbers that have been given. What does hold is `OneNameEachSlice`: a thread
  takes no second name in the same slice.
* *A cut before chan0 has looked at the name.* chan0 hands the slice back without
  taking `FILE_MARK` back; index, armed for the next slice, takes the number after
  it. Its slot is empty, or holds the name of 128 slices ago, whose index file is
  then truncated.
* *Failing open().* Each thread counts its own names, and a follower's failed
  `open()` uses a number up (store.c:311-316, 390): the names of the three files of a
  slice drift apart from then on. chan0 does not notice the failure at all.
* *A cut while open() fails.* The `continue` at store.c:316 leaves the round before
  the test for the cut. While a name stays on offer (chan0 has its file already and
  chan1 offers the next name) and each `open()` of the index thread fails, a cut is
  put off, if need be for ever; without its premise `CutTaken` fails.
* *Short writes.* The models' `write()` is all or nothing. A disk that fills during a
  `write()` takes a part, which nobody notices: the unit or block there is torn in the
  file, and the next one follows directly. What is said of order and of storing
  nothing twice holds also then, of what is stored; `Whole` is about the copy only.
* *Descriptor numbers.* A stop after a cut closes a number that is closed already,
  or another thread's by now; index's first stop closes descriptor 0. If chan1 is
  then given 0, its full blocks are dropped (`fd > 0`). After its own stop chan1 goes on
  draining and writes full blocks to the number it has closed, which may be another
  thread's file by then.
* *The removal at a stop.* Whether chan0's and index's files are removed with an
  empty chan1 file is decided by `zero_mark`, which chan1 may set after they have
  looked, and which survives into the next recording when a second STOP comes
  before START is handled (store.c:370). It is a free choice in the models. The
  `remove(file_name)` there and at store.c:289 runs whether or not a file is open:
  after a cut of chan0, while chan1 was not cut and its file is empty, or at a second
  STOP, it deletes the slice file that was finished already. `Implements` allows
  exactly this: at a stop, the file finished last.
* *A cut word of zero.* `chan_cut_req()` has no return statement for it. The builds
  return the word just loaded, 0; the models assume that.
* *The gate is no mutex.* udma.c:459 tests and udma.c:466 sets `gMutexDma` in two
  accesses, so two threads can be in the ioctl at once. What the threads need of it
  (`NeverShutBehind`, `NotLockedOut`, `ReturnsPrefix`) holds regardless.
* *Two clients at once.* Without `OneAtATime` `StateMatchesSource`,
  `FullEndsRecording`, `StatusConsistent` and `WarningShown` all fail. A second
  client only has to connect: its disk check reads the state word, another's START
  sets it to WORK_RECORD, the check writes WORK_READY over it, and the next START is
  accepted in mid-recording. tcp_server.c:61-62 means several processes to be served.
  `OneAtATime` excludes them, and with them a client that connects again while the
  process of its old connection still runs, as it does after a hang-up until its next
  `read()` or reply.
* *Unreadable folders.* A subfolder that cannot be opened adds 0xffff to the file
  count; if it is the last one the process exits instead of answering.

## The proofs

All proofs are checked by TLAPS for every value of the constants that the ASSUMEs
allow: natural numbers for the bounds, a ring, a limit and a block of at least one,
any set of threads or connections, any set of dates. What a theorem assumes beyond
that stands in its ASSUME.

*RecorderProofs.* `TypeCorrect` needs `CtlInv`: between the control loop's test and
its arming chan0 is still ready and below the limit, because only the loop itself
takes the flags down or counts; without it `slice_count` could pass the limit.
`ParkedThreadsHoldNothing`, `FollowersLoseNoDescriptor` and
`FlowRequestHasOneConsumer` share the invariant `IInv`. The three properties speak
of two or three values of `pc` each; what carries them is where in its loop a worker
can have an open file: `MnInv` and `SyInv` say for each place whether the slice is
parked, the file open and the "needs a file" flag set. Each thread's steps preserve
its own part, and the lemmas `OthersKeep`, `MnKeepsSy`, `SyKeepsMn` show that nobody
else's steps touch it, apart from the control loop's arming, which is where "parked
holds nothing" is used. `RecorderImplementsCycle` is a refinement from the same
invariant: each step of chan0 or index is a step of SliceCycle or a stutter, and the
arming is `NextSlice` because `CtlInv` carries the test to it. `NamesStayInRing` rests
on the arithmetic of slots: two numbers less than `CycMark` apart have different
ones. `NamesWithinSlices` needs `NameInv`: a name that is
due counts as taken, so that the step that takes it keeps the sum, and index, which
keeps its "needs a file" flag when it hands a slice back, has none due while parked.
`CutsStayAligned` holds of recordings without stops; `CutInv` follows a cut
from the PL's request to the two hand-backs: the slice that is cut is streamed, it
is no longer when the flags are set, and nothing is granted until a parked thread,
whose flag is never set, shows on both sides.

*BootProofs.* Recorder's `IInv` also holds through crashes and the start-up
(`SafeAcrossRestarts`), since a crash puts every variable it speaks of back to its
initial value. `NoStopSurvives` and `RestartIsSilent` need what the words are when the
threads begin to run. `NamesAfterBoot` carries the ring and the names taken through a
crash, which empties both together with the count of slices; `RestartsBeginTheCycle`
(`CycleAcrossRestarts`) says that the refinement of SliceCycle survives with any words
and pins the run before has left, and that a restart begins it anew.
`CutsAlignedUntilStop` drops `CutsStayAligned`'s hypothesis on the commands: of all
commands only a STOP that was heard can put a cut out of step. It speaks of the first
run, since a later one may find index parked by a stop left in its word.

*ChanStreamProofs.* `InOrder` is not inductive: what is buffered is stored later,
behind what the file has by then. `OrderInv` speaks of the receive memory as well,
and `PlaceInv` says which files can be open, and what `length` is good for, at each
place. The lemmas on sequences (`Behind`, `BehindOneMore`, `TakenAway`,
`BehindIncreasing`) carry the step from "one more unit in memory" to "one more unit
of the file", and that `ftruncate()` undoes the padding. From them follow
`TypeCorrect`, `UnitsInOrder` and the refinement `ChanStreamImplementsSliceFile`; a
stop that removes the file (`RemovedRefines`) is a `GiveUp` of the open file or a
`Remove` of the finished one.

*IndexStreamProofs.* `ShakeInv` ties acknowledge, valid and the numbers of the
blocks in BRAM and buffer to the thread's place: that is why a block is never
overwritten while it is copied, nor taken twice. `FileInv` bounds the blocks in a file by the last one disposed of,
`FlagInv` says that a block is left over only by an `open()` that failed, while there
is neither a file nor the name of one: so a stop that finds a block left over removes
nothing. They give
`TypeCorrect`, `BlocksInOrder` and `IndexImplementsSliceFile`.

*DmaGateProofs.* `TypeCorrect`; `GateOpens` (`NeverShutBehind`) is inductive as it
stands. `ReturnedLengthIsPrefix` (`ReturnsPrefix`) holds of calls of every length:
`CallInv` says that the units written are among those attempted and that
`bytes_read` is their number, and a set of n of the first n numbers is all of them.

*CommandServerProofs.* `TypeCorrect`; the interesting part is that the space left
stays within the quota however much is used. `NoCommandTwice` (`AnsweredOnce`) needs
`AnswerInv`: a process that holds a command in its buffer is carrying it out or was
killed doing so, and that command, or one still unread, is not answered yet; so the
buffer a failed `read()` runs on never holds a command. `WarningsHonest`
(`WarnHonest`) needs `WarnInv`: from the check to the end of the command `fisk_warn`
fits the process's own threshold, because a new threshold ends the command and leads
back to the check. These three hold with any number of clients at once. From
`OneAtATime` follow `DeviceConsistent` (`StateMatchesSource`),
`FullDiskStops` (`FullEndsRecording`), `PinShowsWarning` (`WarningShown`) and
`RepliesConsistent` (`StatusConsistent`). `AloneInv` says that at most one process is
served (`Alone`), that the device is consistent while none is inside a command
(`Settled`), and for each place of that process which of state word, source and LED
have already followed (`Placed`); a process that is killed in between ends at a
place where they agree.

*ClockProofs.* `ShiftIsUtc` is about the conversions alone: taking a day off up to
8 o'clock and leaving the rest to `mktime()` gives the UTC of the calendar's day
before, by `MonthAfterMonth` and `YearAfterYear`. `AgreeInv` adds what the time word
and the strobe hold at each place of a command. They give `TypeCorrect`,
`SystemTimeIsUtc`, `BothClocksAgree` (`ClocksAgree`) and `RtcReadsBack` (`RoundTrip`)
for every date from 2000 to 2099.

*QueriesProofs.* `TypeCorrect`; `RepliesHonest` (`LinksHonest`) from what has been
checked at each place of a command. What `get_file_count()` computes is recursive, and
the library's induction theorems cannot be used on it; the proofs argue from a least
counterexample instead, which the library has as a fact without an operator parameter
(`Least`). First the result is said without recursion: `Seen` are the entries the walk
reaches, `Size` the files among them and 65535 for each folder that cannot be opened,
`Fails` that the last subfolder of a folder reached cannot be opened. `SizeEquation`
and `FailsEquation` show that these obey the equations of the recursion, `TotalOfTree`
and `ExitOfTree` that the function returns nothing else. `CountsAndExits` (stated in
the proof module as `AnswerFits`) says what 0x10 does for every folder: the process
ends, or the reply has the last two bytes of `Size`. `ReadableFilesCounted`
(`FilesCounted`) assumes fewer than 65536 entries, because the reply has two bytes for
the count: of a larger folder the code reports the remainder.

*Model-checked only:* the liveness properties (`FlowAnswered`,
`FlowAnsweredAfterBoot`, `StopLetsGo`, `NotLockedOut`, `CutTaken`,
`EveryCommandAnswered`), which with ENABLED are out of the prover's reach. Every
invariant and every safety action property of the passing runs is proved.

## Not modelled

* Heartbeat thread and serport.c: a byte written to a UART now and then; nothing
  answers and nothing depends on it.
* ummap.c: page table look-ups and buffers at start-up, I/O on `/proc`, `/dev/mem`.
* udmabuf.c, `ubram_selftest`, `ubram_write`, `ubram_fwrite`, `dma_read`,
  `dma_write`, `dma_ioctl_write` and the DMA self tests: nobody calls them.
  (`dma_write` returns 0 where its comment says "bytes written".)
* Of ugpio.c, the functions that set one pin nothing here reads, and the sysfs I/O.
* Of chan1, `CreateDir`, the speed word, and `zero_mark` as a variable (the removal it
  decides is a free choice). Descriptor numbers: a descriptor is open or not. Short
  writes (see the limits).
* Speed figures and sensor words, copied from BRAM into replies.
* The wire format of commands and replies beyond the command code, and clients that
  send several commands without waiting: one `read()` is one command.
* A restart of the board, which clears BRAM and PL too: that is the initial state.
  Connections' processes that outlive the program.
* Two connections setting the clocks at once: Clock has one.
* Data races beyond the order of accesses: the flags are ints on a machine that
  writes them whole.
