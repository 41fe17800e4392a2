----------------------------- MODULE BootProofs ----------------------------
(* Theorems about Boot: what holds of the recorder, its names and its      *)
(* slice cycle across any number of restarts, what a restart does not do   *)
(* by itself, and how long cuts stay in step.                              *)
EXTENDS Boot, RecorderProofs

(* Where nothing has been commanded yet, nothing goes on: the start-up     *)
(* runs before all threads; the server is idle before the first command;   *)
(* chan0 and chan1 see no stop before a STOP; and chan1, before its first  *)
(* file, has offered no name that chan0 or index could take.               *)
FreshInv ==
  boot # "up" =>
    /\ pc = FirstPc /\ fd = [w \in Workers |-> "unset"]
    /\ heard = {} /\ lsNum = 0

HeardInv == heard = {} => pc["op"] = "loop"

StopInv ==
  "stop" \notin heard =>
    /\ \A w \in {"mn", "ls"} : pc[w] \notin {"stopping", "closing"}
    /\ boot = "up" => stopWord["mn"] = 0 /\ stopWord["ls"] = 0

SilentInv ==
  heard = {} =>
    /\ boot = "up" => starStore = 0
    /\ lsNum = 0 =>
         /\ pc["ls"] = "loop"
         /\ boot = "up" => fileMark = 1
         /\ \A w \in Workers : fd[w] # "open" /\ pc[w] \notin {"naming", "opening"}

QuietInv == FreshInv /\ HeardInv /\ StopInv /\ SilentInv

BootInv == IInv /\ BootTypeOK /\ QuietInv

(* It holds after the first start.                                         *)
LEMMA BootInvInit == BootInit => BootInv
<1> SUFFICES ASSUME BootInit PROVE BootInv
  OBVIOUS
<1>1. IInv
  BY InvInit DEF BootInit
<1>2. BootTypeOK
  <2>1. early \in BOOLEAN /\ heard \subseteq Commands
    BY Zenon DEF BootInit
  <2>2. boot = "up" /\ restarts \in 0 .. MaxRestarts
    BY BootAssumption DEF BootInit
  <2> QED BY <1>1, <2>1, <2>2 DEF BootTypeOK, IInv
<1>3. QuietInv
  BY DEF BootInit, Init, BoardInit, ProgramInit, FirstPc, QuietInv, FreshInv,
         HeardInv, StopInv, SilentInv, Threads, Workers
<1> QED BY <1>1, <1>2, <1>3 DEF BootInv

(* The end of the program keeps it: everything is as after the first       *)
(* start, but for the words, the pins and the PL.                          *)
LEMMA BootInvCrash == BootInv /\ Crash => BootInv'
<1> SUFFICES ASSUME BootInv, Crash PROVE BootInv'
  OBVIOUS
<1> USE BootAssumption, RecorderAssumption DEF BootInv, Crash, FirstPc, Workers, Followers, Threads
<1>1. TypeOK'
  BY DEF IInv, TypeOK, WordsOK, FlagsOK, NumbersOK, LocalsOK, Bit, Chans,
         FdStates, CtlPcs, MnPcs, LsPcs, SyPcs, OpPcs, words, plVars, bounds
<1>2. IInv'
  BY <1>1 DEF IInv, CtlInv, MnInv, SyInv, Chans
<1>3. BootTypeOK'
  <2>1. (early \in BOOLEAN /\ heard \subseteq Commands)'
    BY Zenon
  <2>2. boot' = "reset" /\ restarts' \in 0 .. MaxRestarts
    BY DEF BootTypeOK
  <2> QED BY <1>1, <2>1, <2>2 DEF BootTypeOK
<1>4. QuietInv'
  BY DEF QuietInv, FreshInv, HeardInv, StopInv, SilentInv
<1> QED BY <1>2, <1>3, <1>4

(* So do the steps of the start-up.                                        *)
LEMMA BootInvStartUp == BootInv /\ StartUp => BootInv'
<1> SUFFICES ASSUME BootInv, StartUp PROVE BootInv'
  OBVIOUS
<1> DEFINE Kept == UNCHANGED <<workState, flags, numbers, pc, opCmd, fd, bounds,
                               heard, early, restarts>>
<1>1. Kept /\ boot # "up" /\ boot' \in {"source", "words", "up"}
  BY DEF StartUp, BootReset, BootSource, BootWords, BootStep
<1>2. WordsOK'
  BY DEF StartUp, BootReset, BootSource, BootWords, BootStep, StopsCleared, MarkSet,
         BootInv, IInv, TypeOK, WordsOK, Bit, Chans, Workers
<1>3. TypeOK'
  BY <1>1, <1>2 DEF BootInv, IInv, TypeOK, FlagsOK, NumbersOK, LocalsOK, flags,
                    chan0, numbers, bounds
<1>4. CtlInv' /\ MnInv' /\ SyInv'
  BY <1>1 DEF BootInv, IInv, CtlInv, MnInv, SyInv, ArmReady, BelowLimit, flags, chan0
<1>5. BootTypeOK'
  BY <1>1, <1>3 DEF BootInv, BootTypeOK, bounds
<1>6. boot' = "up" => /\ stopWord'["mn"] = 0 /\ stopWord'["ls"] = 0
                      /\ starStore' = 0 /\ fileMark' = 1
  BY DEF StartUp, BootReset, BootSource, BootWords, BootStep, StopsCleared, MarkSet,
         BootInv, IInv, TypeOK, WordsOK, Workers
<1>7. QuietInv'
  BY <1>1, <1>6 DEF BootInv, QuietInv, FreshInv, HeardInv, StopInv, SilentInv, numbers
<1> QED BY <1>3, <1>4, <1>5, <1>7 DEF BootInv, IInv

-----------------------------------------------------------------------------
(* The running program, other than its server, carries out no commands and *)
(* never raises STAR_STORE or a stop word.                                 *)
LEMMA ThreadsKeep ==
  ASSUME TypeOK, Control \/ Mn \/ Ls \/ Sy \/ Pl
  PROVE  /\ orders' = orders /\ pc'["op"] = pc["op"]
         /\ starStore' \in {starStore, 0}
         /\ \A w \in Workers : stopWord'[w] \in {stopWord[w], 0}
<1> USE DEF TypeOK, WordsOK, LocalsOK, Workers, Followers, Threads, Goto, words,
            bounds
<1>1. CASE Control
  BY <1>1 DEF Control, CtlSeesFlow, CtlArm0, CtlArm1, CtlCut, CtlCutDone
<1>2. CASE Mn
  BY <1>2 DEF Mn, MnFirstFlow, MnFirstAck, SeesStop, MnStop, Taken, StopClose,
              MnSeesName, TakeName, MnOpen, Open, MnMark, MnCut
<1>3. CASE Ls
  BY <1>3 DEF Ls, LsStart, LsStarted, LsOffer, SeesStop, LsStop, Taken, StopClose,
              LsCut, LsCutDone, Open
<1>4. CASE Sy
  BY <1>4 DEF Sy, SeesStop, SyStop, Taken, StopClose, SySeesName, TakeName, SyOpen,
              Open, SyCut
<1>5. CASE Pl
  BY <1>5 DEF Pl, PlAsk, PlCut, PlDrop
<1> QED BY <1>1, <1>2, <1>3, <1>4, <1>5

(* Without a STOP chan0 and chan1 see no stop word.                        *)
LEMMA StopKept ==
  ASSUME TypeOK, boot = "up", StopInv, "stop" \notin heard,
         Control \/ Mn \/ Ls \/ Sy \/ Pl
  PROVE  \A w \in {"mn", "ls"} :
           pc'[w] \notin {"stopping", "closing"} /\ stopWord'[w] = 0
<1> USE DEF TypeOK, WordsOK, LocalsOK, Workers, Followers, Threads, Goto, StopInv
<1>0. \A w \in {"mn", "ls"} : stopWord[w] = 0 /\ stopWord'[w] = 0
  BY ThreadsKeep
<1>1. CASE Control
  BY <1>0, <1>1 DEF Control, CtlSeesFlow, CtlArm0, CtlArm1, CtlCut, CtlCutDone, AckPc
<1>2. CASE Mn
  BY <1>0, <1>2 DEF Mn, MnFirstFlow, MnFirstAck, SeesStop, MnStop, StopClose,
                    MnSeesName, TakeName, MnOpen, MnMark, MnCut
<1>3. CASE Ls
  BY <1>0, <1>3 DEF Ls, LsStart, LsStarted, LsOffer, SeesStop, LsStop, StopClose,
                    LsCut, LsCutDone
<1>4. CASE Sy
  BY <1>0, <1>4 DEF Sy, SeesStop, SyStop, StopClose, SySeesName, TakeName, SyOpen,
                    SyCut
<1>5. CASE Pl
  BY <1>0, <1>5 DEF Pl, PlAsk, PlCut, PlDrop
<1> QED BY <1>1, <1>2, <1>3, <1>4, <1>5

(* Without any command, and without a file of chan1, the threads stay as   *)
(* they are: no name is on offer, and only chan1 could offer one.          *)
LEMMA SilentKept ==
  ASSUME TypeOK, boot = "up", heard = {}, StopInv, SilentInv,
         Control \/ Mn \/ Ls \/ Sy \/ Pl, lsNum' = 0
  PROVE  /\ pc'["ls"] = "loop" /\ fileMark' = 1
         /\ \A w \in Workers : fd'[w] # "open" /\ pc'[w] \notin {"naming", "opening"}
<1> USE DEF TypeOK, WordsOK, LocalsOK, Workers, Followers, Threads, Goto, StopInv,
            SilentInv, words, numbers
<1>0. lsNum = 0 => /\ pc["ls"] = "loop" /\ fileMark = 1 /\ starStore = 0
                   /\ stopWord["ls"] = 0
                   /\ \A w \in Workers : fd[w] # "open" /\ pc[w] \notin {"naming", "opening"}
  BY DEF StopInv
<1>1. CASE Control
  BY <1>0, <1>1 DEF Control, CtlSeesFlow, CtlArm0, CtlArm1, CtlCut, CtlCutDone, AckPc
<1>2. CASE Mn
  BY <1>0, <1>2 DEF Mn, MnFirstFlow, MnFirstAck, SeesStop, MnStop, StopClose,
                    StopEnd, Close, MnSeesName, MnNewFile, TakeName, MnOpen, Advance,
                    MnMark, MnCut
<1>3. CASE Ls
  <2>1. lsNum = 0
    BY <1>3, RecorderAssumption
       DEF Ls, LsStart, LsStarted, LsOffer, SeesStop, LsStop, StopClose, LsCut,
           LsCutDone, NumbersOK
  <2> QED BY <1>0, <1>3, <2>1
          DEF Ls, LsStart, LsStarted, LsOffer, SeesStop, LsStop, StopClose, LsCut,
              LsCutDone
<1>4. CASE Sy
  BY <1>0, <1>4 DEF Sy, SeesStop, SyStop, StopClose, StopEnd, Close, SySeesName,
                    SyNewFile, TakeName, SyOpen, Advance, SyCut
<1>5. CASE Pl
  BY <1>0, <1>5 DEF Pl, PlAsk, PlCut, PlDrop
<1> QED BY <1>1, <1>2, <1>3, <1>4, <1>5

(* A step of the server carries out a command, goes on with one, or only   *)
(* follows the disk.                                                       *)
LEMMA ServerHears ==
  ASSUME TypeOK, Server
  PROVE  \/ /\ orders' # orders /\ opCmd' \in Commands
            /\ \A w \in Workers : pc'[w] = pc[w]
            /\ opCmd' # "stop" => \A w \in Workers : stopWord'[w] \in {stopWord[w], 0}
         \/ /\ orders' = orders /\ pc["op"] # "loop"
            /\ UNCHANGED stopWord /\ \A w \in Workers : pc'[w] = pc[w]
         \/ UNCHANGED <<orders, pc, starStore, fileMark, stopWord, fd, lsNum>>
<1> USE DEF TypeOK, WordsOK, LocalsOK, Workers, Threads, Goto, bounds, words, numbers
<1>1. CASE OpStart
  BY <1>1 DEF OpStart, Order
<1>2. CASE OpStop
  BY <1>2 DEF OpStop, Order
<1>3. CASE OpFull
  BY <1>3 DEF OpFull, Order
<1>4. CASE OpDisk
  BY <1>4 DEF OpDisk
<1>5. CASE ServerSteps
  BY <1>5 DEF ServerSteps, OpStar, OpMark, OpEnable, OpEnMark
<1> QED BY <1>1, <1>2, <1>3, <1>4, <1>5 DEF Server

(* The running program keeps the quiet part.                               *)
LEMMA QuietRunning ==
  ASSUME BootInv, boot = "up", UNCHANGED boot, Next,
         heard' = IF orders' # orders THEN heard \union {opCmd'} ELSE heard
  PROVE  QuietInv' /\ heard' \subseteq Commands
<1> USE DEF BootInv, IInv, QuietInv
<1>0. FreshInv' /\ heard \subseteq Commands
  BY DEF FreshInv, BootTypeOK
<1>1. CASE Server
  <2>1. CASE orders' # orders
    <3>1. /\ opCmd' \in Commands /\ \A w \in Workers : pc'[w] = pc[w]
          /\ opCmd' # "stop" => \A w \in Workers : stopWord'[w] \in {stopWord[w], 0}
      BY <1>1, <2>1, ServerHears
    <3>2. heard' = heard \union {opCmd'}
      BY <2>1
    <3>3. heard' \subseteq Commands /\ HeardInv' /\ SilentInv'
      BY <1>0, <3>1, <3>2 DEF HeardInv, SilentInv
    <3>4. StopInv'
      BY <3>1, <3>2 DEF StopInv, Workers
    <3> QED BY <1>0, <3>3, <3>4
  <2>2. CASE /\ orders' = orders /\ pc["op"] # "loop"
             /\ UNCHANGED stopWord /\ \A w \in Workers : pc'[w] = pc[w]
    <3>1. heard' = heard /\ heard # {}
      BY <2>2 DEF HeardInv
    <3> QED BY <1>0, <2>2, <3>1 DEF HeardInv, StopInv, SilentInv, Workers
  <2>3. CASE UNCHANGED <<orders, pc, starStore, fileMark, stopWord, fd, lsNum>>
    BY <1>0, <2>3 DEF HeardInv, StopInv, SilentInv
  <2> QED BY <1>1, <2>1, <2>2, <2>3, ServerHears
<1>2. CASE Control \/ Mn \/ Ls \/ Sy \/ Pl
  <2>1. heard' = heard /\ pc'["op"] = pc["op"] /\ starStore' \in {starStore, 0}
    BY <1>2, ThreadsKeep
  <2>2. HeardInv'
    BY <2>1 DEF HeardInv
  <2>3. StopInv'
    BY <1>2, <2>1, StopKept DEF StopInv
  <2>4. SilentInv'
    BY <1>2, <2>1, SilentKept DEF SilentInv
  <2> QED BY <1>0, <2>1, <2>2, <2>3, <2>4
<1> QED BY <1>1, <1>2 DEF Next

(* So does the PL while the program starts up.                             *)
LEMMA QuietPl ==
  ASSUME BootInv, Pl, UNCHANGED <<boot, heard>>
  PROVE  QuietInv'
<1>1. UNCHANGED <<starStore, fileMark, stopWord, pc, fd, lsNum>>
  BY DEF Pl, PlAsk, PlCut, PlDrop, words, numbers
<1> QED BY <1>1 DEF BootInv, QuietInv, FreshInv, HeardInv, StopInv, SilentInv

(* BootInv is inductive.                                                   *)
LEMMA BootInvStep == BootInv /\ [BootNext]_allVars => BootInv'
<1> SUFFICES ASSUME BootInv, [BootNext]_allVars PROVE BootInv'
  OBVIOUS
<1>1. CASE Crash \/ StartUp
  BY <1>1, BootInvCrash, BootInvStartUp
<1>2. CASE Running(Next)
  <2>1. IInv'
    BY <1>2, InvStep DEF BootInv, Running
  <2>2. QuietInv' /\ heard' \subseteq Commands
    BY <1>2, QuietRunning DEF Running
  <2>3. BootTypeOK'
    BY <1>2, <2>1, <2>2 DEF BootInv, BootTypeOK, IInv, Running
  <2> QED BY <2>1, <2>2, <2>3 DEF BootInv
<1>3. CASE Always(Pl)
  <2>1. IInv'
    BY <1>3, InvStep DEF BootInv, Always, Next
  <2>2. QuietInv'
    BY <1>3, QuietPl DEF Always
  <2>3. early' \in BOOLEAN
    BY <1>3, Zenon DEF BootInv, BootTypeOK, Always
  <2>4. BootTypeOK'
    BY <1>3, <2>1, <2>3 DEF BootInv, BootTypeOK, IInv, Always
  <2> QED BY <2>1, <2>2, <2>4 DEF BootInv
<1>4. CASE UNCHANGED allVars
  <2>1. IInv'
    BY <1>4, InvStep DEF BootInv, allVars
  <2>2. UNCHANGED <<starStore, fileMark, stopWord, pc, fd, lsNum, bootVars>>
    BY <1>4 DEF allVars, vars, words, numbers
  <2> QED BY <2>1, <2>2
          DEF BootInv, BootTypeOK, IInv, QuietInv, FreshInv, HeardInv, StopInv,
              SilentInv, bootVars
<1> QED BY <1>1, <1>2, <1>3, <1>4 DEF BootNext

(* BootInv holds throughout, however often the program ends.               *)
LEMMA BootInvHolds == BootSpec => []BootInv
BY BootInvInit, BootInvStep, PTL DEF BootSpec

(* What is proved of one run of the program holds across restarts: the     *)
(* types, and the three properties of the slices and their files.          *)
THEOREM SafeAcrossRestarts ==
  BootSpec => [](BootTypeOK /\ ParkedHoldsNothing /\ NoDescriptorLost /\ OneFlowConsumer)
<1>1. BootInv => BootTypeOK /\ ParkedHoldsNothing /\ NoDescriptorLost /\ OneFlowConsumer
  BY DEF BootInv, IInv, MnInv, SyInv, ParkedHoldsNothing, NoDescriptorLost,
         OneFlowConsumer, ArmReady, Followers
<1> QED BY <1>1, BootInvHolds, PTL

(* A restart does not begin with a stop of the run before on chan0 or      *)
(* chan1, whatever the words were when the program ended.                  *)
THEOREM NoStopSurvives == BootSpec => []NoOldStop
<1>1. BootInv => NoOldStop
  BY DEF BootInv, QuietInv, StopInv, NoOldStop
<1> QED BY <1>1, BootInvHolds, PTL

(* A restart does not begin to record by itself, although its start-up     *)
(* leaves FILE_MARK at 0 for a while.                                      *)
THEOREM RestartIsSilent == BootSpec => []SilentStart
<1>1. BootInv => SilentStart
  BY DEF BootInv, QuietInv, SilentInv, SilentStart
<1> QED BY <1>1, BootInvHolds, PTL

-----------------------------------------------------------------------------
(* The names stay in step across restarts as well: the ring is emptied     *)
(* with the count of its names, and the names taken with the slices.       *)
LEMMA NamesStep ==
  ASSUME BootInv, RingInv, NameInv, [BootNext]_allVars
  PROVE  RingInv' /\ NameInv'
<1>1. CASE Crash
  <2>1. RingInv'
    BY <1>1 DEF Crash, FirstPc, RingInv, RingKeepsNames, Threads, Workers
  <2>2. fails \in Nat /\ fails' = fails
    BY <1>1, NameTypes DEF BootInv, IInv, Crash, bounds
  <2>3. NameInv'
    BY <1>1, <2>2 DEF Crash, FirstPc, NameInv, NameDue, Chans, Workers, Followers, Threads
  <2> QED BY <2>1, <2>3
<1>2. CASE StartUp
  <2>1. UNCHANGED <<flags, numbers, pc, bounds>>
    BY <1>2 DEF StartUp, BootReset, BootSource, BootWords, BootStep
  <2> QED BY <2>1 DEF flags, chan0, numbers, bounds, RingInv, RingKeepsNames, NameInv, NameDue
<1>3. CASE Running(Next) \/ Always(Pl) \/ UNCHANGED allVars
  <2>1. IInv /\ TypeOK /\ [Next]_vars
    BY <1>3 DEF Running, Always, Next, allVars, BootInv, IInv
  <2> QED BY <2>1, RingStep, NameStep
<1> QED BY <1>1, <1>2, <1>3 DEF BootNext

(* After any restarts, whoever reads a name in the ring reads the one it   *)
(* means, and no thread takes two names in one slice.                      *)
THEOREM NamesAfterBoot == BootSpec => [](RingKeepsNames /\ OneNameEachSlice)
<1>1. BootInit => RingInv /\ NameInv
  <2>1. BootInit => RingInv
    BY DEF BootInit, Init, BoardInit, ProgramInit, FirstPc, RingInv, RingKeepsNames,
           Threads, Workers
  <2> QED BY <2>1, NameInit DEF BootInit
<1>2. BootInv /\ RingInv /\ NameInv => RingKeepsNames /\ OneNameEachSlice
  BY NameWithin DEF RingInv, BootInv, IInv
<1> QED BY <1>1, <1>2, NamesStep, BootInvHolds, PTL DEF BootSpec

(* The cycle of chan0's slices goes on as SliceCycle says while the        *)
(* program runs, with whatever words and pins it has found, and a restart  *)
(* begins it anew, wherever in a slice the run before has ended.           *)
THEOREM RestartsBeginTheCycle == BootSpec => CycleAcrossRestarts
<1>1. BootInit => Cycle!Init
  BY CycleInit DEF BootInit
<1>2. BootInv /\ [BootNext]_allVars
        => [IF restarts' = restarts THEN Cycle!Next ELSE Cycle!Init']_<<Phase, sliceCount[0]>>
  <2> SUFFICES ASSUME BootInv, [BootNext]_allVars
               PROVE  \/ IF restarts' = restarts THEN Cycle!Next ELSE Cycle!Init'
                      \/ Phase' = Phase /\ sliceCount'[0] = sliceCount[0]
    OBVIOUS
  <2>1. CASE Crash
    <3>1. restarts' # restarts
      BY <2>1 DEF Crash, BootInv, BootTypeOK
    <3>2. Cycle!Init'
      BY <2>1 DEF Crash, Cycle!Init, Phase, Parked, FirstPc, Chans, Workers, Followers,
                  Threads
    <3> QED BY <3>1, <3>2
  <2>2. CASE StartUp
    <3>1. UNCHANGED <<sliceCount, chanStored, chan0Indexed, pc, fd>>
      BY <2>2 DEF StartUp, BootReset, BootSource, BootWords, BootStep, flags, chan0
    <3> QED BY <3>1, PhaseKept
  <2>3. CASE Running(Next) \/ Always(Pl) \/ UNCHANGED allVars
    <3>1. [Next]_vars /\ restarts' = restarts
      BY <2>3 DEF Running, Always, Next, allVars, bootVars
    <3>2. Cycle!Next \/ (Phase' = Phase /\ sliceCount'[0] = sliceCount[0])
      BY <3>1, CycleStep DEF BootInv
    <3> QED BY <3>1, <3>2
  <2> QED BY <2>1, <2>2, <2>3 DEF BootNext
<1> QED BY <1>1, <1>2, BootInvHolds, PTL DEF BootSpec, CycleAcrossRestarts

-----------------------------------------------------------------------------
(* Up to the first stop of the first run a cut only ever ends the slice it *)
(* was meant for, whatever other commands come.  (A later run may find a   *)
(* stop for index left in its word, which parks index alone.)              *)
AlignedUntilStop == restarts = 0 /\ "stop" \notin heard => CutsAligned

CutBootInv == restarts = 0 /\ "stop" \notin heard => boot = "up" /\ CutInv

(* A stop is heard before it can leave a cut over.                         *)
LEMMA CutBootStep ==
  ASSUME BootInv, CutBootInv, [BootNext]_allVars
  PROVE  CutBootInv'
<1> SUFFICES ASSUME restarts' = 0, "stop" \notin heard'
             PROVE  boot' = "up" /\ CutInv'
  BY DEF CutBootInv
<1>1. CASE Crash
  BY <1>1 DEF Crash, BootInv, BootTypeOK
<1>2. CASE StartUp
  <2>1. boot # "up" /\ restarts = 0 /\ "stop" \notin heard
    BY <1>2 DEF StartUp, BootReset, BootSource, BootWords, BootStep
  <2> QED BY <2>1 DEF CutBootInv
<1>3. CASE Running(Next) \/ Always(Pl) \/ UNCHANGED allVars
  <2>1. [Next]_vars /\ boot' = boot /\ restarts' = restarts /\ heard \subseteq heard'
    BY <1>3 DEF Running, Always, Next, allVars, bootVars
  <2>2. boot = "up" /\ CutInv
    BY <2>1 DEF CutBootInv
  <2>3. CASE OpStop
    <3>1. opCmd' = "stop" /\ orders' # orders
      BY <2>3 DEF OpStop, Order, BootInv, IInv, TypeOK, LocalsOK
    <3>2. ~Pl
      BY <3>1 DEF Pl, PlAsk, PlCut, PlDrop, bounds
    <3>3. orders' = orders \/ heard' = heard \union {opCmd'}
      BY <1>3, <3>2 DEF Running, Always, allVars, vars, bounds
    <3> QED BY <3>1, <3>3
  <2>4. CASE ~OpStop
    BY <2>1, <2>2, <2>4, CutStep DEF BootInv
  <2> QED BY <2>3, <2>4
<1> QED BY <1>1, <1>2, <1>3 DEF BootNext

(* wait_slice() passes every cut on to the slice it was requested in, as   *)
(* long as nobody has stopped the recording, whatever else is commanded:   *)
(* a STOP that was heard is the only command that can put a cut out of step*)
THEOREM CutsAlignedUntilStop == BootSpec => []AlignedUntilStop
<1>1. BootInit => CutBootInv
  BY CutInvInit DEF BootInit, CutBootInv
<1>2. BootInv /\ CutBootInv /\ [BootNext]_allVars => CutBootInv'
  BY CutBootStep
<1>3. CutBootInv => AlignedUntilStop
  BY DEF CutBootInv, AlignedUntilStop, CutInv, CutsAligned, Inside, NoCut
<1> QED BY <1>1, <1>2, <1>3, BootInvHolds, PTL DEF BootSpec
=============================================================================
