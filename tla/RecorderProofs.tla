-------------------------- MODULE RecorderProofs ---------------------------
(* Theorems about Recorder for every ring size, slice limit, set of        *)
(* commands, operator, and number of commands and failing open() calls.    *)
EXTENDS Recorder, Integers, TLAPS

(* The types hold to begin with.                                           *)
LEMMA TypeInit == Init => TypeOK
BY RecorderAssumption
   DEF Init, BoardInit, ProgramInit, FirstPc, TypeOK, WordsOK, FlagsOK,
       NumbersOK, LocalsOK, Bit, Chans, Workers, Followers, Threads, FdStates,
       CtlPcs, MnPcs, LsPcs, SyPcs, OpPcs

(* Between its test and the acknowledgement the control loop relies on the *)
(* test: only itself takes the ready flags back or counts slices.          *)
CtlInv == pc["ctl"] = "arming" => ArmReady /\ BelowLimit(0)

(* The control loop keeps the types, and slice_count its limit.            *)
LEMMA TypeControl == TypeOK /\ CtlInv /\ Control => TypeOK'
<1> SUFFICES ASSUME TypeOK, CtlInv, Control PROVE TypeOK'
  OBVIOUS
<1> USE RecorderAssumption
    DEF TypeOK, WordsOK, FlagsOK, NumbersOK, LocalsOK, Bit, Chans, Workers,
        Followers, Threads, FdStates, CtlPcs, MnPcs, LsPcs, SyPcs, OpPcs, Goto,
        words, plVars, chan0, flags, numbers, bounds
<1>0. CASE CtlSeesFlow
  BY <1>0 DEF CtlSeesFlow
<1>1. CASE CtlArm0
  BY <1>1 DEF CtlArm0, FlowAck, CtlInv, BelowLimit
<1>2. CASE CtlArm1
  BY <1>2 DEF CtlArm1, BelowLimit
<1>3. ASSUME NEW c \in Chans, CtlCut(c) PROVE TypeOK'
  BY SMTT(30), <1>3 DEF CtlCut, AckPc
<1>4. ASSUME NEW c \in Chans, CtlCutDone(c) PROVE TypeOK'
  BY <1>4 DEF CtlCutDone, AckPc
<1> QED BY <1>0, <1>1, <1>2, <1>3, <1>4 DEF Control

(* The steps two or three receive threads have in common keep the types.   *)
LEMMA TypeShared ==
  ASSUME TypeOK, NEW w \in Workers,
         SeesStop(w) \/ StopClose(w) \/ (w \in Followers /\ TakeName(w))
  PROVE  TypeOK'
<1> USE RecorderAssumption
    DEF TypeOK, WordsOK, FlagsOK, NumbersOK, LocalsOK, Bit, Chans, Workers,
        Followers, Threads, FdStates, CtlPcs, MnPcs, LsPcs, SyPcs, OpPcs, Goto,
        words, plVars, chan0, flags, numbers, bounds
<1>1. CASE SeesStop(w)
  BY <1>1 DEF SeesStop
<1>2. CASE StopClose(w)
  BY <1>2 DEF StopClose, StopEnd, Close
<1>3. CASE w \in Followers /\ TakeName(w)
  BY <1>3 DEF TakeName
<1> QED BY <1>1, <1>2, <1>3

(* The chan0 thread keeps the types.                                       *)
LEMMA TypeMn == TypeOK /\ Mn => TypeOK'
<1> SUFFICES ASSUME TypeOK, Mn PROVE TypeOK'
  OBVIOUS
<1> USE DEF Workers, Followers
<1>1. CASE SeesStop("mn") \/ StopClose("mn") \/ TakeName("mn")
  BY <1>1, TypeShared
<1> USE RecorderAssumption
    DEF TypeOK, WordsOK, FlagsOK, NumbersOK, LocalsOK, Bit, Chans,
        Threads, FdStates, CtlPcs, MnPcs, LsPcs, SyPcs, OpPcs, Goto,
        words, plVars, chan0, flags, numbers, bounds
<1>2. CASE MnFirstFlow
  BY <1>2 DEF MnFirstFlow
<1>8. CASE MnFirstAck
  BY <1>8 DEF MnFirstAck, FlowAck
<1>3. CASE MnStop
  BY <1>3 DEF MnStop, Park, Taken
<1>4. CASE MnSeesName
  BY <1>4 DEF MnSeesName
<1>5. ASSUME NEW ok \in BOOLEAN, MnOpen(ok) PROVE TypeOK'
  BY SMTT(30), <1>5 DEF MnOpen, Advance, Open
<1>6. CASE MnMark
  BY <1>6 DEF MnMark
<1>7. CASE MnCut
  BY <1>7 DEF MnCut, Park, Close
<1> QED BY <1>1, <1>2, <1>3, <1>4, <1>5, <1>6, <1>7, <1>8 DEF Mn

(* The chan1 thread keeps the types.                                       *)
LEMMA TypeLs == TypeOK /\ Ls => TypeOK'
<1> SUFFICES ASSUME TypeOK, Ls PROVE TypeOK'
  OBVIOUS
<1> USE DEF Workers, Followers
<1>1. CASE SeesStop("ls") \/ StopClose("ls")
  BY <1>1, TypeShared
<1> USE RecorderAssumption
    DEF TypeOK, WordsOK, FlagsOK, NumbersOK, LocalsOK, Bit, Chans,
        Threads, FdStates, CtlPcs, MnPcs, LsPcs, SyPcs, OpPcs, Goto,
        words, plVars, chan0, flags, numbers, bounds
<1>2. ASSUME NEW ok \in BOOLEAN, LsStart(ok) PROVE TypeOK'
  BY <1>2 DEF LsStart, Open
<1>3. CASE LsStarted
  BY <1>3 DEF LsStarted
<1>4. CASE LsOffer
  BY <1>4 DEF LsOffer
<1>5. CASE LsStop
  BY <1>5 DEF LsStop, Taken
<1>6. ASSUME NEW ok \in BOOLEAN, LsCut(ok) PROVE TypeOK'
  BY <1>6 DEF LsCut, Slot, Open
<1>7. CASE LsCutDone
  BY <1>7 DEF LsCutDone
<1> QED BY <1>1, <1>2, <1>3, <1>4, <1>5, <1>6, <1>7 DEF Ls

(* The index thread keeps the types.                                       *)
LEMMA TypeSy == TypeOK /\ Sy => TypeOK'
<1> SUFFICES ASSUME TypeOK, Sy PROVE TypeOK'
  OBVIOUS
<1> USE DEF Workers, Followers
<1>1. CASE SeesStop("sy") \/ StopClose("sy") \/ TakeName("sy")
  BY <1>1, TypeShared
<1> USE RecorderAssumption
    DEF TypeOK, WordsOK, FlagsOK, NumbersOK, LocalsOK, Bit, Chans,
        Threads, FdStates, CtlPcs, MnPcs, LsPcs, SyPcs, OpPcs, Goto,
        words, plVars, chan0, flags, numbers, bounds
<1>2. CASE SyStop
  BY <1>2 DEF SyStop, SyEnd, Taken
<1>3. CASE SySeesName
  BY <1>3 DEF SySeesName
<1>4. ASSUME NEW ok \in BOOLEAN, SyOpen(ok) PROVE TypeOK'
  BY <1>4 DEF SyOpen, Advance, Open
<1>5. CASE SyCut
  BY <1>5 DEF SyCut, SyEnd, Close
<1> QED BY <1>1, <1>2, <1>3, <1>4, <1>5 DEF Sy

(* The command server keeps the types.                                     *)
LEMMA TypeServer == TypeOK /\ Server => TypeOK'
<1> SUFFICES ASSUME TypeOK, Server PROVE TypeOK'
  OBVIOUS
<1> USE RecorderAssumption
    DEF TypeOK, WordsOK, FlagsOK, NumbersOK, LocalsOK, Bit, Chans, Workers,
        Followers, Threads, FdStates, CtlPcs, MnPcs, LsPcs, SyPcs, OpPcs, Goto,
        words, plVars, chan0, flags, numbers, bounds, EnableValue
<1>1. CASE OpStart
  BY <1>1 DEF OpStart, Order
<1>2. CASE OpStop
  BY <1>2 DEF OpStop, Order
<1>3. CASE OpFull
  BY <1>3 DEF OpFull, Order
<1>4. CASE OpDisk
  BY <1>4 DEF OpDisk
<1>5. CASE OpStar
  BY <1>5 DEF OpStar
<1>6. CASE OpMark
  BY <1>6 DEF OpMark
<1>7. CASE OpEnable
  BY <1>7 DEF OpEnable
<1>8. CASE OpEnMark
  BY <1>8 DEF OpEnMark
<1> QED BY <1>1, <1>2, <1>3, <1>4, <1>5, <1>6, <1>7, <1>8
        DEF Server, ServerSteps

(* The PL keeps the types.                                                 *)
LEMMA TypePl == TypeOK /\ Pl => TypeOK'
<1> SUFFICES ASSUME TypeOK, Pl PROVE TypeOK'
  OBVIOUS
<1> USE DEF TypeOK, WordsOK, FlagsOK, NumbersOK, LocalsOK, Bit, Chans,
        words, flags, chan0, numbers, bounds
<1>1. CASE PlAsk
  BY <1>1 DEF PlAsk
<1>2. ASSUME NEW c \in Chans, PlCut(c) PROVE TypeOK'
  BY <1>2 DEF PlCut
<1>3. ASSUME NEW c \in Chans, PlDrop(c) PROVE TypeOK'
  BY <1>3 DEF PlDrop
<1> QED BY <1>1, <1>2, <1>3 DEF Pl

(* A step that changes nothing keeps the types.                            *)
LEMMA TypeStutter == TypeOK /\ UNCHANGED vars => TypeOK'
BY DEF TypeOK, WordsOK, FlagsOK, NumbersOK, LocalsOK, vars, words, plVars,
       chan0, flags, numbers, bounds

(* CtlInv is kept by the control loop itself ...                           *)
LEMMA CtlInvControl == TypeOK /\ Control => CtlInv'
<1> SUFFICES ASSUME TypeOK, Control PROVE CtlInv'
  OBVIOUS
<1> USE DEF TypeOK, LocalsOK, Threads, Workers, Goto, CtlInv
<1>1. CASE CtlSeesFlow
  BY <1>1 DEF CtlSeesFlow, ArmReady, BelowLimit, flags, chan0
<1>2. CASE CtlArm0 \/ CtlArm1
  BY <1>2 DEF CtlArm0, CtlArm1
<1>3. ASSUME NEW c \in Chans, CtlCut(c) \/ CtlCutDone(c) PROVE CtlInv'
  BY <1>3 DEF CtlCut, CtlCutDone, AckPc
<1> QED BY <1>1, <1>2, <1>3 DEF Control

(* ... and by all others, who raise the ready flags but never lower them.  *)
LEMMA CtlInvOthers ==
  ASSUME TypeOK, CtlInv, Mn \/ Ls \/ Sy \/ Server \/ Pl \/ UNCHANGED vars
  PROVE  CtlInv'
<1> DEFINE Raised == /\ pc'["ctl"] = pc["ctl"] /\ sliceCount' = sliceCount
                     /\ chanStored'[0] \in {chanStored[0], 1}
                     /\ chan0Indexed' \in {chan0Indexed, 1}
<1>1. ASSUME Raised PROVE CtlInv'
  BY <1>1 DEF CtlInv, ArmReady, BelowLimit
<1> USE DEF TypeOK, LocalsOK, FlagsOK, Chans, Workers, Followers, Threads, Goto,
            flags, chan0, vars
<1>2. ASSUME NEW w \in Workers, SeesStop(w) \/ StopClose(w) \/ TakeName(w)
      PROVE  Raised
  BY <1>2 DEF SeesStop, StopClose, TakeName
<1>3. CASE Mn
  <2>1. ASSUME MnFirstFlow \/ MnFirstAck \/ MnStop PROVE Raised
    BY <2>1 DEF MnFirstFlow, MnFirstAck, MnStop, Park
  <2>2. ASSUME MnSeesName \/ MnMark \/ MnCut PROVE Raised
    BY <2>2 DEF MnSeesName, MnMark, MnCut, Park
  <2>3. ASSUME NEW ok \in BOOLEAN, MnOpen(ok) PROVE Raised
    BY <2>3 DEF MnOpen
  <2> QED BY <1>1, <1>2, <1>3, <2>1, <2>2, <2>3 DEF Mn
<1>4. CASE Ls
  <2>1. ASSUME NEW ok \in BOOLEAN, LsStart(ok) \/ LsCut(ok) PROVE Raised
    BY <2>1 DEF LsStart, LsCut
  <2>2. ASSUME LsStarted \/ LsOffer \/ LsStop \/ LsCutDone PROVE Raised
    BY <2>2 DEF LsStarted, LsOffer, LsStop, LsCutDone
  <2> QED BY <1>1, <1>2, <1>4, <2>1, <2>2 DEF Ls
<1>5. CASE Sy
  <2>1. ASSUME SyStop \/ SySeesName \/ SyCut PROVE Raised
    BY <2>1 DEF SyStop, SyEnd, SySeesName, SyCut
  <2>2. ASSUME NEW ok \in BOOLEAN, SyOpen(ok) PROVE Raised
    BY <2>2 DEF SyOpen
  <2> QED BY <1>1, <1>2, <1>5, <2>1, <2>2 DEF Sy
<1>6. CASE Server
  BY <1>1, <1>6 DEF Server, ServerSteps, OpStart, OpStop, OpFull, OpDisk, Order,
                    OpStar, OpMark, OpEnable, OpEnMark
<1>7. CASE Pl
  BY <1>1, <1>7 DEF Pl, PlAsk, PlCut, PlDrop
<1>8. CASE UNCHANGED vars
  BY <1>1, <1>8
<1> QED BY <1>3, <1>4, <1>5, <1>6, <1>7, <1>8

(* Types and CtlInv hold together, each step relying on both.              *)
LEMMA TypeStep == TypeOK /\ CtlInv /\ [Next]_vars => TypeOK' /\ CtlInv'
BY TypeControl, TypeMn, TypeLs, TypeSy, TypeServer, TypePl, TypeStutter,
   CtlInvControl, CtlInvOthers DEF Next

(* CtlInv holds to begin with.                                             *)
LEMMA CtlInvInit == Init => CtlInv
BY DEF Init, BoardInit, ProgramInit, FirstPc, CtlInv, Threads, Workers

(* Every variable keeps its type, and slice_count never passes             *)
(* MAX_FILE_COUNT although it is tested some time before it is counted.    *)
THEOREM TypeCorrect == Spec => []TypeOK
BY TypeInit, CtlInvInit, TypeStep, PTL DEF Spec

-----------------------------------------------------------------------------
(***************************************************************************)
(* The inductive invariant behind the safety properties.  A follower holds *)
(* an open file only inside a slice whose file it has already opened, or   *)
(* in the stop branch before its close; it is past the new-file test only  *)
(* inside a slice that has no file yet; and chan0 is inside its slice as   *)
(* long as it waits for the first flow request.  The first two support     *)
(* each other: the control loop can open a new slice, which sets the "new  *)
(* file" flags, only under a thread that has handed its slice back.        *)
(***************************************************************************)
MnInv ==
  /\ fd["mn"] = "open"
       => pc["mn"] = "closing" \/ (chanSliceAlt = 0 /\ chanStored[0] = 0)
  /\ pc["mn"] \in {"naming", "opening"} => chanSliceAlt = 1 /\ chanStored[0] = 0
  /\ pc["mn"] = "marking" => chanStored[0] = 0
  /\ pc["mn"] \in {"wait", "flow"} => chanStored[0] = 0

SyInv ==
  /\ fd["sy"] = "open"
       => pc["sy"] = "closing" \/ (chan0IndexAlt = 0 /\ chan0Indexed = 0)
  /\ pc["sy"] \in {"naming", "opening"} => chan0IndexAlt = 1 /\ chan0Indexed = 0

IInv == TypeOK /\ CtlInv /\ MnInv /\ SyInv

(* What the control loop, chan1, the server and the PL leave alone.        *)
LEMMA OthersKeep ==
  ASSUME TypeOK,
         \/ CtlSeesFlow \/ CtlArm1 \/ \E c \in Chans : CtlCut(c) \/ CtlCutDone(c)
         \/ Ls \/ Server \/ Pl \/ UNCHANGED vars
  PROVE  /\ \A w \in Followers : pc'[w] = pc[w] /\ fd'[w] = fd[w]
         /\ chanStored'[0] = chanStored[0] /\ UNCHANGED chan0Indexed
         /\ UNCHANGED <<chanSliceAlt, chan0IndexAlt>>
<1> DEFINE Kept == /\ \A w \in Followers : pc'[w] = pc[w] /\ fd'[w] = fd[w]
                   /\ chanStored'[0] = chanStored[0] /\ UNCHANGED chan0Indexed
                   /\ UNCHANGED <<chanSliceAlt, chan0IndexAlt>>
<1> USE DEF TypeOK, LocalsOK, FlagsOK, Chans, Workers, Followers, Threads, Goto,
            flags, chan0, vars
<1>1. CASE CtlSeesFlow \/ CtlArm1 \/ \E c \in Chans : CtlCut(c) \/ CtlCutDone(c)
  BY <1>1 DEF CtlSeesFlow, CtlArm1, CtlCut, CtlCutDone
<1>2. CASE Ls
  <2>1. CASE SeesStop("ls") \/ StopClose("ls")
    BY <2>1 DEF SeesStop, StopClose, StopEnd, Close
  <2>2. ASSUME NEW ok \in BOOLEAN, LsStart(ok) \/ LsCut(ok) PROVE Kept
    BY <2>2 DEF LsStart, LsCut, Open
  <2>3. CASE LsStarted \/ LsOffer
    BY <2>3 DEF LsStarted, LsOffer
  <2>4. CASE LsStop \/ LsCutDone
    BY <2>4 DEF LsStop, LsCutDone
  <2> QED BY <1>2, <2>1, <2>2, <2>3, <2>4 DEF Ls
<1>3. CASE Server
  BY <1>3 DEF Server, ServerSteps, OpStart, OpStop, OpFull, OpDisk, Order,
              OpStar, OpMark, OpEnable, OpEnMark
<1>4. CASE Pl
  BY <1>4 DEF Pl, PlAsk, PlCut, PlDrop
<1>5. CASE UNCHANGED vars
  BY <1>5
<1> QED BY <1>1, <1>2, <1>3, <1>4, <1>5

(* What the steps of one follower leave alone of the other.                *)
LEMMA MnKeepsSy ==
  ASSUME TypeOK, Mn
  PROVE  pc'["sy"] = pc["sy"] /\ fd'["sy"] = fd["sy"]
         /\ UNCHANGED <<chan0IndexAlt, chan0Indexed>>
<1> USE DEF TypeOK, LocalsOK, Workers, Followers, Threads, Goto, flags, chan0
<1>1. CASE SeesStop("mn") \/ StopClose("mn") \/ TakeName("mn")
  BY <1>1 DEF SeesStop, StopClose, StopEnd, Close, TakeName
<1>2. CASE MnFirstFlow \/ MnFirstAck \/ MnStop \/ MnSeesName \/ MnMark \/ MnCut
  BY <1>2 DEF MnFirstFlow, MnFirstAck, MnStop, MnSeesName, MnMark, MnCut, Close
<1>3. CASE \E ok \in BOOLEAN : MnOpen(ok)
  BY <1>3 DEF MnOpen, Open
<1> QED BY <1>1, <1>2, <1>3 DEF Mn

(* And the other way round.                                                *)
LEMMA SyKeepsMn ==
  ASSUME TypeOK, Sy
  PROVE  pc'["mn"] = pc["mn"] /\ fd'["mn"] = fd["mn"]
         /\ chanStored' = chanStored /\ UNCHANGED chanSliceAlt
<1> USE DEF TypeOK, LocalsOK, Workers, Followers, Threads, Goto, flags, chan0
<1>1. CASE SeesStop("sy") \/ StopClose("sy") \/ TakeName("sy")
  BY <1>1 DEF SeesStop, StopClose, StopEnd, Close, TakeName
<1>2. CASE SyStop \/ SySeesName \/ SyCut
  BY <1>2 DEF SyStop, SyEnd, SySeesName, SyCut, Close
<1>3. CASE \E ok \in BOOLEAN : SyOpen(ok)
  BY <1>3 DEF SyOpen, Open
<1> QED BY <1>1, <1>2, <1>3 DEF Sy

-----------------------------------------------------------------------------

(* IInv holds to begin with.                                               *)
LEMMA InvInit == Init => IInv
BY TypeInit, CtlInvInit DEF Init, BoardInit, ProgramInit, FirstPc, IInv, MnInv,
                            SyInv, Chans, Workers, Followers, Threads

(* The chan0 part of the invariant is kept: by the control loop because a  *)
(* thread that has handed its slice back is past its new-file branch.      *)
LEMMA MnInvStep == IInv /\ [Next]_vars => MnInv'
<1> SUFFICES ASSUME IInv, [Next]_vars PROVE MnInv'
  OBVIOUS
<1> USE DEF IInv, MnInv
<1>1. CASE CtlArm0
  <2>1. chanStored[0] = 1
    BY <1>1 DEF CtlArm0, Goto, CtlInv, ArmReady
  <2>2. pc["mn"] \notin {"naming", "opening", "marking", "wait", "flow"}
    BY <2>1
  <2>3. pc'["mn"] = pc["mn"] /\ fd' = fd
    BY <1>1 DEF CtlArm0, Goto, TypeOK, LocalsOK, Threads, Workers
  <2> QED BY <2>1, <2>2, <2>3
<1>2. CASE Mn
  <2> USE DEF TypeOK, LocalsOK, FlagsOK, Bit, Chans, Workers, Threads, Goto,
              flags, chan0
  <2>1. CASE MnFirstFlow \/ MnFirstAck \/ SeesStop("mn")
    BY <2>1 DEF MnFirstFlow, MnFirstAck, SeesStop
  <2>2. CASE MnStop
    BY <2>2 DEF MnStop, Park
  <2>3. CASE StopClose("mn")
    BY <2>3 DEF StopClose, StopEnd, Close
  <2>4. CASE MnSeesName
    BY <2>4 DEF MnSeesName, MnNewFile
  <2>5. CASE TakeName("mn")
    BY <2>5 DEF TakeName
  <2>6. ASSUME NEW ok \in BOOLEAN, MnOpen(ok) PROVE MnInv'
    BY <2>6 DEF MnOpen, Open
  <2>7. CASE MnMark
    BY <2>7 DEF MnMark
  <2>8. CASE MnCut
    BY <2>8 DEF MnCut, Park, Close
  <2> QED BY <1>2, <2>1, <2>2, <2>3, <2>4, <2>5, <2>6, <2>7, <2>8 DEF Mn
<1>3. CASE Sy
  BY <1>3, SyKeepsMn
<1>4. CASE \/ CtlSeesFlow \/ CtlArm1 \/ \E c \in Chans : CtlCut(c) \/ CtlCutDone(c)
           \/ Ls \/ Server \/ Pl \/ UNCHANGED vars
  BY <1>4, OthersKeep DEF Followers
<1> QED BY <1>1, <1>2, <1>3, <1>4 DEF Next, Control

(* The index part, in the same way.                                        *)
LEMMA SyInvStep == IInv /\ [Next]_vars => SyInv'
<1> SUFFICES ASSUME IInv, [Next]_vars PROVE SyInv'
  OBVIOUS
<1> USE DEF IInv, SyInv
<1>1. CASE CtlArm0
  <2>1. chan0Indexed = 1
    BY <1>1 DEF CtlArm0, Goto, CtlInv, ArmReady
  <2>2. pc["sy"] \notin {"naming", "opening"}
    BY <2>1
  <2>3. pc'["sy"] = pc["sy"] /\ fd' = fd
    BY <1>1 DEF CtlArm0, Goto, TypeOK, LocalsOK, Threads, Workers
  <2> QED BY <2>1, <2>2, <2>3
<1>2. CASE Sy
  <2> USE DEF TypeOK, LocalsOK, FlagsOK, Bit, Workers, Threads, Goto, flags, chan0
  <2>1. CASE SeesStop("sy")
    BY <2>1 DEF SeesStop
  <2>2. CASE SyStop
    BY <2>2 DEF SyStop, SyEnd
  <2>3. CASE StopClose("sy")
    BY <2>3 DEF StopClose, StopEnd, Close
  <2>4. CASE SySeesName
    BY <2>4 DEF SySeesName, SyNewFile
  <2>5. CASE TakeName("sy")
    BY <2>5 DEF TakeName
  <2>6. ASSUME NEW ok \in BOOLEAN, SyOpen(ok) PROVE SyInv'
    BY <2>6 DEF SyOpen, Open
  <2>7. CASE SyCut
    BY <2>7 DEF SyCut, SyEnd, Close
  <2> QED BY <1>2, <2>1, <2>2, <2>3, <2>4, <2>5, <2>6, <2>7 DEF Sy
<1>3. CASE Mn
  BY <1>3, MnKeepsSy
<1>4. CASE \/ CtlSeesFlow \/ CtlArm1 \/ \E c \in Chans : CtlCut(c) \/ CtlCutDone(c)
           \/ Ls \/ Server \/ Pl \/ UNCHANGED vars
  BY <1>4, OthersKeep DEF Followers
<1> QED BY <1>1, <1>2, <1>3, <1>4 DEF Next, Control

(* IInv is inductive.                                                      *)
LEMMA InvStep == IInv /\ [Next]_vars => IInv'
BY TypeStep, MnInvStep, SyInvStep DEF IInv

(* IInv holds throughout.                                                  *)
LEMMA InvHolds == Spec => []IInv
BY InvInit, InvStep, PTL DEF Spec

(* No new slice is ever granted to a thread that still holds the file of   *)
(* the slice before, whatever commands come and whichever open() fails.    *)
THEOREM ParkedThreadsHoldNothing == Spec => []ParkedHoldsNothing
<1>1. IInv => ParkedHoldsNothing
  BY DEF IInv, MnInv, SyInv, ParkedHoldsNothing
<1> QED BY <1>1, InvHolds, PTL

(* chan0 and index never open a file while they hold another.              *)
THEOREM FollowersLoseNoDescriptor == Spec => []NoDescriptorLost
<1>1. IInv => NoDescriptorLost
  BY DEF IInv, MnInv, SyInv, NoDescriptorLost, Followers
<1> QED BY <1>1, InvHolds, PTL

(* The two places that poll for a flow request never compete for one.      *)
THEOREM FlowRequestHasOneConsumer == Spec => []OneFlowConsumer
<1>1. IInv => OneFlowConsumer
  BY DEF IInv, MnInv, OneFlowConsumer, ArmReady
<1> QED BY <1>1, InvHolds, PTL
-----------------------------------------------------------------------------
(* The name ring.  A slot is rewritten CycMark names later, not before.    *)
LEMMA OtherSlot ==
  ASSUME NEW a \in Nat, NEW b \in Nat, NEW c \in Nat \ {0}, a < b, b < a + c
  PROVE  a % c # b % c
<1> SUFFICES ASSUME a % c = b % c PROVE FALSE
  OBVIOUS
<1>1. PICK p \in Int : a = c * p + (a % c)
  <2> WITNESS a \div c \in Int
  <2> QED OBVIOUS
<1>2. PICK q \in Int : b = c * q + (b % c)
  <2> WITNESS b \div c \in Int
  <2> QED OBVIOUS
<1>3. b - a = c * (q - p)
  BY <1>1, <1>2
<1>4. 0 < c * (q - p) /\ c * (q - p) < c
  BY <1>3
<1> DEFINE d == q - p
<1>5. d \in Int /\ 0 < c * d /\ c * d < c
  BY <1>4
<1> HIDE DEF d
<1>6. CASE d <= 0
  BY <1>5, <1>6
<1>7. CASE d >= 1
  BY <1>5, <1>7
<1> QED BY <1>5, <1>6, <1>7

(* While chan1 is at the start of a recording only slot 0 has been named.  *)
RingInv ==
  /\ RingKeepsNames
  /\ pc["ls"] = "starting" => lsNum = 0 /\ fileNames[0] = 1

(* Steps of the other threads leave the ring, and where chan1 is, alone.   *)
LEMMA RingKept ==
  ASSUME TypeOK, Control \/ Mn \/ Sy \/ Server \/ Pl \/ UNCHANGED vars
  PROVE  fileNames' = fileNames /\ lsNum' = lsNum /\ pc'["ls"] = pc["ls"]
<1> USE DEF TypeOK, LocalsOK, Workers, Followers, Threads, Goto, numbers, vars
<1>1. CASE Control
  BY <1>1 DEF Control, CtlSeesFlow, CtlArm0, CtlArm1, CtlCut, CtlCutDone
<1>2. CASE Mn
  BY <1>2 DEF Mn, MnFirstFlow, MnFirstAck, SeesStop, MnStop, StopClose, MnSeesName,
              TakeName, MnOpen, Advance, MnMark, MnCut
<1>3. CASE Sy
  BY <1>3 DEF Sy, SeesStop, SyStop, StopClose, SySeesName, TakeName, SyOpen,
              Advance, SyCut
<1>4. CASE Server
  BY <1>4 DEF Server, ServerSteps, OpStart, OpStop, OpFull, OpDisk, Order,
              OpStar, OpMark, OpEnable, OpEnMark
<1>5. CASE Pl
  BY <1>5 DEF Pl, PlAsk, PlCut, PlDrop
<1> QED BY <1>1, <1>2, <1>3, <1>4, <1>5

(* chan1's own steps keep the ring: the name of a cut goes into the slot   *)
(* of the oldest name, and no other.                                       *)
LEMMA RingLs == TypeOK /\ RingInv /\ Ls => RingInv'
<1> SUFFICES ASSUME TypeOK, RingInv, Ls PROVE RingInv'
  OBVIOUS
<1> USE RecorderAssumption
    DEF TypeOK, LocalsOK, NumbersOK, Workers, Threads, Goto, numbers, RingInv,
        RingKeepsNames
<1>1. ASSUME NEW ok \in BOOLEAN, LsStart(ok) PROVE RingInv'
  BY <1>1 DEF LsStart
<1>2. CASE LsStarted
  <2>1. lsNum' = 1 /\ fileNames'[0] = 1 /\ pc'["ls"] # "starting"
    BY <1>2 DEF LsStarted
  <2> QED BY <2>1
<1>3. ASSUME NEW ok \in BOOLEAN, LsCut(ok) PROVE RingInv'
  <2>1. /\ fileNames' = [fileNames EXCEPT ![lsNum % CycMark] = lsNum + 1]
        /\ lsNum' = lsNum + 1 /\ pc'["ls"] # "starting"
        /\ lsNum % CycMark \in 0 .. CycMark - 1
    BY <1>3 DEF LsCut, Slot
  <2> SUFFICES ASSUME NEW n \in 0 .. lsNum, lsNum + 1 <= n + CycMark
               PROVE  fileNames'[n % CycMark] = n + 1
    BY <2>1
  <2>2. CASE n = lsNum
    BY <2>1, <2>2
  <2>3. CASE n < lsNum
    <3> HIDE DEF RingInv, RingKeepsNames
    <3>1. /\ n \in Nat /\ lsNum \in Nat /\ CycMark \in Nat \ {0}
          /\ n \in 0 .. lsNum - 1 /\ lsNum < n + CycMark /\ lsNum <= n + CycMark
      BY <2>3
    <3>2. n % CycMark # lsNum % CycMark
      BY <2>3, <3>1, OtherSlot
    <3>3. n % CycMark \in 0 .. CycMark - 1
      BY <3>1
    <3>4. fileNames[n % CycMark] = n + 1
      BY <3>1, Zenon DEF RingInv, RingKeepsNames
    <3>5. fileNames \in [0 .. CycMark - 1 -> Nat]
      BY DEF TypeOK, NumbersOK
    <3> DEFINE k == n % CycMark
               slot == lsNum % CycMark
    <3>6. k # slot /\ k \in 0 .. CycMark - 1 /\ fileNames[k] = n + 1
      BY <3>2, <3>3, <3>4
    <3>7. fileNames' = [fileNames EXCEPT ![slot] = lsNum + 1]
      BY <2>1
    <3> HIDE DEF k, slot
    <3>8. fileNames'[k] = n + 1
      BY <3>5, <3>6, <3>7
    <3> QED BY <3>8 DEF k
  <2> QED BY <2>2, <2>3
<1>4. CASE LsOffer \/ LsStop \/ LsCutDone \/ SeesStop("ls") \/ StopClose("ls")
  BY <1>4 DEF LsOffer, LsStop, LsCutDone, SeesStop, StopClose
<1> QED BY <1>1, <1>2, <1>3, <1>4 DEF Ls

(* RingInv is inductive, on top of the types.                              *)
LEMMA RingStep == TypeOK /\ RingInv /\ [Next]_vars => RingInv'
<1> SUFFICES ASSUME TypeOK, RingInv, [Next]_vars PROVE RingInv'
  OBVIOUS
<1>1. CASE Ls
  BY <1>1, RingLs
<1>2. CASE Control \/ Mn \/ Sy \/ Server \/ Pl \/ UNCHANGED vars
  BY <1>2, RingKept DEF RingInv, RingKeepsNames
<1> QED BY <1>1, <1>2 DEF Next

(* However many slices a recording has and however far chan0 and index are *)
(* behind chan1, up to the size of the ring they read the name they mean.  *)
THEOREM NamesStayInRing == Spec => []RingKeepsNames
<1>1. Init => RingInv
  BY DEF Init, BoardInit, ProgramInit, FirstPc, RingInv, RingKeepsNames, Threads,
         Workers
<1>2. RingInv => RingKeepsNames
  BY DEF RingInv
<1> QED BY <1>1, <1>2, TypeCorrect, RingStep, PTL DEF Spec

-----------------------------------------------------------------------------
(***************************************************************************)
(* The refinement of SliceCycle.                                           *)
(***************************************************************************)

(* Both threads begin armed, in the first slice.                           *)
LEMMA CycleInit == Init => Cycle!Init
BY DEF Init, BoardInit, ProgramInit, FirstPc, Cycle!Init, Phase, Parked, Chans,
       Workers, Followers, Threads

(* A step that leaves flags and descriptors of both threads alone, and     *)
(* where they are in the stop branch, is a stutter.                        *)
LEMMA PhaseKept ==
  ASSUME \A w \in Followers : pc'[w] = pc[w] /\ fd'[w] = fd[w],
         chanStored'[0] = chanStored[0], chan0Indexed' = chan0Indexed
  PROVE  Phase' = Phase
BY DEF Phase, Parked, Followers

(* The control loop's arming is NextSlice.                                 *)
LEMMA ArmIsNextSlice == IInv /\ CtlArm0 => Cycle!NextSlice
<1> SUFFICES ASSUME IInv, CtlArm0 PROVE Cycle!NextSlice
  OBVIOUS
<1> USE DEF IInv, TypeOK, FlagsOK, LocalsOK, Chans, Followers, Workers, Threads, Goto
<1>1. chanStored[0] = 1 /\ chan0Indexed = 1 /\ sliceCount[0] < MaxFileCount
  BY DEF CtlArm0, CtlInv, ArmReady, BelowLimit
<1>2. /\ chanStored'[0] = 0 /\ chan0Indexed' = 0
      /\ sliceCount'[0] = sliceCount[0] + 1
      /\ fd' = fd /\ pc'["mn"] = pc["mn"] /\ pc'["sy"] = pc["sy"]
  BY DEF CtlArm0
<1>3. \A w \in Followers : fd[w] = "open" => pc[w] = "closing"
  BY <1>1 DEF MnInv, SyInv
<1>4. Phase = [w \in Followers |-> "parked"]
  BY <1>1 DEF Phase, Parked
<1>5. Phase' = [w \in Followers |-> "armed"]
  BY <1>2, <1>3 DEF Phase, Parked
<1> QED BY <1>1, <1>2, <1>4, <1>5 DEF Cycle!NextSlice

(* Nothing but that arming counts chan0's slices.                          *)
LEMMA SlicesKept ==
  ASSUME TypeOK,
         \/ CtlSeesFlow \/ CtlArm1 \/ \E c \in Chans : CtlCut(c) \/ CtlCutDone(c)
         \/ Mn \/ Ls \/ Sy \/ Server \/ Pl \/ UNCHANGED vars
  PROVE  sliceCount'[0] = sliceCount[0]
<1> USE DEF TypeOK, FlagsOK, Chans, flags, vars
<1>1. CASE CtlSeesFlow \/ CtlArm1 \/ \E c \in Chans : CtlCut(c) \/ CtlCutDone(c)
  BY <1>1 DEF CtlSeesFlow, CtlArm1, CtlCut, CtlCutDone
<1>2. CASE Mn
  BY <1>2 DEF Mn, MnFirstFlow, MnFirstAck, SeesStop, MnStop, StopClose, MnSeesName,
              TakeName, MnOpen, MnMark, MnCut
<1>3. CASE Ls
  BY <1>3 DEF Ls, LsStart, LsStarted, LsOffer, SeesStop, LsStop, StopClose, LsCut,
              LsCutDone
<1>4. CASE Sy
  BY <1>4 DEF Sy, SeesStop, SyStop, SyEnd, StopClose, SySeesName, TakeName, SyOpen,
              SyCut
<1>5. CASE Server \/ Pl \/ UNCHANGED vars
  BY <1>5 DEF Server, ServerSteps, OpStart, OpStop, OpFull, OpDisk, OpStar, OpMark,
              OpEnable, OpEnMark, Pl, PlAsk, PlCut, PlDrop
<1> QED BY <1>1, <1>2, <1>3, <1>4, <1>5

(* A step of chan0 opens its file, hands its slice back, or is a stutter.  *)
LEMMA MnRefines ==
  ASSUME IInv, Mn
  PROVE  \/ Cycle!OpenFile("mn") \/ Cycle!HandBack("mn")
         \/ Phase' = Phase /\ sliceCount'[0] = sliceCount[0]
<1> USE DEF IInv
<1>1. /\ sliceCount'[0] = sliceCount[0]
      /\ pc'["sy"] = pc["sy"] /\ fd'["sy"] = fd["sy"] /\ chan0Indexed' = chan0Indexed
  BY SlicesKept, MnKeepsSy
<1> USE DEF TypeOK, FlagsOK, LocalsOK, Chans, Followers, Workers, Threads, Goto,
            Parked
<1>2. CASE \E ok \in BOOLEAN : MnOpen(ok)
  <2>1. PICK ok \in BOOLEAN : MnOpen(ok)
    BY <1>2
  <2>2. chanStored[0] = 0 /\ fd["mn"] # "open"
    BY <2>1 DEF MnOpen, MnInv
  <2>3. chanStored'[0] = 0 /\ pc'["mn"] = "marking"
        /\ fd'["mn"] = IF ok THEN "open" ELSE "failed"
    BY <2>1, <2>2 DEF MnOpen, Open
  <2>4. Phase["mn"] = "armed" /\ Phase'["mn"] = IF ok THEN "filing" ELSE "armed"
    BY <2>2, <2>3 DEF Phase
  <2>5. Phase'["sy"] = Phase["sy"]
    BY <1>1 DEF Phase
  <2> QED BY <1>1, <2>4, <2>5 DEF Phase, Cycle!OpenFile
<1>3. CASE MnStop \/ MnCut
  <2>1. chanStored'[0] = 1
    BY <1>3 DEF MnStop, MnCut, Park
  <2>2. Phase'["mn"] = "parked" /\ Phase'["sy"] = Phase["sy"]
    BY <1>1, <2>1 DEF Phase
  <2> QED BY <1>1, <2>2 DEF Phase, Cycle!HandBack
<1>4. CASE \/ MnFirstFlow \/ MnFirstAck \/ SeesStop("mn") \/ MnSeesName
           \/ TakeName("mn") \/ MnMark
  <2>1. /\ fd'["mn"] = fd["mn"] /\ chanStored'[0] = chanStored[0]
        /\ pc["mn"] # "closing" /\ pc'["mn"] # "closing"
    BY <1>4 DEF MnFirstFlow, MnFirstAck, SeesStop, MnSeesName, TakeName, MnMark,
                flags
  <2> QED BY <1>1, <2>1 DEF Phase
<1>5. CASE StopClose("mn")
  <2>1. /\ pc["mn"] = "closing" /\ fd'["mn"] = "closed"
        /\ chanStored'[0] = chanStored[0]
    BY <1>5 DEF StopClose, StopEnd, Close, flags
  <2> QED BY <1>1, <2>1 DEF Phase
<1> QED BY <1>2, <1>3, <1>4, <1>5 DEF Mn

(* So does a step of index.                                                *)
LEMMA SyRefines ==
  ASSUME IInv, Sy
  PROVE  \/ Cycle!OpenFile("sy") \/ Cycle!HandBack("sy")
         \/ Phase' = Phase /\ sliceCount'[0] = sliceCount[0]
<1> USE DEF IInv
<1>1. /\ sliceCount'[0] = sliceCount[0]
      /\ pc'["mn"] = pc["mn"] /\ fd'["mn"] = fd["mn"] /\ chanStored' = chanStored
  BY SlicesKept, SyKeepsMn
<1> USE DEF TypeOK, FlagsOK, LocalsOK, Chans, Followers, Workers, Threads, Goto,
            Parked
<1>2. CASE \E ok \in BOOLEAN : SyOpen(ok)
  <2>1. PICK ok \in BOOLEAN : SyOpen(ok)
    BY <1>2
  <2>2. chan0Indexed = 0 /\ fd["sy"] # "open"
    BY <2>1 DEF SyOpen, SyInv
  <2>3. chan0Indexed' = 0 /\ pc'["sy"] = "loop"
        /\ fd'["sy"] = IF ok THEN "open" ELSE "failed"
    BY <2>1, <2>2 DEF SyOpen, Open
  <2>4. Phase["sy"] = "armed" /\ Phase'["sy"] = IF ok THEN "filing" ELSE "armed"
    BY <2>2, <2>3 DEF Phase
  <2>5. Phase'["mn"] = Phase["mn"]
    BY <1>1 DEF Phase
  <2> QED BY <1>1, <2>4, <2>5 DEF Phase, Cycle!OpenFile
<1>3. CASE SyStop \/ SyCut
  <2>1. chan0Indexed' = 1
    BY <1>3 DEF SyStop, SyCut, SyEnd
  <2>2. Phase'["sy"] = "parked" /\ Phase'["mn"] = Phase["mn"]
    BY <1>1, <2>1 DEF Phase
  <2> QED BY <1>1, <2>2 DEF Phase, Cycle!HandBack
<1>4. CASE SeesStop("sy") \/ SySeesName \/ TakeName("sy")
  <2>1. /\ fd'["sy"] = fd["sy"] /\ chan0Indexed' = chan0Indexed
        /\ pc["sy"] # "closing" /\ pc'["sy"] # "closing"
    BY <1>4 DEF SeesStop, SySeesName, TakeName, flags, chan0
  <2> QED BY <1>1, <2>1 DEF Phase
<1>5. CASE StopClose("sy")
  <2>1. /\ pc["sy"] = "closing" /\ fd'["sy"] = "closed"
        /\ chan0Indexed' = chan0Indexed
    BY <1>5 DEF StopClose, StopEnd, Close, flags, chan0
  <2> QED BY <1>1, <2>1 DEF Phase
<1> QED BY <1>2, <1>3, <1>4, <1>5 DEF Sy

(* Every step of the recorder is a step of SliceCycle, or a stutter.       *)
LEMMA CycleStep == IInv /\ [Next]_vars => [Cycle!Next]_<<Phase, sliceCount[0]>>
<1> SUFFICES ASSUME IInv, [Next]_vars
             PROVE  Cycle!Next \/ (Phase' = Phase /\ sliceCount'[0] = sliceCount[0])
  OBVIOUS
<1>1. CASE CtlArm0
  BY <1>1, ArmIsNextSlice DEF Cycle!Next
<1>2. CASE Mn
  BY <1>2, MnRefines DEF Cycle!Next, Followers
<1>3. CASE Sy
  BY <1>3, SyRefines DEF Cycle!Next, Followers
<1>4. CASE \/ CtlSeesFlow \/ CtlArm1 \/ \E c \in Chans : CtlCut(c) \/ CtlCutDone(c)
           \/ Ls \/ Server \/ Pl \/ UNCHANGED vars
  <2>1. sliceCount'[0] = sliceCount[0]
    BY <1>4, SlicesKept DEF IInv
  <2>2. Phase' = Phase
    BY <1>4, OthersKeep, PhaseKept DEF IInv
  <2> QED BY <2>1, <2>2
<1> QED BY <1>1, <1>2, <1>3, <1>4 DEF Next, Control

(* The control loop and the two chan0 threads implement SliceCycle: the    *)
(* data and the index file of chan0 are cut into slices in step, whatever  *)
(* commands, cuts and failing open() calls come in between.                *)
THEOREM RecorderImplementsCycle == Spec => ImplementsCycle
BY CycleInit, CycleStep, InvHolds, PTL DEF Spec, ImplementsCycle, Cycle!Spec

-----------------------------------------------------------------------------
(***************************************************************************)
(* The names used up.  A name is due as long as the "new file" flag of a   *)
(* slice that is under way is set; names and the one that is due stay      *)
(* within the slices opened.  Index keeps its flag when it hands a slice   *)
(* back, and takes no name then.                                           *)
(***************************************************************************)
NameDue == IF chan0Indexed = 0 THEN chan0IndexAlt ELSE 0

NameInv ==
  /\ fileNum["mn"] + chanSliceAlt <= sliceCount[0]
  /\ pc["mn"] = "opening" => loaded["mn"] < sliceCount[0]
  /\ fileNum["sy"] + NameDue <= sliceCount[0] + fails
  /\ pc["sy"] = "opening" => loaded["sy"] < sliceCount[0] + fails

(* What it adds and compares are natural numbers.                          *)
LEMMA NameTypes ==
  ASSUME TypeOK
  PROVE  /\ fileNum["mn"] \in Nat /\ fileNum["sy"] \in Nat
         /\ loaded["mn"] \in Nat /\ loaded["sy"] \in Nat
         /\ sliceCount[0] \in Nat /\ fails \in Nat
         /\ chanSliceAlt \in Bit /\ chan0IndexAlt \in Bit /\ chan0Indexed \in Bit
<1>1. sliceCount[0] \in Nat
  BY RecorderAssumption DEF TypeOK, FlagsOK, Chans
<1>2. fails \in Nat
  BY RecorderAssumption DEF TypeOK, LocalsOK
<1> QED BY <1>1, <1>2 DEF TypeOK, NumbersOK, FlagsOK, Followers

(* A step that leaves flags, slices and a follower's place alone keeps it, *)
(* even if it resets the counters or an open() fails.                      *)
LEMMA NameKept ==
  ASSUME TypeOK, NameInv,
         \A w \in Followers : /\ pc'[w] = "opening" => pc[w] = "opening"
                              /\ loaded'[w] = loaded[w] /\ fileNum'[w] \in {fileNum[w], 0},
         UNCHANGED <<chanSliceAlt, chan0IndexAlt, chan0Indexed>>,
         sliceCount'[0] = sliceCount[0], fails' \in Nat, fails <= fails'
  PROVE  NameInv'
<1>1. /\ fileNum["mn"] \in Nat /\ fileNum["sy"] \in Nat
      /\ loaded["mn"] \in Nat /\ loaded["sy"] \in Nat
      /\ sliceCount[0] \in Nat /\ fails \in Nat /\ chanSliceAlt \in Nat /\ NameDue \in Nat
  BY NameTypes DEF NameDue, Bit
<1>2. NameDue' = NameDue
  BY DEF NameDue
<1> QED BY <1>1, <1>2 DEF NameInv, Followers

(* Each thread's steps keep it: a thread that takes a name clears its flag *)
(* with the open() that uses the name up.                                  *)
LEMMA NameStep == IInv /\ NameInv /\ [Next]_vars => NameInv'
<1> SUFFICES ASSUME IInv, NameInv, [Next]_vars PROVE NameInv'
  OBVIOUS
<1>t. /\ TypeOK /\ fileNum["mn"] \in Nat /\ fileNum["sy"] \in Nat
      /\ loaded["mn"] \in Nat /\ loaded["sy"] \in Nat
      /\ sliceCount[0] \in Nat /\ fails \in Nat
      /\ chanSliceAlt \in Bit /\ chan0IndexAlt \in Bit /\ chan0Indexed \in Bit
  BY NameTypes DEF IInv
<1> USE DEF TypeOK, LocalsOK, FlagsOK, NumbersOK, Bit, Chans, Workers, Followers,
            Threads, Goto, numbers, bounds
<1>1. CASE CtlArm0
  <2>1. chan0Indexed = 1 /\ chanStored[0] = 1
    BY <1>1 DEF CtlArm0, IInv, CtlInv, ArmReady
  <2>2. pc["mn"] # "opening" /\ pc["sy"] # "opening"
    BY <2>1 DEF IInv, MnInv, SyInv
  <2>3. /\ sliceCount'[0] = sliceCount[0] + 1 /\ chanSliceAlt' = 1
        /\ chan0Indexed' = 0 /\ chan0IndexAlt' = 1 /\ fileNum' = fileNum /\ fails' = fails
        /\ pc'["mn"] = pc["mn"] /\ pc'["sy"] = pc["sy"]
    BY <1>1, <1>t DEF CtlArm0
  <2>4. fileNum["mn"] <= sliceCount[0] /\ fileNum["sy"] <= sliceCount[0] + fails
    BY <1>t, <2>1 DEF NameInv, NameDue
  <2> QED BY <1>t, <2>2, <2>3, <2>4 DEF NameInv, NameDue
<1>2. CASE CtlSeesFlow \/ CtlArm1 \/ \E c \in Chans : CtlCut(c) \/ CtlCutDone(c)
  <2>1. fileNum' = fileNum /\ loaded' = loaded /\ fails' = fails
    BY <1>2 DEF CtlSeesFlow, CtlArm1, CtlCut, CtlCutDone
  <2> QED BY <1>2, <1>t, <2>1, OthersKeep, SlicesKept, NameKept
<1>3. CASE Ls
  <2>1. /\ loaded' = loaded /\ fails' \in Nat /\ fails <= fails'
        /\ \A w \in Followers : fileNum'[w] \in {fileNum[w], 0}
    <3>1. ASSUME NEW ok \in BOOLEAN, LsStart(ok) \/ LsCut(ok)
          PROVE  loaded' = loaded /\ fileNum' = fileNum /\ fails' \in {fails, fails + 1}
      BY <3>1 DEF LsStart, LsCut, Open
    <3>2. CASE LsStarted
      BY <1>t, <3>2 DEF LsStarted
    <3>3. CASE LsOffer \/ LsStop \/ LsCutDone \/ SeesStop("ls") \/ StopClose("ls")
      BY <1>t, <3>3 DEF LsOffer, LsStop, LsCutDone, SeesStop, StopClose
    <3> QED BY <1>3, <1>t, <3>1, <3>2, <3>3 DEF Ls
  <2> QED BY <1>3, <1>t, <2>1, OthersKeep, SlicesKept, NameKept
<1>4. CASE Server \/ Pl \/ UNCHANGED vars
  <2>1. fileNum' = fileNum /\ loaded' = loaded /\ fails' = fails
    BY <1>4 DEF Server, ServerSteps, OpStart, OpStop, OpFull, OpDisk, Order, OpStar, OpMark,
                OpEnable, OpEnMark, Pl, PlAsk, PlCut, PlDrop, vars
  <2> QED BY <1>4, <1>t, <2>1, OthersKeep, SlicesKept, NameKept
<1>5. CASE Mn
  <2>0. sliceCount'[0] = sliceCount[0]
    BY <1>5, <1>t, SlicesKept
  <2>1. CASE TakeName("mn")
    <3>1. /\ pc["mn"] = "naming" /\ loaded'["mn"] = fileNum["mn"] /\ loaded'["sy"] = loaded["sy"]
          /\ pc'["sy"] = pc["sy"] /\ fileNum' = fileNum /\ fails' = fails
          /\ UNCHANGED <<chanSliceAlt, chan0IndexAlt, chan0Indexed>>
      BY <2>1, <1>t DEF TakeName, flags, chan0
    <3>2. chanSliceAlt = 1
      BY <3>1 DEF IInv, MnInv
    <3> QED BY <1>t, <2>0, <3>1, <3>2 DEF NameInv, NameDue
  <2>2. ASSUME NEW ok \in BOOLEAN, MnOpen(ok) PROVE NameInv'
    <3>1. /\ pc["mn"] = "opening" /\ pc'["mn"] = "marking" /\ pc'["sy"] = pc["sy"]
          /\ fileNum'["mn"] = loaded["mn"] + 1 /\ fileNum'["sy"] = fileNum["sy"]
          /\ loaded'["sy"] = loaded["sy"] /\ fails' \in {fails, fails + 1}
          /\ chanSliceAlt' = 0 /\ UNCHANGED <<chan0IndexAlt, chan0Indexed>>
      BY <2>2, <1>t DEF MnOpen, Advance, Open
    <3> QED BY <1>t, <2>0, <3>1 DEF NameInv, NameDue
  <2>3. CASE \/ MnFirstFlow \/ MnFirstAck \/ SeesStop("mn") \/ MnStop \/ StopClose("mn")
             \/ MnSeesName \/ MnMark \/ MnCut
    <3>1. /\ fileNum' = fileNum /\ loaded' = loaded /\ fails' = fails
          /\ UNCHANGED <<chanSliceAlt, chan0IndexAlt, chan0Indexed>>
          /\ \A w \in Followers : pc'[w] = "opening" => pc[w] = "opening"
      BY <2>3, <1>t DEF MnFirstFlow, MnFirstAck, SeesStop, MnStop, StopClose, MnSeesName,
                        MnMark, MnCut, flags, chan0
    <3> QED BY <1>t, <2>0, <3>1, NameKept
  <2> QED BY <1>5, <2>1, <2>2, <2>3 DEF Mn
<1>6. CASE Sy
  <2>0. sliceCount'[0] = sliceCount[0]
    BY <1>6, <1>t, SlicesKept
  <2>1. CASE TakeName("sy")
    <3>1. /\ pc["sy"] = "naming" /\ loaded'["sy"] = fileNum["sy"] /\ loaded'["mn"] = loaded["mn"]
          /\ pc'["mn"] = pc["mn"] /\ fileNum' = fileNum /\ fails' = fails
          /\ UNCHANGED <<chanSliceAlt, chan0IndexAlt, chan0Indexed>>
      BY <2>1, <1>t DEF TakeName, flags, chan0
    <3>2. chan0IndexAlt = 1 /\ chan0Indexed = 0
      BY <3>1 DEF IInv, SyInv
    <3> QED BY <1>t, <2>0, <3>1, <3>2 DEF NameInv, NameDue
  <2>2. ASSUME NEW ok \in BOOLEAN, SyOpen(ok) PROVE NameInv'
    <3>1. /\ pc["sy"] = "opening" /\ pc'["sy"] = "loop" /\ pc'["mn"] = pc["mn"]
          /\ fileNum'["sy"] = loaded["sy"] + 1 /\ fileNum'["mn"] = fileNum["mn"]
          /\ loaded'["mn"] = loaded["mn"] /\ UNCHANGED <<chanSliceAlt, chan0Indexed>>
      BY <2>2, <1>t DEF SyOpen, Advance
    <3>2. IF ok THEN chan0IndexAlt' = 0 /\ fails' = fails
                ELSE chan0IndexAlt' = chan0IndexAlt /\ fails' = fails + 1
      BY <2>2 DEF SyOpen, Open
    <3>3. loaded["sy"] < sliceCount[0] + fails
      BY <3>1 DEF NameInv
    <3>4. fileNum'["sy"] + NameDue' <= sliceCount[0] + fails'
      BY <1>t, <3>1, <3>2, <3>3 DEF NameDue
    <3>5. fails' \in Nat /\ fails <= fails'
      BY <1>t, <3>2
    <3> QED BY <1>t, <2>0, <3>1, <3>4, <3>5 DEF NameInv
  <2>3. CASE SeesStop("sy") \/ StopClose("sy") \/ SySeesName
    <3>1. /\ fileNum' = fileNum /\ loaded' = loaded /\ fails' = fails
          /\ UNCHANGED <<chanSliceAlt, chan0IndexAlt, chan0Indexed>>
          /\ \A w \in Followers : pc'[w] = "opening" => pc[w] = "opening"
      BY <2>3, <1>t DEF SeesStop, StopClose, SySeesName, flags, chan0
    <3> QED BY <1>t, <2>0, <3>1, NameKept
  <2>4. CASE SyStop \/ SyCut
    <3>1. /\ fileNum' = fileNum /\ loaded' = loaded /\ fails' = fails
          /\ chan0Indexed' = 1 /\ chanSliceAlt' = chanSliceAlt
          /\ pc'["mn"] = pc["mn"] /\ pc'["sy"] # "opening"
      BY <2>4, <1>t DEF SyStop, SyCut, SyEnd
    <3> QED BY <1>t, <2>0, <3>1 DEF NameInv, NameDue
  <2> QED BY <1>6, <2>1, <2>2, <2>3, <2>4 DEF Sy
<1> QED BY <1>1, <1>2, <1>3, <1>4, <1>5, <1>6 DEF Next, Control

(* To begin with one slice is open and no name has been taken.             *)
LEMMA NameInit == Init => NameInv
BY DEF Init, BoardInit, ProgramInit, FirstPc, NameInv, NameDue, Chans, Workers,
       Followers, Threads

LEMMA NameWithin == TypeOK /\ NameInv => OneNameEachSlice
BY NameTypes DEF NameInv, NameDue, OneNameEachSlice, Bit

(* However offers are used twice, counters reset under a thread's hands    *)
(* and stops come between, no thread takes two names in one slice.         *)
THEOREM NamesWithinSlices == Spec => []OneNameEachSlice
<1>1. IInv => TypeOK
  BY DEF IInv
<1> QED BY <1>1, NameInit, NameStep, NameWithin, InvHolds, PTL DEF Spec

-----------------------------------------------------------------------------
(***************************************************************************)
(* Without stops no cut is ever left over.  CutInv follows one cut: the PL *)
(* requests it only of a slice it streams, the control loop passes it on   *)
(* only when the PL has dropped the request, and from then on nothing is   *)
(* granted until both threads, told by flags a parked thread never has     *)
(* set, have handed the slice back.                                        *)
(***************************************************************************)
NoCut  == chanSlice[0] = 0 /\ chan0Index = 0
Inside == NoCut /\ chanStored[0] = 0 /\ chan0Indexed = 0

CutInv ==
  /\ \A w \in Followers : stopWord[w] = 0 /\ pc[w] # "stopping"
  /\ chanStored[0] = 1 => chanSlice[0] = 0
  /\ chan0Indexed = 1 => chan0Index = 0
  /\ granted = 1 => Inside
  /\ cutReq[0] = 1 => granted = 1
  /\ pc["ctl"] = "ack0" => Inside /\ cutAck[0] = 1 /\ (cutReq[0] = 0 => granted = 0)
  /\ pc["mn"] \in {"wait", "flow"} => Inside /\ pc["ctl"] # "ack0" /\ granted = 0

(* No cut to begin with.                                                   *)
LEMMA CutInvInit == Init => CutInv
BY DEF Init, BoardInit, ProgramInit, FirstPc, CutInv, NoCut, Inside, Chans, Workers,
       Followers, Threads

(* Each thread keeps its part; of the commands, all but STOP.              *)
LEMMA CutStep ==
  ASSUME IInv, CutInv, ~OpStop, [Next]_vars
  PROVE  CutInv'
<1> USE DEF TypeOK, WordsOK, FlagsOK, LocalsOK, Bit, Chans, Workers, Followers, Threads, Goto,
            words, plVars, chan0, flags, NoCut, Inside
<1>t. TypeOK /\ CtlInv
  BY DEF IInv
<1>1. CASE Control
  <2>1. CASE CtlSeesFlow \/ CtlArm1
    BY <1>t, <2>1 DEF CtlSeesFlow, CtlArm1, CutInv
  <2>2. CASE CtlArm0
    <3>1. chanStored[0] = 1 /\ chan0Indexed = 1
      BY <1>t, <2>2 DEF CtlArm0, CtlInv, ArmReady
    <3>2. NoCut /\ pc["mn"] \notin {"wait", "flow"}
      BY <1>t, <3>1 DEF CutInv
    <3> QED BY <1>t, <2>2, <3>1, <3>2 DEF CtlArm0, CutInv
  <2>3. ASSUME NEW c \in Chans, CtlCut(c) PROVE CutInv'
    <3>1. CASE c = 0
      BY <1>t, <2>3, <3>1 DEF CtlCut, AckPc, CutInv
    <3>2. CASE c = 1
      BY <1>t, <2>3, <3>2 DEF CtlCut, AckPc, CutInv
    <3> QED BY <3>1, <3>2
  <2>4. ASSUME NEW c \in Chans, CtlCutDone(c) PROVE CutInv'
    <3>1. CASE c = 0
      BY <1>t, <2>4, <3>1 DEF CtlCutDone, AckPc, CutInv
    <3>2. CASE c = 1
      BY <1>t, <2>4, <3>2 DEF CtlCutDone, AckPc, CutInv
    <3> QED BY <3>1, <3>2
  <2> QED BY <1>1, <2>1, <2>2, <2>3, <2>4 DEF Control
<1>2. CASE Mn
  <2>1. CASE SeesStop("mn") \/ MnStop
    BY <1>t, <2>1 DEF SeesStop, MnStop, CutInv
  <2>2. CASE MnFirstFlow \/ StopClose("mn") \/ MnSeesName \/ TakeName("mn") \/ MnMark
    BY <1>t, <2>2 DEF MnFirstFlow, StopClose, MnSeesName, TakeName, MnMark, CutInv
  <2>3. CASE MnFirstAck
    BY <1>t, <2>3 DEF MnFirstAck, FlowAck, CutInv
  <2>4. ASSUME NEW ok \in BOOLEAN, MnOpen(ok) PROVE CutInv'
    BY <1>t, <2>4 DEF MnOpen, CutInv
  <2>5. CASE MnCut
    BY <1>t, <2>5 DEF MnCut, MnCutReady, Park, CutInv
  <2> QED BY <1>2, <2>1, <2>2, <2>3, <2>4, <2>5 DEF Mn
<1>3. CASE Sy
  <2>1. CASE SeesStop("sy") \/ SyStop
    BY <1>t, <2>1 DEF SeesStop, SyStop, CutInv
  <2>2. CASE StopClose("sy") \/ SySeesName \/ TakeName("sy")
    BY <1>t, <2>2 DEF StopClose, SySeesName, TakeName, CutInv
  <2>4. ASSUME NEW ok \in BOOLEAN, SyOpen(ok) PROVE CutInv'
    BY <1>t, <2>4 DEF SyOpen, CutInv
  <2>5. CASE SyCut
    BY <1>t, <2>5 DEF SyCut, SyEnd, CutInv
  <2> QED BY <1>3, <2>1, <2>2, <2>4, <2>5 DEF Sy
<1>4. CASE Ls
  <2>1. ASSUME NEW ok \in BOOLEAN, LsStart(ok) \/ LsCut(ok) PROVE CutInv'
    BY <1>t, <2>1 DEF LsStart, LsCut, CutInv
  <2>2. CASE LsStarted \/ LsOffer \/ SeesStop("ls") \/ StopClose("ls")
    BY <1>t, <2>2 DEF LsStarted, LsOffer, SeesStop, StopClose, CutInv
  <2>3. CASE LsStop \/ LsCutDone
    BY <1>t, <2>3 DEF LsStop, Taken, LsCutDone, CutInv
  <2> QED BY <1>4, <2>1, <2>2, <2>3 DEF Ls
<1>5. CASE Server
  <2>1. CASE OpStart
    BY <1>t, <2>1 DEF OpStart, Order, CutInv
  <2>3. CASE OpFull \/ OpDisk
    BY <1>t, <2>3 DEF OpFull, OpDisk, Order, CutInv
  <2>4. CASE ServerSteps
    BY <1>t, <2>4 DEF ServerSteps, OpStar, OpMark, OpEnable, OpEnMark, CutInv
  <2> QED BY <1>5, <2>1, <2>3, <2>4 DEF Server
<1>6. CASE Pl
  <2>1. CASE PlAsk
    BY <1>t, <2>1 DEF PlAsk, CutInv
  <2>2. ASSUME NEW c \in Chans, PlCut(c) PROVE CutInv'
    BY <1>t, <2>2 DEF PlCut, CutInv
  <2>3. ASSUME NEW c \in Chans, PlDrop(c) PROVE CutInv'
    BY <1>t, <2>3 DEF PlDrop, CutInv
  <2> QED BY <1>6, <2>1, <2>2, <2>3 DEF Pl
<1>7. CASE UNCHANGED vars
  BY <1>7 DEF vars, CutInv
<1> QED BY <1>1, <1>2, <1>3, <1>4, <1>5, <1>6, <1>7 DEF Next

(* Without stops a cut only ever ends the slice it was meant for, however  *)
(* many slices follow one another and whichever open() fails.              *)
THEOREM CutsStayAligned ==
  ASSUME "stop" \notin Commands
  PROVE  Spec => []CutsAligned
<1>1. IInv /\ CutInv /\ [Next]_vars => CutInv'
  BY CutStep DEF OpStop, Order
<1>2. CutInv => CutsAligned
  BY DEF CutInv, CutsAligned, Inside, NoCut
<1> QED BY <1>1, <1>2, CutInvInit, InvHolds, PTL DEF Spec
=============================================================================
