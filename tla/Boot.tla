------------------------------- MODULE Boot --------------------------------
(***************************************************************************)
(* The program ends and is started again, by main() of zh3t_demo.c and     *)
(* store_init(), while board and PL keep power: the words of BRAM, the     *)
(* pins and the PL are as the last run left them, everything else is lost. *)
(*                                                                         *)
(* All threads and the process of the connection end together.  The PL     *)
(* goes on meanwhile, so the steps of the start-up that it can tell apart  *)
(* are kept apart; no other thread of the program runs before the last.    *)
(***************************************************************************)
EXTENDS Recorder

CONSTANT MaxRestarts   (* bound on the restarts                            *)

ASSUME BootAssumption == MaxRestarts \in Nat

VARIABLES
  boot,       (* the next step of the start-up, or "up"                    *)
  heard,      (* commands carried out since the start                      *)
  early,      (* the PL asked for flow between the start-up's reset_pl()   *)
              (* and its enable_data_source(0)                             *)
  restarts    (* counter of the bound                                      *)

bootVars == <<boot, heard, early, restarts>>
allVars  == <<vars, bootVars>>

(* The state the first start leaves.                                       *)
BootInit == Init /\ boot = "up" /\ heard = {} /\ early = FALSE /\ restarts = 0

(* The program ends, in whatever state: the next one starts from scratch.  *)
Crash ==
  /\ restarts < MaxRestarts
  /\ restarts' = restarts + 1
  /\ boot' = "reset" /\ heard' = {} /\ early' = FALSE
  /\ chanSlice' = [c \in Chans |-> 0] /\ chanStored' = [c \in Chans |-> 0]
  /\ chanSliceAlt' = 1 /\ chan0Index' = 0 /\ chan0IndexAlt' = 1 /\ chan0Indexed' = 0
  /\ sliceCount' = [c \in Chans |-> 1]
  /\ fileNames' = [i \in 0 .. CycMark - 1 |-> 0]
  /\ lsNum' = 0 /\ fileNum' = [w \in Followers |-> 0]
  /\ loaded' = [w \in Followers |-> 0]
  /\ pc' = FirstPc /\ opCmd' = "stop"
  /\ fd' = [w \in Workers |-> "unset"]
  /\ UNCHANGED <<words, plVars, bounds>>

BootStep(from, to) ==
  /\ boot = from /\ boot' = to
  /\ UNCHANGED <<workState, flags, numbers, pc, opCmd, fd, bounds, heard, early,
                 restarts>>

(* store_init(): reset_pl(), and STAR_STORE and FILE_MARK.                 *)
BootReset ==
  /\ BootStep("reset", "source")
  /\ flowReq' = 0 /\ granted' = 0 /\ cutReq' = [c \in Chans |-> 0]
  /\ starStore' = 0 /\ fileMark' = 1
  /\ UNCHANGED <<stopWord, source, cutAck>>

(* Its last call, enable_data_source(0): FILE_MARK = 0 as well.            *)
BootSource ==
  /\ BootStep("source", "words")
  /\ source' = 0 /\ starStore' = 0 /\ fileMark' = 0
  /\ UNCHANGED <<stopWord, flowReq, granted, cutReq, cutAck>>

(* main(): word 22 is cleared twice, word 24 (SY_STOP_STORE) and the state *)
(* word not at all.  The threads start, and store_control() begins.        *)
FirstStopOnly == [stopWord EXCEPT !["ls"] = 0]                     \* mutant
StopsCleared  == [stopWord EXCEPT !["ls"] = 0, !["mn"] = 0]

MarkAsLeft == fileMark                                             \* mutant
MarkSet    == 1

BootWords ==
  /\ BootStep("words", "up")
  /\ starStore' = 0 /\ fileMark' = MarkSet
  /\ stopWord' = StopsCleared
  /\ cutAck' = [c \in Chans |-> 0]
  /\ UNCHANGED <<source, flowReq, granted, cutReq>>

StartUp == BootReset \/ BootSource \/ BootWords

(* An action of the running program, and of the PL, which always runs.     *)
Running(A) ==
  /\ boot = "up" /\ A
  /\ heard' = IF orders' # orders THEN heard \union {opCmd'} ELSE heard
  /\ UNCHANGED <<boot, early, restarts>>

Always(A) ==
  /\ A
  /\ early' = (early \/ (boot = "source" /\ flowReq' > flowReq))
  /\ UNCHANGED <<boot, heard, restarts>>

BootNext == Crash \/ StartUp \/ Running(Next) \/ Always(Pl)

BootSpec == BootInit /\ [][BootNext]_allVars

(* Fairness as in Recorder, while the program runs, and the start-up goes  *)
(* on.  Nothing has to crash.                                              *)
FairBootSpec ==
  /\ BootSpec
  /\ WF_allVars(StartUp)
  /\ SF_allVars(Running(CtlSeesFlow))
  /\ WF_allVars(Running(Control)) /\ WF_allVars(Running(Mn))
  /\ WF_allVars(Running(Ls)) /\ WF_allVars(Running(Sy))
  /\ WF_allVars(Running(ServerSteps))
  /\ \A c \in Chans : WF_allVars(Always(PlDrop(c)))

-----------------------------------------------------------------------------
(* Every variable keeps its type, also across restarts.                    *)
BootTypeOK ==
  /\ TypeOK
  /\ boot \in {"reset", "source", "words", "up"}
  /\ heard \subseteq Commands /\ early \in BOOLEAN
  /\ restarts \in 0 .. MaxRestarts

(* A restart does not begin with a stop of the run before: as long as no   *)
(* STOP has come since the start, chan0 and chan1 are not in their stop    *)
(* branches, which would leave chan0 out of the first slice.               *)
NoOldStop ==
  "stop" \notin heard =>
    \A w \in {"mn", "ls"} : pc[w] \notin {"stopping", "closing"}

(* A restart does not begin to record by itself: before chan1 has begun a  *)
(* recording, and before any command, no thread opens a file, although the *)
(* start-up's own enable_data_source(0) leaves a name on offer.            *)
SilentStart ==
  heard = {} /\ lsNum = 0 =>
    \A w \in Workers : fd[w] # "open" /\ pc[w] \notin {"naming", "opening"}

(* The slice cycle of chan0 goes on as SliceCycle says while the program   *)
(* runs, whatever words and pins the run before has left behind, and a     *)
(* restart begins it anew: no slice is taken up half-way.                  *)
CycleAcrossRestarts ==
  /\ Cycle!Init
  /\ [][IF restarts' = restarts THEN Cycle!Next ELSE Cycle!Init']_<<Phase, sliceCount[0]>>

(* Chan0 keeps flowing across restarts, unless a request comes early: then *)
(* chan0 takes it before START, whose reset_pl() drops what was granted.   *)
FlowAnsweredAfterBoot ==
  (flowReq = 1 /\ sliceCount[0] < MaxFileCount /\ ~early) ~> (flowReq = 0)

(* zh3t_demo.c:54, "STOP_STORE = 0": main() starts the receive threads     *)
(* with no stop pending.                                                   *)
StopsClearedAtStart ==
  boot = "up" /\ heard = {} => \A w \in Workers : stopWord[w] = 0
=============================================================================
