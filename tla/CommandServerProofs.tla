------------------------ MODULE CommandServerProofs ------------------------
(***************************************************************************)
(* Proofs about CommandServer, for any number of clients and commands.     *)
(* The first part holds with any clients at once: a process answers no     *)
(* more often than it was asked, and the warnings it gives are about its   *)
(* own threshold.                                                          *)
(*                                                                         *)
(* Neither invariant is inductive.  AnswerInv adds where in its loop a     *)
(* process holds a command in its buffer, and that this command, or one    *)
(* still unread, has not been answered yet; WarnInv adds that warn[c] fits *)
(* threshold[c] from the check to the end of the command.                  *)
(*                                                                         *)
(* The second part is about clients that come one after the other          *)
(* (OneAtATime): AloneInv follows the state word, the source, the LED and  *)
(* the warning pin through the one process that is served.                 *)
(***************************************************************************)
EXTENDS CommandServer, TLAPS

USE ServerAssumption DEF AllKinds

(* The check of the disk keeps the types.                                  *)
LEMMA CheckType ==
  ASSUME TypeOK, NEW c \in Conns, Check(c)
  PROVE  TypeOK'
<1> USE DEF TypeOK, DeviceOK, DiskOK, ProcessOK, ThresholdOK, SocketOK, device, disk,
            locals, socket, peers
<1> USE DEF RestPcs, DevicePcs, Ended, Goto
<1>1. CASE Unmounted(c)
  BY <1>1 DEF Unmounted
<1>2. CASE Statfs(c)
  <2>1. Left(used) \in Space /\ \A l \in 0 .. Quota + 1 : Low(Left(used), l) \in Bit
    BY DEF Left, Low, Space, Bit
  <2> QED BY <1>2, <2>1 DEF Statfs
<1>3. CASE Warn(c)
  BY <1>3 DEF Warn, WarnLevel, Bit
<1>4. CASE CheckState(c)
  BY <1>4 DEF CheckState, AfterCheck
<1>5. CASE CutLed(c)
  BY <1>5 DEF CutLed, Bit
<1>6. CASE CutSource(c)
  BY <1>6 DEF CutSource, Bit
<1>7. CASE Mark(c)
  BY <1>7 DEF Mark
<1> QED BY <1>1, <1>2, <1>3, <1>4, <1>5, <1>6, <1>7 DEF Check

(* A reply keeps the type of everything but what its command sets: the     *)
(* device and the threshold.                                               *)
LEMMA ReplyType ==
  ASSUME TypeOK, NEW c \in Conns, NEW from, NEW body \in Answers, Reply(c, from, body)
  PROVE  DiskOK' /\ ProcessOK' /\ SocketOK'
<1> USE DEF TypeOK, Reply, disk, peers
<1>1. DiskOK'
  BY DEF DiskOK
<1>2. ProcessOK'
  BY DEF ProcessOK, Goto, Overwritten, RestPcs, Ended
<1>3. SocketOK'
  BY DEF SocketOK
<1> QED BY <1>1, <1>2, <1>3

(* The body of a reply without content.                                    *)
LEMMA DoneType ==
  ASSUME NEW cmd \in AllKinds
  PROVE  Done(cmd) \in Answers /\ Done(cmd).to = cmd
  BY DEF Done, NoAnswer, Answers, Space, Bit

(* The body of a status reply.                                             *)
LEMMA StatusType ==
  ASSUME TypeOK, NEW c \in Conns
  PROVE  [to |-> "status", state |-> workState, avail |-> avail[c], warn |-> warn[c]] \in Answers
  BY DEF TypeOK, DeviceOK, ProcessOK, Answers

(* The commands that answer at once keep the types.                        *)
LEMMA AnswerType ==
  ASSUME TypeOK, NEW c \in Conns,
         \/ Status(c) \/ Query(c) \/ StartRefused(c) \/ StartSource(c) \/ StopSource(c)
         \/ \E v \in Bit : Source(c, v)
         \/ \E v \in 0 .. Quota + 1 : Threshold(c, v)
  PROVE  TypeOK'
<1> USE DEF device
<1>1. CASE Status(c)
  <2>1. DiskOK' /\ ProcessOK' /\ SocketOK'
    BY <1>1, ReplyType, StatusType DEF Status
  <2> QED BY <1>1, <2>1 DEF Status, TypeOK, DeviceOK, ThresholdOK
<1>2. CASE Query(c)
  <2>1. DiskOK' /\ ProcessOK' /\ SocketOK'
    BY <1>2, ReplyType, DoneType DEF Query
  <2> QED BY <1>2, <2>1 DEF Query, TypeOK, DeviceOK, ThresholdOK
<1>3. CASE StartRefused(c)
  <2>1. DiskOK' /\ ProcessOK' /\ SocketOK'
    BY <1>3, ReplyType, DoneType DEF StartRefused
  <2> QED BY <1>3, <2>1 DEF StartRefused, TypeOK, DeviceOK, ThresholdOK
<1>4. CASE StartSource(c)
  <2>1. DiskOK' /\ ProcessOK' /\ SocketOK'
    BY <1>4, ReplyType, DoneType DEF StartSource
  <2> QED BY <1>4, <2>1 DEF StartSource, TypeOK, DeviceOK, ThresholdOK, Bit
<1>5. CASE StopSource(c)
  <2>1. DiskOK' /\ ProcessOK' /\ SocketOK'
    BY <1>5, ReplyType, DoneType DEF StopSource
  <2> QED BY <1>5, <2>1 DEF StopSource, TypeOK, DeviceOK, ThresholdOK, Bit
<1>6. ASSUME NEW v \in Bit, Source(c, v) PROVE TypeOK'
  <2>1. DiskOK' /\ ProcessOK' /\ SocketOK'
    BY <1>6, ReplyType, DoneType DEF Source
  <2> QED BY <1>6, <2>1 DEF Source, TypeOK, DeviceOK, ThresholdOK
<1>7. ASSUME NEW v \in 0 .. Quota + 1, Threshold(c, v) PROVE TypeOK'
  <2>1. DiskOK' /\ ProcessOK' /\ SocketOK'
    BY <1>7, ReplyType, DoneType DEF Threshold
  <2> QED BY <1>7, <2>1 DEF Threshold, SetOwn, TypeOK, DeviceOK, ThresholdOK
<1> QED BY <1>1, <1>2, <1>3, <1>4, <1>5, <1>6, <1>7

(* Reading, and the commands that take several steps, keep the types.      *)
LEMMA ReadType ==
  ASSUME TypeOK, NEW c \in Conns,
         \/ Read(c) \/ Default(c) \/ QueryExits(c) \/ StartTest(c) \/ StartMark(c)
         \/ StartReset(c) \/ StopMark(c) \/ StopLed(c)
  PROVE  TypeOK'
<1> USE DEF TypeOK, DeviceOK, DiskOK, ProcessOK, ThresholdOK, SocketOK, device, disk,
            locals, socket, peers
<1> USE DEF RestPcs, DevicePcs, Ended, Goto
<1>1. CASE ReadCommand(c)
  BY <1>1 DEF ReadCommand
<1>2. CASE ReadEnd(c)
  BY <1>2 DEF ReadEnd
<1>3. CASE ReadError(c)
  BY <1>3 DEF ReadError
<1>4. CASE Default(c)
  BY <1>4 DEF Default
<1>5. CASE QueryExits(c)
  BY <1>5 DEF QueryExits
<1>6. CASE StartTest(c)
  BY <1>6 DEF StartTest
<1>7. CASE StartMark(c)
  BY <1>7 DEF StartMark
<1>8. CASE StartReset(c)
  BY <1>8 DEF StartReset, Bit
<1>9. CASE StopMark(c)
  BY <1>9 DEF StopMark
<1>10. CASE StopLed(c)
  BY <1>10 DEF StopLed, LedOff, Bit
<1> QED
  BY <1>1, <1>2, <1>3, <1>4, <1>5, <1>6, <1>7, <1>8, <1>9, <1>10 DEF Read

(* The accept loop, the clients and the disk keep the types.               *)
LEMMA OutsideType ==
  ASSUME TypeOK,
         \/ \E c \in Conns : Spin(c) \/ \E ok \in BOOLEAN : Accept(c, ok)
         \/ Clients \/ DiskChanges
  PROVE  TypeOK'
<1> USE DEF TypeOK, DeviceOK, DiskOK, ProcessOK, ThresholdOK, SocketOK, device, disk,
            locals, socket, peers
<1> USE DEF RestPcs, DevicePcs, Ended, Goto
<1>1. ASSUME NEW c \in Conns, Spin(c) PROVE TypeOK'
  BY <1>1 DEF Spin, vars
<1>2. ASSUME NEW c \in Conns, NEW ok \in BOOLEAN, Accept(c, ok) PROVE TypeOK'
  BY <1>2 DEF Accept
<1>3. ASSUME NEW c \in Conns, Connect(c) PROVE TypeOK'
  BY <1>3 DEF Connect
<1>4. ASSUME NEW c \in Conns, Hangup(c) PROVE TypeOK'
  BY <1>4 DEF Hangup
<1>5. ASSUME NEW c \in Conns, NEW k \in Kinds, Send(c, k) PROVE TypeOK'
  BY <1>5 DEF Send
<1>6. CASE DiskChanges
  BY <1>6 DEF DiskChanges
<1> QED BY <1>1, <1>2, <1>3, <1>4, <1>5, <1>6 DEF Clients

(* Every variable of the command server keeps its type, and the space left *)
(* stays within the quota, for any number of clients.                      *)
THEOREM TypeCorrect == Spec => []TypeOK
<1>1. Init => TypeOK
  <2> SUFFICES ASSUME Init PROVE TypeOK
    OBVIOUS
  <2>1. pc \in [Conns -> RestPcs]
    <3>1. PICK listening \in BOOLEAN :
            pc = [c \in Conns |-> IF listening THEN "idle" ELSE "refused"]
      BY DEF Init
    <3>2. {"idle", "refused"} \subseteq RestPcs
      BY DEF RestPcs, Ended
    <3> QED BY <3>1, <3>2
  <2>2. DeviceOK /\ DiskOK /\ ThresholdOK /\ SocketOK
    BY ServerAssumption
       DEF Init, DeviceOK, DiskOK, ThresholdOK, SocketOK, Bit, Space, NoAnswer, Answers
  <2>3. ProcessOK
    BY <2>1, ServerAssumption DEF Init, ProcessOK, Bit, Space
  <2> QED BY <2>2, <2>3 DEF TypeOK
<1>2. TypeOK /\ [Next]_vars => TypeOK'
  <2> SUFFICES ASSUME TypeOK, [Next]_vars PROVE TypeOK'
    OBVIOUS
  <2>1. CASE UNCHANGED vars
    BY <2>1 DEF vars, device, disk, locals, socket, peers, TypeOK, DeviceOK, DiskOK, ProcessOK,
                ThresholdOK, SocketOK
  <2>2. ASSUME NEW c \in Conns, Process(c) PROVE TypeOK'
    BY <2>2, CheckType, AnswerType, ReadType DEF Process, Command
  <2> QED BY <2>1, <2>2, OutsideType DEF Next
<1> QED BY <1>1, <1>2, PTL DEF Spec

-----------------------------------------------------------------------------
(* A process that holds a command in its buffer is carrying it out or was  *)
(* killed doing so; that command, or one still unread, is unanswered.      *)
Carrying == {"run", "startMark", "startReset", "startSource", "stopLed", "stopSource"}

AnswerInv ==
  \A c \in Conns :
    /\ buf[c] \in Kinds => /\ pc[c] \in Carrying \union {"killed"}
                           /\ inbox[c] = "none" /\ answers[c] < sent[c]
    /\ inbox[c] # "none" => answers[c] < sent[c]
    /\ answers[c] <= sent[c]
    /\ pc[c] \in Carrying \ {"run"} => buf[c] \in Kinds

(* The warning kept with the space left is right from the check to the end *)
(* of the command, and so is the one last sent.                            *)
Checked == {"warn", "check", "cutLed", "cutSource", "markFull", "markReady", "read"}
             \union Carrying

WarnInv ==
  \A c \in Conns :
    /\ pc[c] \in Checked => warn[c] = Low(avail[c], threshold[c])
    /\ answer[c].to = "status" => answer[c].warn = Low(answer[c].avail, threshold[c])

(* Steps that neither read a command nor answer one.                       *)
LEMMA AnswerQuiet ==
  ASSUME TypeOK, AnswerInv, NEW c \in Conns,
         \/ Check(c) \/ ReadEnd(c) \/ ReadError(c) \/ Default(c) \/ QueryExits(c)
         \/ StartTest(c) \/ StartMark(c) \/ StartReset(c) \/ StopMark(c) \/ StopLed(c)
  PROVE  AnswerInv'
<1>1. pc \in [Conns -> DevicePcs \union RestPcs]
  BY DEF TypeOK, ProcessOK
<1> USE <1>1 DEF AnswerInv, Carrying, Goto, locals, socket, peers
<1>2. CASE Unmounted(c)
  BY <1>2 DEF Unmounted
<1>3. CASE Statfs(c)
  BY <1>3 DEF Statfs
<1>4. CASE Warn(c)
  BY <1>4 DEF Warn
<1>5. CASE CheckState(c)
  BY <1>5 DEF CheckState, AfterCheck
<1>6. CASE CutLed(c)
  BY <1>6 DEF CutLed
<1>7. CASE CutSource(c)
  BY <1>7 DEF CutSource
<1>8. CASE Mark(c)
  BY <1>8 DEF Mark
<1>9. CASE ReadEnd(c)
  BY <1>9 DEF ReadEnd
<1>10. CASE ReadError(c)
  BY <1>10 DEF ReadError, TypeOK, SocketOK
<1>11. CASE Default(c)
  BY <1>11 DEF Default
<1>12. CASE QueryExits(c)
  BY <1>12 DEF QueryExits
<1>13. CASE StartTest(c)
  BY <1>13 DEF StartTest, TypeOK, ProcessOK
<1>14. CASE StartMark(c)
  BY <1>14 DEF StartMark
<1>15. CASE StartReset(c)
  BY <1>15 DEF StartReset
<1>16. CASE StopMark(c)
  BY <1>16 DEF StopMark, TypeOK, ProcessOK
<1>17. CASE StopLed(c)
  BY <1>17 DEF StopLed
<1> HIDE DEF AnswerInv, Carrying, Goto, locals, socket, peers
<1> QED
  BY <1>2, <1>3, <1>4, <1>5, <1>6, <1>7, <1>8, <1>9, <1>10, <1>11, <1>12, <1>13, <1>14,
     <1>15, <1>16, <1>17 DEF Check

(* A reply: the command was in the buffer, and is answered now.            *)
LEMMA AnswerReply ==
  ASSUME TypeOK, AnswerInv, NEW c \in Conns, NEW from, NEW body, Reply(c, from, body),
         from = "run" => buf[c] \in Kinds,
         from \in Carrying
  PROVE  AnswerInv'
<1>1. buf[c] \in Kinds /\ answers[c] < sent[c] /\ inbox[c] = "none"
  BY DEF AnswerInv, Reply, Goto
<1>2. answers'[c] = answers[c] + 1 /\ answers'[c] <= sent[c]
  BY <1>1 DEF TypeOK, SocketOK, Reply
<1>3. ASSUME NEW d \in Conns, d # c
      PROVE  pc'[d] = pc[d] /\ buf'[d] = buf[d] /\ answers'[d] = answers[d]
  BY <1>3 DEF TypeOK, ProcessOK, SocketOK, Reply, Goto, Overwritten
<1>4. buf'[c] = "reply" /\ pc'[c] \in {"statfs", "killed"} /\ inbox' = inbox /\ sent' = sent
  BY DEF TypeOK, ProcessOK, Reply, Goto, Overwritten, peers
<1> QED BY <1>1, <1>2, <1>3, <1>4 DEF AnswerInv, Carrying

(* Everything else keeps AnswerInv, too.                                   *)
LEMMA AnswerStep ==
  ASSUME TypeOK, AnswerInv, [Next]_vars
  PROVE  AnswerInv'
<1>1. CASE UNCHANGED vars
  BY <1>1 DEF AnswerInv, vars, locals, socket, peers
<1>2. ASSUME NEW c \in Conns, Process(c) PROVE AnswerInv'
  <2>1. CASE ReadCommand(c)
    BY <2>1 DEF ReadCommand, Goto, AnswerInv, Carrying, TypeOK, ProcessOK, SocketOK, peers
  <2>2. CASE \/ Status(c) \/ Query(c) \/ StartRefused(c) \/ StartSource(c) \/ StopSource(c)
             \/ (\E v \in Bit : Source(c, v)) \/ (\E v \in 0 .. Quota + 1 : Threshold(c, v))
    <3>1. buf[c] \in Kinds \union {"none", "reply"}
      BY DEF TypeOK, ProcessOK
    <3> QED
      BY <2>2, <3>1, AnswerReply
      DEF Status, Query, StartRefused, StartSource, StopSource, Source, Threshold, Carrying
  <2> QED BY <1>2, <2>1, <2>2, AnswerQuiet DEF Process, Read, Command
<1>3. ASSUME NEW c \in Conns, Spin(c) \/ (\E ok \in BOOLEAN : Accept(c, ok)) PROVE AnswerInv'
  BY <1>3 DEF Spin, Accept, Goto, AnswerInv, Carrying, TypeOK, ProcessOK, vars, locals, socket, peers
<1>4. ASSUME NEW c \in Conns, Connect(c) PROVE AnswerInv'
  BY <1>4 DEF Connect, Goto, AnswerInv, Carrying, TypeOK, ProcessOK, locals
<1>5. ASSUME NEW c \in Conns, Hangup(c) PROVE AnswerInv'
  BY <1>5 DEF Hangup, AnswerInv, locals
<1>6. ASSUME NEW c \in Conns, NEW k \in Kinds, Send(c, k) PROVE AnswerInv'
  BY <1>6 DEF Send, AnswerInv, locals, TypeOK, SocketOK
<1>7. CASE DiskChanges
  BY <1>7 DEF DiskChanges, AnswerInv, locals, socket, peers
<1> QED BY <1>1, <1>2, <1>3, <1>4, <1>5, <1>6, <1>7 DEF Next, Clients

(* No process answers more often than it was asked: what a failed read()   *)
(* leaves in the buffer is never carried out again.                        *)
THEOREM NoCommandTwice == Spec => []AnsweredOnce
<1>1. Init => AnswerInv
  <2> SUFFICES ASSUME Init, NEW c \in Conns
               PROVE  /\ buf[c] \notin Kinds /\ inbox[c] = "none"
                      /\ answers[c] <= sent[c] /\ pc[c] \notin Carrying
    BY DEF AnswerInv
  <2>1. buf[c] = "none" /\ inbox[c] = "none" /\ pc[c] \in {"idle", "refused"}
    BY DEF Init
  <2>2. answers[c] = 0 /\ sent[c] = 0
    BY DEF Init
  <2> QED BY <2>1, <2>2 DEF Carrying
<1>2. TypeOK /\ AnswerInv /\ [Next]_vars => AnswerInv'
  BY AnswerStep
<1>3. AnswerInv => AnsweredOnce
  BY DEF AnswerInv, AnsweredOnce
<1> QED BY <1>1, <1>2, <1>3, TypeCorrect, PTL DEF Spec

-----------------------------------------------------------------------------
(* The check of the disk sets the warning, and moves on within Checked.    *)
LEMMA WarnCheck ==
  ASSUME TypeOK, WarnInv, NEW c \in Conns, Check(c)
  PROVE  WarnInv'
<1>1. /\ pc \in [Conns -> DevicePcs \union RestPcs]
      /\ avail \in [Conns -> Space] /\ warn \in [Conns -> Bit]
  BY DEF TypeOK, ProcessOK
<1> USE <1>1 DEF WarnInv, Checked, Carrying, Goto, locals, socket, peers
<1>2. CASE Unmounted(c)
  BY <1>2 DEF Unmounted
<1>3. CASE Statfs(c)
  BY <1>3 DEF Statfs
<1>4. CASE Warn(c)
  BY <1>4 DEF Warn
<1>5. CASE CheckState(c)
  BY <1>5 DEF CheckState, AfterCheck
<1>6. CASE CutLed(c)
  BY <1>6 DEF CutLed
<1>7. CASE CutSource(c)
  BY <1>7 DEF CutSource
<1>8. CASE Mark(c)
  BY <1>8 DEF Mark
<1> HIDE DEF WarnInv, Checked, Carrying, Goto, locals, socket, peers
<1> QED BY <1>2, <1>3, <1>4, <1>5, <1>6, <1>7, <1>8 DEF Check

(* So do reading, and the commands that take several steps.                *)
LEMMA WarnRead ==
  ASSUME TypeOK, WarnInv, NEW c \in Conns,
         \/ Read(c) \/ Default(c) \/ QueryExits(c) \/ StartTest(c) \/ StartMark(c)
         \/ StartReset(c) \/ StopMark(c) \/ StopLed(c)
  PROVE  WarnInv'
<1>1. pc \in [Conns -> DevicePcs \union RestPcs]
  BY DEF TypeOK, ProcessOK
<1> USE <1>1 DEF WarnInv, Checked, Carrying, Goto, locals, socket, peers
<1>2. CASE ReadCommand(c)
  BY <1>2 DEF ReadCommand
<1>3. CASE ReadEnd(c)
  BY <1>3 DEF ReadEnd
<1>4. CASE ReadError(c)
  BY <1>4 DEF ReadError
<1>5. CASE Default(c)
  BY <1>5 DEF Default
<1>6. CASE QueryExits(c)
  BY <1>6 DEF QueryExits
<1>7. CASE StartTest(c)
  BY <1>7 DEF StartTest
<1>8. CASE StartMark(c)
  BY <1>8 DEF StartMark
<1>9. CASE StartReset(c)
  BY <1>9 DEF StartReset
<1>10. CASE StopMark(c)
  BY <1>10 DEF StopMark
<1>11. CASE StopLed(c)
  BY <1>11 DEF StopLed
<1> HIDE DEF WarnInv, Checked, Carrying, Goto, locals, socket, peers
<1> QED
  BY <1>2, <1>3, <1>4, <1>5, <1>6, <1>7, <1>8, <1>9, <1>10, <1>11 DEF Read

(* A reply is either no status reply, or is right about the threshold; it  *)
(* ends the command, and only the threshold of its own process may change. *)
LEMMA WarnReply ==
  ASSUME TypeOK, WarnInv, NEW c \in Conns, NEW from, NEW body \in Answers,
         Reply(c, from, body),
         \A d \in Conns \ {c} : threshold'[d] = threshold[d],
         body.to = "status" => body.warn = Low(body.avail, threshold'[c])
  PROVE  WarnInv'
<1>1. pc'[c] \in {"statfs", "killed"} /\ answer'[c] = body
  BY DEF TypeOK, ProcessOK, SocketOK, Reply, Goto
<1>2. ASSUME NEW d \in Conns, d # c
      PROVE  pc'[d] = pc[d] /\ answer'[d] = answer[d] /\ threshold'[d] = threshold[d]
  BY <1>2 DEF TypeOK, ProcessOK, SocketOK, Reply, Goto
<1>3. avail' = avail /\ warn' = warn
  BY DEF Reply
<1> QED BY <1>1, <1>2, <1>3 DEF WarnInv, Checked, Carrying

(* The commands that answer at once keep WarnInv.                          *)
LEMMA WarnAnswer ==
  ASSUME TypeOK, WarnInv, NEW c \in Conns,
         \/ Status(c) \/ Query(c) \/ StartRefused(c) \/ StartSource(c) \/ StopSource(c)
         \/ \E v \in Bit : Source(c, v)
         \/ \E v \in 0 .. Quota + 1 : Threshold(c, v)
  PROVE  WarnInv'
<1>1. CASE Status(c)
  <2> DEFINE body == [to |-> "status", state |-> workState, avail |-> avail[c], warn |-> warn[c]]
  <2>1. pc[c] = "run" /\ threshold' = threshold /\ Reply(c, "run", body)
    BY <1>1 DEF Status, Reply, Goto
  <2>2. body \in Answers
    BY StatusType
  <2>3. body.warn = Low(body.avail, threshold'[c])
    BY <2>1 DEF WarnInv, Checked, Carrying
  <2> HIDE DEF body
  <2> QED BY <2>1, <2>2, <2>3, WarnReply
<1>2. CASE Query(c)
  BY <1>2, DoneType, WarnReply DEF Query
<1>3. CASE StartRefused(c)
  BY <1>3, DoneType, WarnReply DEF StartRefused
<1>4. CASE StartSource(c)
  BY <1>4, DoneType, WarnReply DEF StartSource
<1>5. CASE StopSource(c)
  BY <1>5, DoneType, WarnReply DEF StopSource
<1>6. ASSUME NEW v \in Bit, Source(c, v) PROVE WarnInv'
  BY <1>6, DoneType, WarnReply DEF Source
<1>7. ASSUME NEW v \in 0 .. Quota + 1, Threshold(c, v) PROVE WarnInv'
  <2>1. \A d \in Conns \ {c} : threshold'[d] = threshold[d]
    BY <1>7 DEF Threshold, SetOwn, TypeOK, ThresholdOK
  <2> QED BY <1>7, <2>1, DoneType, WarnReply DEF Threshold
<1> QED BY <1>1, <1>2, <1>3, <1>4, <1>5, <1>6, <1>7

(* The warning a client gets fits its own threshold and the space in the   *)
(* same reply, however many other clients set thresholds of their own.     *)
THEOREM WarningsHonest == Spec => []WarnHonest
<1>1. Init => WarnInv
  <2> SUFFICES ASSUME Init, NEW c \in Conns
               PROVE  pc[c] \notin Checked /\ answer[c].to # "status"
    BY DEF WarnInv
  <2>1. pc[c] \in {"idle", "refused"} /\ answer[c] = NoAnswer
    BY DEF Init
  <2> QED BY <2>1 DEF Checked, Carrying, NoAnswer
<1>2. TypeOK /\ WarnInv /\ [Next]_vars => WarnInv'
  <2> SUFFICES ASSUME TypeOK, WarnInv, [Next]_vars PROVE WarnInv'
    OBVIOUS
  <2>1. CASE UNCHANGED vars
    BY <2>1 DEF WarnInv, vars, locals, socket
  <2>2. ASSUME NEW c \in Conns, Process(c) PROVE WarnInv'
    BY <2>2, WarnCheck, WarnRead, WarnAnswer DEF Process, Command
  <2>3. ASSUME NEW c \in Conns, Spin(c) \/ (\E ok \in BOOLEAN : Accept(c, ok)) \/ Connect(c)
        PROVE  WarnInv'
    BY <2>3 DEF Spin, Accept, Connect, Goto, WarnInv, Checked, Carrying, TypeOK, ProcessOK,
                vars, locals, socket
  <2>4. CASE DiskChanges \/ \E c \in Conns : Hangup(c) \/ \E k \in Kinds : Send(c, k)
    BY <2>4 DEF DiskChanges, Hangup, Send, WarnInv, locals, socket
  <2> QED BY <2>1, <2>2, <2>3, <2>4 DEF Next, Clients
<1>3. WarnInv => WarnHonest
  BY DEF WarnInv, WarnHonest
<1> QED BY <1>1, <1>2, <1>3, TypeCorrect, PTL DEF Spec

-----------------------------------------------------------------------------
(***************************************************************************)
(* Proofs about CommandServer with one client after the other: for any     *)
(* number of clients, commands, sizes of the disk and thresholds, the      *)
(* state word, the data source, the LED, the warning pin and the replies   *)
(* agree.                                                                  *)
(*                                                                         *)
(* The inductive invariant has two parts.  Alone: at most one process is   *)
(* served.  Placed: what the device shows while that process is at each of *)
(* its places; between commands (RestPcs) all of it agrees.  A step of the *)
(* one process has then to be looked at from its own place only.           *)
(***************************************************************************)

Resting == Ended \union {"idle"}

Alone == \A c, d \in Conns : c # d => pc[c] \in Resting \/ pc[d] \in Resting

Agree == (workState = "record" <=> source = 1) /\ (recordLed = 0 <=> source = 1)

Settled == (\A c \in Conns : pc[c] \in RestPcs) => Agree

(* During the check: a full disk ends the recording in this order.         *)
Ending(c) ==
  /\ pc[c] = "cutLed" => workState = "record" /\ source = 1
  /\ pc[c] = "cutSource" => workState = "record" /\ recordLed = 1
  /\ pc[c] = "markFull" => source = 0 /\ recordLed = 1
  /\ pc[c] \in {"cutLed", "cutSource", "markFull"} => avail[c] = 0
  /\ pc[c] = "markReady" => workState # "record" /\ avail[c] # 0

(* While a command is awaited or begins: the word follows the check.       *)
Found(c) ==
  pc[c] \in {"read", "run"} => (workState = "diskfull" <=> avail[c] = 0)

(* During START and STOP.                                                  *)
Switching(c) ==
  /\ pc[c] = "startMark" => source = 0 /\ recordLed = 1
  /\ pc[c] = "startReset" => workState = "record" /\ source = 0
  /\ pc[c] = "startSource" => workState = "record" /\ recordLed = 0
  /\ pc[c] \in {"stopLed", "stopSource"} => workState = "ready"
  /\ pc[c] = "stopSource" => recordLed = 1

(* The warning pin, from its setting until the command begins.             *)
Shown(c) ==
  pc[c] \in {"check", "cutLed", "cutSource", "markFull", "markReady", "read", "run"}
    => warnPin = 1 - warn[c]

Replied(c) ==
  answer[c].to = "status" => (answer[c].state = "diskfull" <=> answer[c].avail = 0)

Placed(c) == Ending(c) /\ Found(c) /\ Switching(c) /\ Shown(c) /\ Replied(c)

AloneInv == TypeOK /\ Alone /\ Settled /\ \A c \in Conns : Placed(c)

(* It holds to begin with.                                                 *)
LEMMA AloneInit == Init /\ TypeOK => AloneInv
<1> SUFFICES ASSUME Init, TypeOK PROVE AloneInv
  OBVIOUS
<1>1. workState = "empty" /\ source = 0 /\ recordLed = 1
  BY DEF Init
<1>2. \A c \in Conns : pc[c] \in {"idle", "refused"} /\ answer[c].to = "none"
  BY DEF Init, NoAnswer
<1>3. Alone /\ Settled
  BY <1>1, <1>2 DEF Alone, Resting, Ended, Settled, Agree
<1>4. \A c \in Conns : Placed(c)
  BY <1>2 DEF Placed, Ending, Found, Switching, Shown, Replied
<1> QED BY <1>3, <1>4 DEF AloneInv

(* A process at rest says nothing about the device.                        *)
LEMMA RestingPlaced ==
  ASSUME NEW d \in Conns, pc[d] \in Resting, Replied(d)
  PROVE  Placed(d)
BY DEF Placed, Ending, Found, Switching, Shown, Resting, Ended

(* A step of the one process that is served: only its own place counts.    *)
LEMMA OwnStep ==
  ASSUME AloneInv, TypeOK', NEW c \in Conns, NEW from, NEW to, Goto(c, from, to),
         from \notin Resting,
         \A d \in Conns \ {c} : answer'[d] = answer[d],
         Placed(c)', to \in RestPcs => Agree'
  PROVE  AloneInv'
<1>1. pc[c] \notin Resting /\ pc'[c] = to
  BY DEF Goto, AloneInv, TypeOK, ProcessOK
<1>2. ASSUME NEW d \in Conns, d # c PROVE pc'[d] = pc[d] /\ pc[d] \in Resting
  <2>1. pc'[d] = pc[d]
    BY <1>2 DEF Goto, AloneInv, TypeOK, ProcessOK
  <2>2. pc[d] \in Resting
    BY <1>1, <1>2 DEF AloneInv, Alone
  <2> QED BY <2>1, <2>2
<1>3. Alone'
  BY <1>2 DEF Alone
<1>4. Settled'
  BY <1>1 DEF Settled
<1>5. ASSUME NEW d \in Conns, d # c PROVE Placed(d)'
  <2>1. Replied(d)'
    <3>1. Replied(d) /\ answer'[d] = answer[d]
      BY <1>5 DEF AloneInv, Placed
    <3> QED BY <3>1 DEF Replied
  <2>2. pc'[d] \in Resting
    BY <1>2, <1>5
  <2> QED BY <2>1, <2>2
          DEF Placed, Ending, Found, Switching, Shown, Resting, Ended
<1> QED BY <1>3, <1>4, <1>5 DEF AloneInv

(* What AloneInv says of the one process that is served.                   *)
LEMMA OwnPlace ==
  ASSUME AloneInv, NEW c \in Conns, pc[c] \notin Resting
  PROVE  Placed(c) /\ (pc[c] \in RestPcs => Agree)
<1>1. \A d \in Conns \ {c} : pc[d] \in RestPcs
  BY DEF AloneInv, Alone, Resting, RestPcs, Ended
<1> QED BY <1>1 DEF AloneInv, Settled

(* The check of the disk keeps AloneInv: what it finds decides where it    *)
(* goes, and a recording ends before the word says so.                     *)
LEMMA CheckAlone ==
  ASSUME AloneInv, TypeOK', NEW c \in Conns, Check(c)
  PROVE  AloneInv'
<1>t. /\ pc \in [Conns -> DevicePcs \union RestPcs] /\ pc[c] \in DevicePcs \union RestPcs
      /\ avail \in [Conns -> Space] /\ warn \in [Conns -> Bit]
      /\ source \in Bit /\ recordLed \in Bit
  BY DEF AloneInv, TypeOK, ProcessOK, DeviceOK
<1>1. CASE Unmounted(c)
  <2>1. Goto(c, "statfs", "spinning") /\ answer' = answer
    BY <1>1 DEF Unmounted, socket
  <2>2. pc[c] = "statfs" /\ pc'[c] = "spinning"
    BY <2>1, <1>t DEF Goto
  <2>3. Placed(c) /\ (pc[c] \in RestPcs => Agree)
    BY <2>2, OwnPlace DEF Resting, Ended
  <2>4. Placed(c)' /\ ("spinning" \in RestPcs => Agree')
    BY <1>1, <1>t, <2>1, <2>2, <2>3 DEF Unmounted, Placed, Ending, Found, Switching, Shown, Replied, Agree, RestPcs, Ended, device, locals
  <2> QED BY <2>1, <2>2, <2>4, OwnStep DEF Resting, Ended
<1>2. CASE Statfs(c)
  <2>1. Goto(c, "statfs", "warn") /\ answer' = answer
    BY <1>2 DEF Statfs, socket
  <2>2. pc[c] = "statfs" /\ pc'[c] = "warn"
    BY <2>1, <1>t DEF Goto
  <2>3. Placed(c) /\ (pc[c] \in RestPcs => Agree)
    BY <2>2, OwnPlace DEF Resting, Ended
  <2>4. Placed(c)' /\ ("warn" \in RestPcs => Agree')
    BY <1>2, <1>t, <2>1, <2>2, <2>3 DEF Statfs, Placed, Ending, Found, Switching, Shown, Replied, Agree, RestPcs, Ended, device, locals
  <2> QED BY <2>1, <2>2, <2>4, OwnStep DEF Resting, Ended
<1>3. CASE Warn(c)
  <2>1. Goto(c, "warn", "check") /\ answer' = answer
    BY <1>3 DEF Warn, socket
  <2>2. pc[c] = "warn" /\ pc'[c] = "check"
    BY <2>1, <1>t DEF Goto
  <2>3. Placed(c) /\ (pc[c] \in RestPcs => Agree)
    BY <2>2, OwnPlace DEF Resting, Ended
  <2>4. Placed(c)' /\ ("check" \in RestPcs => Agree')
    BY <1>3, <1>t, <2>1, <2>2, <2>3 DEF Warn, WarnLevel, Placed, Ending, Found, Switching, Shown, Replied, Agree, RestPcs, Ended, device, locals
  <2> QED BY <2>1, <2>2, <2>4, OwnStep DEF Resting, Ended
<1>4. CASE CutLed(c)
  <2>1. Goto(c, "cutLed", "cutSource") /\ answer' = answer
    BY <1>4 DEF CutLed, socket
  <2>2. pc[c] = "cutLed" /\ pc'[c] = "cutSource"
    BY <2>1, <1>t DEF Goto
  <2>3. Placed(c) /\ (pc[c] \in RestPcs => Agree)
    BY <2>2, OwnPlace DEF Resting, Ended
  <2>4. Placed(c)' /\ ("cutSource" \in RestPcs => Agree')
    BY <1>4, <1>t, <2>1, <2>2, <2>3 DEF CutLed, Placed, Ending, Found, Switching, Shown, Replied, Agree, RestPcs, Ended, device, locals
  <2> QED BY <2>1, <2>2, <2>4, OwnStep DEF Resting, Ended
<1>5. CASE CutSource(c)
  <2>1. Goto(c, "cutSource", "markFull") /\ answer' = answer
    BY <1>5 DEF CutSource, socket
  <2>2. pc[c] = "cutSource" /\ pc'[c] = "markFull"
    BY <2>1, <1>t DEF Goto
  <2>3. Placed(c) /\ (pc[c] \in RestPcs => Agree)
    BY <2>2, OwnPlace DEF Resting, Ended
  <2>4. Placed(c)' /\ ("markFull" \in RestPcs => Agree')
    BY <1>5, <1>t, <2>1, <2>2, <2>3 DEF CutSource, Placed, Ending, Found, Switching, Shown, Replied, Agree, RestPcs, Ended, device, locals
  <2> QED BY <2>1, <2>2, <2>4, OwnStep DEF Resting, Ended
<1>6. CASE CheckState(c)
  <2>1. Goto(c, "check", AfterCheck(c)) /\ answer' = answer
    BY <1>6 DEF CheckState, socket
  <2>2. pc[c] = "check" /\ pc'[c] = AfterCheck(c)
    BY <2>1, <1>t DEF Goto
  <2>3. Placed(c) /\ Agree
    BY <2>2, OwnPlace DEF Resting, Ended, RestPcs
  <2>4. Placed(c)' /\ Agree'
    BY <1>6, <1>t, <2>1, <2>2, <2>3 DEF CheckState, AfterCheck, Bit, Placed, Ending, Found, Switching, Shown, Replied, Agree, RestPcs, Ended, device, locals
  <2> QED BY <2>1, <2>2, <2>4, OwnStep DEF Resting, Ended
<1>7. CASE Mark(c)
  <2>1. PICK from \in {"markFull", "markReady"} : Goto(c, from, "read") /\ answer' = answer
    BY <1>7 DEF Mark, socket
  <2>2. pc[c] = from /\ pc'[c] = "read"
    BY <2>1, <1>t DEF Goto
  <2>3. Placed(c) /\ (pc[c] = "markReady" => Agree)
    BY <2>1, <2>2, OwnPlace DEF Resting, Ended, RestPcs
  <2>4. Placed(c)' /\ Agree'
    BY <1>7, <1>t, <2>1, <2>2, <2>3 DEF Mark, Goto, Bit, Placed, Ending, Found, Switching, Shown, Replied, Agree, RestPcs, Ended, device, locals
  <2> QED BY <2>1, <2>2, <2>4, OwnStep DEF Resting, Ended
<1> QED BY <1>1, <1>2, <1>3, <1>4, <1>5, <1>6, <1>7 DEF Check

(* So do reading, and the commands that take several steps.                *)
LEMMA ReadAlone ==
  ASSUME AloneInv, TypeOK', NEW c \in Conns,
         \/ Read(c) \/ Default(c) \/ QueryExits(c) \/ StartTest(c) \/ StartMark(c)
         \/ StartReset(c) \/ StopMark(c) \/ StopLed(c)
  PROVE  AloneInv'
<1>t. /\ pc \in [Conns -> DevicePcs \union RestPcs] /\ pc[c] \in DevicePcs \union RestPcs
      /\ source \in Bit /\ recordLed \in Bit
  BY DEF AloneInv, TypeOK, ProcessOK, DeviceOK
<1>1. CASE ReadCommand(c)
  <2>1. Goto(c, "read", "run") /\ answer' = answer
    BY <1>1 DEF ReadCommand
  <2>2. pc[c] = "read" /\ pc'[c] = "run"
    BY <2>1, <1>t DEF Goto
  <2>3. Placed(c) /\ (pc[c] \in RestPcs => Agree)
    BY <2>2, OwnPlace DEF Resting, Ended
  <2>4. Placed(c)' /\ ("run" \in RestPcs => Agree')
    BY <1>1, <1>t, <2>1, <2>2, <2>3 DEF ReadCommand, Placed, Ending, Found, Switching, Shown, Replied, Agree, RestPcs, Ended, device, locals
  <2> QED BY <2>1, <2>2, <2>4, OwnStep DEF Resting, Ended
<1>2. CASE ReadEnd(c)
  <2>1. Goto(c, "read", "spinning") /\ answer' = answer
    BY <1>2 DEF ReadEnd, socket
  <2>2. pc[c] = "read" /\ pc'[c] = "spinning"
    BY <2>1, <1>t DEF Goto
  <2>3. Placed(c) /\ (pc[c] \in RestPcs => Agree)
    BY <2>2, OwnPlace DEF Resting, Ended
  <2>4. Placed(c)' /\ ("spinning" \in RestPcs => Agree')
    BY <1>2, <1>t, <2>1, <2>2, <2>3 DEF ReadEnd, Placed, Ending, Found, Switching, Shown, Replied, Agree, RestPcs, Ended, device, locals
  <2> QED BY <2>1, <2>2, <2>4, OwnStep DEF Resting, Ended
<1>3. CASE ReadError(c)
  <2>1. Goto(c, "read", "run") /\ answer' = answer
    BY <1>3 DEF ReadError
  <2>2. pc[c] = "read" /\ pc'[c] = "run"
    BY <2>1, <1>t DEF Goto
  <2>3. Placed(c) /\ (pc[c] \in RestPcs => Agree)
    BY <2>2, OwnPlace DEF Resting, Ended
  <2>4. Placed(c)' /\ ("run" \in RestPcs => Agree')
    BY <1>3, <1>t, <2>1, <2>2, <2>3 DEF ReadError, Placed, Ending, Found, Switching, Shown, Replied, Agree, RestPcs, Ended, device, locals
  <2> QED BY <2>1, <2>2, <2>4, OwnStep DEF Resting, Ended
<1>4. CASE Default(c)
  <2>1. Goto(c, "run", "statfs") /\ answer' = answer
    BY <1>4 DEF Default, socket
  <2>2. pc[c] = "run" /\ pc'[c] = "statfs"
    BY <2>1, <1>t DEF Goto
  <2>3. Placed(c) /\ (pc[c] \in RestPcs => Agree)
    BY <2>2, OwnPlace DEF Resting, Ended
  <2>4. Placed(c)' /\ ("statfs" \in RestPcs => Agree')
    BY <1>4, <1>t, <2>1, <2>2, <2>3 DEF Default, Placed, Ending, Found, Switching, Shown, Replied, Agree, RestPcs, Ended, device, locals
  <2> QED BY <2>1, <2>2, <2>4, OwnStep DEF Resting, Ended
<1>5. CASE QueryExits(c)
  <2>1. Goto(c, "run", "killed") /\ answer' = answer
    BY <1>5 DEF QueryExits, socket
  <2>2. pc[c] = "run" /\ pc'[c] = "killed"
    BY <2>1, <1>t DEF Goto
  <2>3. Placed(c) /\ (pc[c] \in RestPcs => Agree)
    BY <2>2, OwnPlace DEF Resting, Ended
  <2>4. Placed(c)' /\ ("killed" \in RestPcs => Agree')
    BY <1>5, <1>t, <2>1, <2>2, <2>3 DEF QueryExits, Placed, Ending, Found, Switching, Shown, Replied, Agree, RestPcs, Ended, device, locals
  <2> QED BY <2>1, <2>2, <2>4, OwnStep DEF Resting, Ended
<1>6. CASE StartTest(c)
  <2>1. Goto(c, "run", "startMark") /\ answer' = answer
    BY <1>6 DEF StartTest, socket
  <2>2. pc[c] = "run" /\ pc'[c] = "startMark"
    BY <2>1, <1>t DEF Goto
  <2>3. Placed(c) /\ (pc[c] \in RestPcs => Agree)
    BY <2>2, OwnPlace DEF Resting, Ended
  <2>4. Placed(c)' /\ ("startMark" \in RestPcs => Agree')
    BY <1>6, <1>t, <2>1, <2>2, <2>3 DEF StartTest, Bit, Placed, Ending, Found, Switching, Shown, Replied, Agree, RestPcs, Ended, device, locals
  <2> QED BY <2>1, <2>2, <2>4, OwnStep DEF Resting, Ended
<1>7. CASE StartMark(c)
  <2>1. Goto(c, "startMark", "startReset") /\ answer' = answer
    BY <1>7 DEF StartMark, socket
  <2>2. pc[c] = "startMark" /\ pc'[c] = "startReset"
    BY <2>1, <1>t DEF Goto
  <2>3. Placed(c) /\ (pc[c] \in RestPcs => Agree)
    BY <2>2, OwnPlace DEF Resting, Ended
  <2>4. Placed(c)' /\ ("startReset" \in RestPcs => Agree')
    BY <1>7, <1>t, <2>1, <2>2, <2>3 DEF StartMark, Placed, Ending, Found, Switching, Shown, Replied, Agree, RestPcs, Ended, device, locals
  <2> QED BY <2>1, <2>2, <2>4, OwnStep DEF Resting, Ended
<1>8. CASE StartReset(c)
  <2>1. Goto(c, "startReset", "startSource") /\ answer' = answer
    BY <1>8 DEF StartReset, socket
  <2>2. pc[c] = "startReset" /\ pc'[c] = "startSource"
    BY <2>1, <1>t DEF Goto
  <2>3. Placed(c) /\ (pc[c] \in RestPcs => Agree)
    BY <2>2, OwnPlace DEF Resting, Ended
  <2>4. Placed(c)' /\ ("startSource" \in RestPcs => Agree')
    BY <1>8, <1>t, <2>1, <2>2, <2>3 DEF StartReset, Placed, Ending, Found, Switching, Shown, Replied, Agree, RestPcs, Ended, device, locals
  <2> QED BY <2>1, <2>2, <2>4, OwnStep DEF Resting, Ended
<1>9. CASE StopMark(c)
  <2>1. Goto(c, "run", "stopLed") /\ answer' = answer
    BY <1>9 DEF StopMark, socket
  <2>2. pc[c] = "run" /\ pc'[c] = "stopLed"
    BY <2>1, <1>t DEF Goto
  <2>3. Placed(c) /\ (pc[c] \in RestPcs => Agree)
    BY <2>2, OwnPlace DEF Resting, Ended
  <2>4. Placed(c)' /\ ("stopLed" \in RestPcs => Agree')
    BY <1>9, <1>t, <2>1, <2>2, <2>3 DEF StopMark, Placed, Ending, Found, Switching, Shown, Replied, Agree, RestPcs, Ended, device, locals
  <2> QED BY <2>1, <2>2, <2>4, OwnStep DEF Resting, Ended
<1>10. CASE StopLed(c)
  <2>1. Goto(c, "stopLed", "stopSource") /\ answer' = answer
    BY <1>10 DEF StopLed, socket
  <2>2. pc[c] = "stopLed" /\ pc'[c] = "stopSource"
    BY <2>1, <1>t DEF Goto
  <2>3. Placed(c) /\ (pc[c] \in RestPcs => Agree)
    BY <2>2, OwnPlace DEF Resting, Ended
  <2>4. Placed(c)' /\ ("stopSource" \in RestPcs => Agree')
    BY <1>10, <1>t, <2>1, <2>2, <2>3 DEF StopLed, LedOff, Placed, Ending, Found, Switching, Shown, Replied, Agree, RestPcs, Ended, device, locals
  <2> QED BY <2>1, <2>2, <2>4, OwnStep DEF Resting, Ended
<1> QED BY <1>1, <1>2, <1>3, <1>4, <1>5, <1>6, <1>7, <1>8, <1>9, <1>10 DEF Read

(* A reply ends the command: device and word have to agree by then, and a  *)
(* status has to be right.                                                 *)
LEMMA ReplyAlone ==
  ASSUME AloneInv, TypeOK', NEW c \in Conns, NEW from, from \notin Resting, NEW body,
         Reply(c, from, body), Agree',
         body.to = "status" => (body.state = "diskfull" <=> body.avail = 0)
  PROVE  AloneInv'
<1>1. PICK to \in {"statfs", "killed"} : Goto(c, from, to)
  BY DEF Reply
<1>2. pc'[c] = to
  BY <1>1 DEF Goto, AloneInv, TypeOK, ProcessOK
<1>3. answer'[c] = body /\ \A d \in Conns \ {c} : answer'[d] = answer[d]
  BY DEF Reply, AloneInv, TypeOK, SocketOK
<1>4. Placed(c)'
  BY <1>1, <1>2, <1>3 DEF Placed, Ending, Found, Switching, Shown, Replied
<1> QED BY <1>1, <1>3, <1>4, OwnStep

(* The commands that answer at once, and the ends of START and STOP.       *)
LEMMA AnswerAlone ==
  ASSUME AloneInv, TypeOK', NEW c \in Conns,
         \/ Status(c) \/ Query(c) \/ StartRefused(c) \/ StartSource(c) \/ StopSource(c)
         \/ \E v \in Bit : Source(c, v)
         \/ \E v \in 0 .. Quota + 1 : Threshold(c, v)
  PROVE  AloneInv'
<1>0. \A cmd \in {"query", "start", "stop", "source", "threshold"} : Done(cmd).to # "status"
  BY DEF Done, NoAnswer
<1>1. ASSUME pc[c] = "run", UNCHANGED <<workState, source, recordLed>> PROVE Agree'
  BY <1>1, OwnPlace DEF Resting, Ended, RestPcs, Agree
<1>2. CASE Status(c)
  <2> DEFINE body == [to |-> "status", state |-> workState, avail |-> avail[c], warn |-> warn[c]]
  <2>1. Reply(c, "run", body) /\ pc[c] = "run" /\ UNCHANGED <<workState, source, recordLed>>
    BY <1>2 DEF Status, Reply, Goto, device
  <2>2. body.state = "diskfull" <=> body.avail = 0
    BY <2>1, OwnPlace DEF Placed, Found, Resting, Ended
  <2> HIDE DEF body
  <2> QED BY <1>1, <2>1, <2>2, ReplyAlone DEF Resting, Ended
<1>3. CASE Query(c)
  <2>1. Reply(c, "run", Done("query")) /\ pc[c] = "run" /\ UNCHANGED <<workState, source, recordLed>>
    BY <1>3 DEF Query, Reply, Goto, device
  <2> QED BY <1>0, <1>1, <2>1, ReplyAlone DEF Resting, Ended
<1>4. CASE StartRefused(c)
  <2>1. Reply(c, "run", Done("start")) /\ pc[c] = "run" /\ UNCHANGED <<workState, source, recordLed>>
    BY <1>4 DEF StartRefused, Reply, Goto, device
  <2> QED BY <1>0, <1>1, <2>1, ReplyAlone DEF Resting, Ended
<1>5. ASSUME NEW v \in Bit, Source(c, v) PROVE AloneInv'
  <2>1. Reply(c, "run", Done("source")) /\ pc[c] = "run" /\ UNCHANGED <<workState, source, recordLed>>
    BY <1>5 DEF Source, Reply, Goto
  <2> QED BY <1>0, <1>1, <2>1, ReplyAlone DEF Resting, Ended
<1>6. ASSUME NEW v \in 0 .. Quota + 1, Threshold(c, v) PROVE AloneInv'
  <2>1. Reply(c, "run", Done("threshold")) /\ pc[c] = "run" /\ UNCHANGED <<workState, source, recordLed>>
    BY <1>6 DEF Threshold, Reply, Goto, device
  <2> QED BY <1>0, <1>1, <2>1, ReplyAlone DEF Resting, Ended
<1>7. CASE StartSource(c)
  <2>1. Reply(c, "startSource", Done("start")) /\ pc[c] = "startSource"
    BY <1>7 DEF StartSource, Reply, Goto
  <2>2. Agree'
    BY <1>7, <2>1, OwnPlace DEF StartSource, Placed, Switching, Agree, Resting, Ended
  <2> QED BY <1>0, <2>1, <2>2, ReplyAlone DEF Resting, Ended
<1>8. CASE StopSource(c)
  <2>1. Reply(c, "stopSource", Done("stop")) /\ pc[c] = "stopSource"
    BY <1>8 DEF StopSource, Reply, Goto
  <2>2. Agree'
    BY <1>8, <2>1, OwnPlace DEF StopSource, Placed, Switching, Agree, Resting, Ended
  <2> QED BY <1>0, <2>1, <2>2, ReplyAlone DEF Resting, Ended
<1> QED BY <1>2, <1>3, <1>4, <1>5, <1>6, <1>7, <1>8

(* A connection that begins is the only one; clients and disk do not touch *)
(* the device, nor a process its place.                                    *)
LEMMA OutsideAlone ==
  ASSUME OneAtATime, AloneInv, TypeOK',
         \/ \E c \in Conns : Spin(c) \/ \E ok \in BOOLEAN : Accept(c, ok)
         \/ Clients \/ DiskChanges
  PROVE  AloneInv'
<1>t. pc \in [Conns -> DevicePcs \union RestPcs]
  BY DEF AloneInv, TypeOK, ProcessOK
<1>1. ASSUME UNCHANGED <<device, pc, avail, warn, answer>> PROVE AloneInv'
  BY <1>1 DEF AloneInv, Alone, Settled, Agree, Placed, Ending, Found, Switching, Shown, Replied, device
<1>2. ASSUME NEW c \in Conns, NEW ok \in BOOLEAN, Accept(c, ok) PROVE AloneInv'
  <2>1. PICK to \in {"statfs", "refused"} : Goto(c, "backlog", to) /\ pc'[c] = to
    BY <1>2, <1>t DEF Accept, Goto
  <2>2. answer' = answer /\ UNCHANGED device
    BY <1>2 DEF Accept, socket
  <2>3. Placed(c) /\ Agree
    BY <2>1, OwnPlace DEF Goto, Resting, Ended, RestPcs
  <2>4. Agree'
    BY <2>2, <2>3 DEF Agree, device
  <2>5. Placed(c)'
    BY <2>1, <2>2, <2>3 DEF Placed, Ending, Found, Switching, Shown, Replied
  <2> QED BY <2>1, <2>2, <2>4, <2>5, OwnStep DEF Resting, Ended
<1>3. ASSUME NEW c \in Conns, Connect(c) PROVE AloneInv'
  <2>1. \A d \in Conns : pc[d] \in Resting
    BY <1>3 DEF Connect, Resting
  <2>2. /\ pc'[c] = "backlog" /\ \A d \in Conns \ {c} : pc'[d] = pc[d]
        /\ answer' = answer /\ UNCHANGED device
    BY <1>3, <1>t DEF Connect, Goto
  <2>3. Alone'
    BY <2>1, <2>2 DEF Alone
  <2>4. Agree'
    BY <2>1, <2>2 DEF AloneInv, Settled, Agree, device, Resting, RestPcs
  <2>5. ASSUME NEW d \in Conns PROVE Placed(d)'
    <3>1. pc'[d] \in Resting \union {"backlog"}
      BY <2>1, <2>2
    <3>2. Replied(d)'
      BY <2>2 DEF AloneInv, Placed, Replied
    <3> QED BY <3>1, <3>2 DEF Placed, Ending, Found, Switching, Shown, Resting, Ended
  <2> QED BY <2>3, <2>4, <2>5 DEF AloneInv, Settled
<1>4. CASE DiskChanges \/ \E c \in Conns : Spin(c) \/ Hangup(c) \/ \E k \in Kinds : Send(c, k)
  BY <1>1, <1>4 DEF DiskChanges, Spin, Hangup, Send, vars, locals, socket
<1> QED BY <1>2, <1>3, <1>4 DEF Clients

(* With one client after the other AloneInv holds throughout.              *)
LEMMA AloneHolds == ASSUME OneAtATime PROVE Spec => []AloneInv
<1>1. ASSUME AloneInv, TypeOK', [Next]_vars PROVE AloneInv'
  <2>1. ASSUME NEW c \in Conns, Process(c) PROVE AloneInv'
    BY <1>1, <2>1, CheckAlone, ReadAlone, AnswerAlone DEF Process, Command
  <2>2. CASE UNCHANGED vars
    BY <1>1, <2>2 DEF vars, locals, socket, device, AloneInv, Alone, Settled, Agree, Placed, Ending,
                Found, Switching, Shown, Replied
  <2> QED BY <1>1, <2>1, <2>2, OutsideAlone DEF Next
<1> QED BY <1>1, AloneInit, TypeCorrect, PTL DEF Spec

(* One client after the other, each hanging up when it likes: between two  *)
(* commands state word, source and LED agree.                              *)
THEOREM DeviceConsistent == ASSUME OneAtATime PROVE Spec => []StateMatchesSource
<1>1. AloneInv => StateMatchesSource
  BY DEF AloneInv, Settled, Agree, StateMatchesSource
<1> QED BY <1>1, AloneHolds, PTL

(* A full disk has ended the recording before the next command is read.    *)
THEOREM FullDiskStops == ASSUME OneAtATime PROVE Spec => []FullEndsRecording
<1>1. AloneInv => FullEndsRecording
  <2> SUFFICES ASSUME AloneInv, NEW c \in Conns, pc[c] = "read", avail[c] = 0
               PROVE  workState = "diskfull" /\ source = 0
    BY DEF FullEndsRecording
  <2>1. Placed(c) /\ Agree
    BY OwnPlace DEF Resting, Ended, RestPcs
  <2>2. workState = "diskfull" /\ source \in Bit
    BY <2>1 DEF Placed, Found, AloneInv, TypeOK, DeviceOK
  <2> QED BY <2>1, <2>2 DEF Agree, Bit
<1> QED BY <1>1, AloneHolds, PTL

(* While a command is awaited the warning pin shows what the check found.  *)
THEOREM PinShowsWarning == ASSUME OneAtATime PROVE Spec => []WarningShown
<1>1. AloneInv => WarningShown
  BY DEF AloneInv, Placed, Shown, WarningShown
<1> QED BY <1>1, AloneHolds, PTL

(* No status reply says that the disk is full and has space, nor that it   *)
(* has none and is not full.                                               *)
THEOREM RepliesConsistent == ASSUME OneAtATime PROVE Spec => []StatusConsistent
<1>1. AloneInv => StatusConsistent
  BY DEF AloneInv, Placed, Replied, StatusConsistent
<1> QED BY <1>1, AloneHolds, PTL
=============================================================================
