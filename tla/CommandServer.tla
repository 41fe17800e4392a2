--------------------------- MODULE CommandServer ---------------------------
(***************************************************************************)
(* The command server: net_routine() of tcp_server.c accepts a connection  *)
(* and forks; process_conn_server() of tcp_process.c then serves it in a   *)
(* process of its own, which checks the disk, reads one command, carries   *)
(* it out and answers, for ever.                                           *)
(*                                                                         *)
(* fork() copies the program's globals, so fisk_threshold, fisk_warn and   *)
(* the command buffer belong to one connection each.  The BRAM words and   *)
(* the GPIO pins are memory of the PL: all processes share them, and each  *)
(* of their accesses is a step of its own.  What START and STOP do to the  *)
(* recording threads is in Recorder, the times START carries in Clock.     *)
(***************************************************************************)
EXTENDS Naturals

CONSTANTS
  Conns,        (* connections that clients may open                       *)
  Kinds,        (* commands that may arrive                                *)
  Quota,        (* bytes a recording may use (0x2ba7def3000), in units of  *)
                (* the 30,000,000,000 a threshold counts in                *)
  OneAtATime,   (* a client connects only when no other one is served      *)
  MaxSent,      (* bound on commands per connection                        *)
  MaxErrors     (* bound on failing read() calls per connection            *)

AllKinds == {"status", "start", "stop", "threshold", "source", "query"}

ASSUME ServerAssumption ==
  /\ Quota \in Nat /\ MaxSent \in Nat /\ MaxErrors \in Nat
  /\ OneAtATime \in BOOLEAN
  /\ Kinds \subseteq AllKinds

Bit   == {0, 1}
Space == 0 .. Quota

VARIABLES
  \* of the PL, shared by all processes
  workState,    (* bram_vptr[1][25]                                        *)
  source,       (* GPIO 0: data source enabled                             *)
  testData,     (* GPIO 2: simulated data selected                         *)
  recordLed,    (* GPIO 64: 0 while recording                              *)
  warnPin,      (* GPIO 62: 0 when space is low                            *)
  \* the disk
  used,         (* bytes used: they may exceed the quota                   *)
  mounted,
  \* of each connection's process
  pc,           (* where it is; before the fork, the state of the socket   *)
  buf,          (* buffer[3]: a command, or the code of the last reply     *)
  avail, warn,  (* avilable_size and fisk_warn of the last check           *)
  threshold,    (* fisk_threshold                                          *)
  \* of each connection's socket
  client,       (* "away", "connected" or "gone"                           *)
  inbox,        (* the command waiting to be read                          *)
  answer,       (* the last reply the client got                           *)
  sent, answers, errors   (* counters                                      *)

device == <<workState, source, testData, recordLed, warnPin>>
disk   == <<used, mounted>>
locals == <<buf, avail, warn, threshold>>
peers  == <<client, sent>>
socket == <<peers, inbox, answer, answers, errors>>
vars   == <<device, disk, pc, locals, socket>>

NoAnswer == [to |-> "none", state |-> "none", avail |-> 0, warn |-> 0]

(* net_routine() listens, or, when socket(), bind() or listen() fails,     *)
(* returns at once: then every client is refused for good.                 *)
Init ==
  /\ workState = "empty" /\ source = 0 /\ testData = 0
  /\ recordLed = 1 /\ warnPin = 1
  /\ used \in 0 .. Quota + 1 /\ mounted = TRUE
  /\ \E listening \in BOOLEAN :
       pc = [c \in Conns |-> IF listening THEN "idle" ELSE "refused"]
  /\ buf = [c \in Conns |-> "none"]
  /\ avail = [c \in Conns |-> 0] /\ warn = [c \in Conns |-> 0]
  /\ threshold = [c \in Conns |-> 0]
  /\ client = [c \in Conns |-> "away"]
  /\ inbox = [c \in Conns |-> "none"]
  /\ answer = [c \in Conns |-> NoAnswer]
  /\ sent = [c \in Conns |-> 0] /\ answers = [c \in Conns |-> 0]
  /\ errors = [c \in Conns |-> 0]

Goto(c, from, to) ==
  /\ pc[c] = from
  /\ pc' = [pc EXCEPT ![c] = to]

-----------------------------------------------------------------------------
(* net_routine(): the accept loop.                                         *)

(* accept() and fork(): the child serves the connection, with the globals  *)
(* of the parent, which never change.  If fork() fails the parent closes   *)
(* the connection.                                                         *)
Accept(c, forked) ==
  /\ Goto(c, "backlog", IF forked THEN "statfs" ELSE "refused")
  /\ UNCHANGED <<device, disk, locals, socket>>

(* When process_conn_server() returns, the child goes on with its parent's *)
(* loop.  It has closed ss: accept() fails, continue, for ever.            *)
Spin(c) ==
  /\ pc[c] = "spinning"
  /\ UNCHANGED vars

-----------------------------------------------------------------------------
(* The check at the head of the loop.                                      *)

(* statfs("/smbshare"): no file system there ends the process's service.   *)
Unmounted(c) ==
  /\ ~mounted
  /\ Goto(c, "statfs", "spinning")
  /\ UNCHANGED <<device, disk, locals, socket>>

LeftWraps(u) == (16 + Quota - u) % 16                   \* mutant
Left(u)      == IF u <= Quota THEN Quota - u ELSE 0

Low(space, limit) == IF space < limit THEN 1 ELSE 0

(* The space left, compared with this connection's threshold.              *)
Statfs(c) ==
  /\ mounted
  /\ Goto(c, "statfs", "warn")
  /\ avail' = [avail EXCEPT ![c] = Left(used)]
  /\ warn' = [warn EXCEPT ![c] = Low(Left(used), threshold[c])]
  /\ UNCHANGED <<device, disk, buf, threshold, socket>>

(* gpio_set(62, ...) shows the result outside: set in either case.         *)
OnlyLow(c) == IF warn[c] = 1 THEN 0 ELSE warnPin        \* mutant
WarnLevel(c) == 1 - warn[c]

Warn(c) ==
  /\ Goto(c, "warn", "check")
  /\ warnPin' = WarnLevel(c)
  /\ UNCHANGED <<workState, source, testData, recordLed, disk, locals, socket>>

(* The state word is tested.  A full disk ends a recording in progress;    *)
(* otherwise the word follows the disk.                                    *)
KeepSource(c) == IF avail[c] = 0 THEN "markFull"        \* mutant
                 ELSE IF workState = "record" THEN "read" ELSE "markReady"
StaysFull(c)  == IF workState \in {"record", "diskfull"}  \* mutant
                 THEN IF avail[c] = 0 /\ workState = "record" THEN "cutLed" ELSE "read"
                 ELSE IF avail[c] = 0 THEN "markFull" ELSE "markReady"
AfterCheck(c) == IF avail[c] = 0
                 THEN IF workState = "record" THEN "cutLed" ELSE "markFull"
                 ELSE IF workState = "record" THEN "read" ELSE "markReady"

CheckState(c) ==
  /\ Goto(c, "check", AfterCheck(c))
  /\ UNCHANGED <<device, disk, locals, socket>>

CutLed(c) ==
  /\ Goto(c, "cutLed", "cutSource")
  /\ recordLed' = 1
  /\ UNCHANGED <<workState, source, testData, warnPin, disk, locals, socket>>

CutSource(c) ==
  /\ Goto(c, "cutSource", "markFull")
  /\ source' = 0
  /\ UNCHANGED <<workState, testData, recordLed, warnPin, disk, locals, socket>>

Mark(c) ==
  /\ \/ Goto(c, "markFull", "read") /\ workState' = "diskfull"
     \/ Goto(c, "markReady", "read") /\ workState' = "ready"
  /\ UNCHANGED <<source, testData, recordLed, warnPin, disk, locals, socket>>

Check(c) == \/ Unmounted(c) \/ Statfs(c) \/ Warn(c) \/ CheckState(c)
            \/ CutLed(c) \/ CutSource(c) \/ Mark(c)

-----------------------------------------------------------------------------
(* read(), and the switch on buffer[3].                                    *)

ReadCommand(c) ==
  /\ inbox[c] # "none"
  /\ Goto(c, "read", "run")
  /\ buf' = [buf EXCEPT ![c] = inbox[c]]
  /\ inbox' = [inbox EXCEPT ![c] = "none"]
  /\ UNCHANGED <<device, disk, avail, warn, threshold, peers, answer, answers,
                 errors>>

(* The client has closed: size == 0, and process_conn_server() returns.    *)
ReadEnd(c) ==
  /\ inbox[c] = "none" /\ client[c] = "gone"
  /\ Goto(c, "read", "spinning")
  /\ UNCHANGED <<device, disk, locals, socket>>

(* size < 0 is not tested for: the switch runs on what the buffer holds.   *)
ReadError(c) ==
  /\ client[c] = "gone" /\ errors[c] < MaxErrors
  /\ Goto(c, "read", "run")
  /\ errors' = [errors EXCEPT ![c] = @ + 1]
  /\ inbox' = [inbox EXCEPT ![c] = "none"]
  /\ UNCHANGED <<device, disk, locals, peers, answer, answers>>

(* Any other value of buffer[3], so the code of a reply: back to the check.*)
Default(c) ==
  /\ buf[c] \notin Kinds
  /\ Goto(c, "run", "statfs")
  /\ UNCHANGED <<device, disk, locals, socket>>

(* Every reply is built in the buffer of the command.  Writing to a client *)
(* that has closed may raise SIGPIPE, which nothing handles.               *)
CommandKept(c) == buf                                   \* mutant
Overwritten(c) == [buf EXCEPT ![c] = "reply"]

Reply(c, from, body) ==
  /\ \/ Goto(c, from, "statfs")
     \/ client[c] = "gone" /\ Goto(c, from, "killed")
  /\ buf' = Overwritten(c)
  /\ answers' = [answers EXCEPT ![c] = @ + 1]
  /\ answer' = [answer EXCEPT ![c] = body]
  /\ UNCHANGED <<avail, warn, disk, peers, inbox, errors>>

Done(cmd) == [NoAnswer EXCEPT !.to = cmd]

(* CMD_GET_STATUS: the state word as it is now, space and warning as of    *)
(* the check before the read.                                              *)
Status(c) ==
  /\ buf[c] = "status"
  /\ Reply(c, "run", [to |-> "status", state |-> workState,
                      avail |-> avail[c], warn |-> warn[c]])
  /\ UNCHANGED <<device, threshold>>

(* 0x02, 0x06, 0x09, 0x10 only read, and 0x05 only sets the clocks.  (How  *)
(* they do it, and when 0x10 makes the process exit instead, is in Queries *)
(* and Clock.)                                                             *)
Query(c) ==
  /\ buf[c] = "query"
  /\ Reply(c, "run", Done("query"))
  /\ UNCHANGED <<device, threshold>>

QueryExits(c) ==
  /\ buf[c] = "query"
  /\ Goto(c, "run", "killed")
  /\ UNCHANGED <<device, disk, locals, socket>>

(* 0x07: select_data_source().                                             *)
Source(c, value) ==
  /\ buf[c] = "source"
  /\ Reply(c, "run", Done("source"))
  /\ testData' = value
  /\ UNCHANGED <<workState, source, recordLed, warnPin, threshold>>

(* 0x08: fisk_threshold, of this process.                                  *)
SetForAll(c, value) == [d \in Conns |-> value]          \* mutant
SetOwn(c, value)    == [threshold EXCEPT ![c] = value]

Threshold(c, value) ==
  /\ buf[c] = "threshold"
  /\ Reply(c, "run", Done("threshold"))
  /\ threshold' = SetOwn(c, value)
  /\ UNCHANGED device
-----------------------------------------------------------------------------
(* CMD_SET_START: the state word is tested, set, and the recording begun.  *)

(* In any other state the reply is the same, and nothing happens.          *)
RefusedSilently(c) ==                                   \* mutant
  /\ buf[c] = "start" /\ workState # "ready"
  /\ Goto(c, "run", "statfs")
  /\ UNCHANGED <<device, disk, locals, socket>>
StartRefused(c) ==
  /\ buf[c] = "start" /\ workState # "ready"
  /\ Reply(c, "run", Done("start"))
  /\ UNCHANGED <<device, threshold>>

StartTest(c) ==
  /\ buf[c] = "start" /\ workState = "ready"
  /\ Goto(c, "run", "startMark")
  /\ UNCHANGED <<device, disk, locals, socket>>

StartMark(c) ==
  /\ Goto(c, "startMark", "startReset")
  /\ workState' = "record"
  /\ UNCHANGED <<source, testData, recordLed, warnPin, disk, locals, socket>>

(* reset_pl() raises pins 62 and 64; then pin 64 shows the recording.      *)
StartReset(c) ==
  /\ Goto(c, "startReset", "startSource")
  /\ warnPin' = 1 /\ recordLed' = 0
  /\ UNCHANGED <<workState, source, testData, disk, locals, socket>>

StartSource(c) ==
  /\ source' = 1
  /\ Reply(c, "startSource", Done("start"))
  /\ UNCHANGED <<workState, testData, recordLed, warnPin, threshold>>

(* CMD_SET_STOP: in whatever state.                                        *)
StopMark(c) ==
  /\ buf[c] = "stop"
  /\ Goto(c, "run", "stopLed")
  /\ workState' = "ready"
  /\ UNCHANGED <<source, testData, recordLed, warnPin, disk, locals, socket>>

LedLeftOn == recordLed                                  \* mutant
LedOff    == 1
StopLed(c) ==
  /\ Goto(c, "stopLed", "stopSource")
  /\ recordLed' = LedOff
  /\ UNCHANGED <<workState, source, testData, warnPin, disk, locals, socket>>

StopSource(c) ==
  /\ source' = 0
  /\ Reply(c, "stopSource", Done("stop"))
  /\ UNCHANGED <<workState, testData, recordLed, warnPin, threshold>>

Read(c) == ReadCommand(c) \/ ReadEnd(c) \/ ReadError(c)

Command(c) == \/ Default(c) \/ Status(c) \/ Query(c) \/ QueryExits(c)
              \/ (\E v \in Bit : Source(c, v))
              \/ (\E v \in 0 .. Quota + 1 : Threshold(c, v))
              \/ StartRefused(c) \/ StartTest(c) \/ StartMark(c)
              \/ StartReset(c) \/ StartSource(c)
              \/ StopMark(c) \/ StopLed(c) \/ StopSource(c)

Process(c) == Check(c) \/ Read(c) \/ Command(c)
-----------------------------------------------------------------------------
(* The clients and the disk, both outside the repository.  A client sends  *)
(* a command when it has the answer to the one before.                     *)

Ended == {"refused", "spinning", "killed"}

Connect(c) ==
  /\ client[c] = "away"
  /\ OneAtATime => \A d \in Conns : pc[d] \in Ended \union {"idle"}
  /\ Goto(c, "idle", "backlog")
  /\ client' = [client EXCEPT ![c] = "connected"]
  /\ UNCHANGED <<device, disk, locals, sent, inbox, answer, answers, errors>>

Send(c, cmd) ==
  /\ client[c] = "connected" /\ sent[c] = answers[c] /\ sent[c] < MaxSent
  /\ pc[c] # "refused"
  /\ inbox' = [inbox EXCEPT ![c] = cmd]
  /\ sent' = [sent EXCEPT ![c] = @ + 1]
  /\ UNCHANGED <<device, disk, pc, locals, client, answer, answers, errors>>

Hangup(c) ==
  /\ client[c] = "connected"
  /\ client' = [client EXCEPT ![c] = "gone"]
  /\ UNCHANGED <<device, disk, pc, locals, sent, inbox, answer, answers, errors>>

(* Recording fills the disk, deleting files over the network share empties *)
(* it; it may be unmounted.                                                *)
DiskChanges ==
  /\ \/ used' \in 0 .. Quota + 1 /\ mounted' = mounted
     \/ mounted' = FALSE /\ used' = used
  /\ UNCHANGED <<device, pc, locals, socket>>

Clients == \E c \in Conns : Connect(c) \/ Hangup(c) \/ \E k \in Kinds : Send(c, k)

Next == \/ \E c \in Conns : Process(c) \/ Spin(c) \/ \E ok \in BOOLEAN : Accept(c, ok)
        \/ Clients \/ DiskChanges

Spec == Init /\ [][Next]_vars

(* Fairness: the kernel schedules every process, and the parent accepts.   *)
FairSpec ==
  Spec /\ \A c \in Conns : WF_vars(Process(c)) /\ WF_vars(\E ok \in BOOLEAN : Accept(c, ok))

-----------------------------------------------------------------------------
(* Every variable keeps its type; the space left stays within the quota.   *)
DevicePcs == {"startMark", "startReset", "startSource", "stopLed", "stopSource",
              "cutLed", "cutSource", "markFull"}
RestPcs   == {"idle", "backlog", "statfs", "warn", "check", "markReady", "read",
              "run"} \union Ended

Answers == [to : AllKinds \union {"none"},
            state : {"none", "empty", "ready", "record", "diskfull"},
            avail : Space, warn : Bit]

DeviceOK ==
  /\ workState \in {"empty", "ready", "record", "diskfull"}
  /\ source \in Bit /\ testData \in Bit /\ recordLed \in Bit /\ warnPin \in Bit

DiskOK == used \in 0 .. Quota + 1 /\ mounted \in BOOLEAN

ProcessOK ==
  /\ pc \in [Conns -> DevicePcs \union RestPcs]
  /\ buf \in [Conns -> Kinds \union {"none", "reply"}]
  /\ avail \in [Conns -> Space] /\ warn \in [Conns -> Bit]

ThresholdOK == threshold \in [Conns -> 0 .. Quota + 1]

SocketOK ==
  /\ client \in [Conns -> {"away", "connected", "gone"}]
  /\ inbox \in [Conns -> Kinds \union {"none"}]
  /\ answer \in [Conns -> Answers]
  /\ sent \in [Conns -> 0 .. MaxSent]
  /\ answers \in [Conns -> Nat] /\ errors \in [Conns -> 0 .. MaxErrors]

TypeOK == DeviceOK /\ DiskOK /\ ProcessOK /\ ThresholdOK /\ SocketOK

(* No command is carried out twice: a process never answers more often     *)
(* than it was asked, although a failed read() leaves it with the buffer   *)
(* of the command before (tcp_process.c:155).                              *)
AnsweredOnce == \A c \in Conns : answers[c] <= sent[c]

(* The warning a client gets is about the threshold it has set itself and  *)
(* the space in the same reply, whatever other clients set meanwhile.      *)
WarnHonest ==
  \A c \in Conns : answer[c].to = "status" =>
    answer[c].warn = Low(answer[c].avail, threshold[c])

(* Every command is answered, also a START in the wrong state, as long as  *)
(* the process serves the connection.                                      *)
EveryCommandAnswered ==
  \A c \in Conns : (inbox[c] # "none") ~> (answers[c] = sent[c] \/ pc[c] \in Ended)

(* One client at a time, also after clients that hung up in mid-command:   *)
(* between commands the state word says WORK_RECORD exactly when the       *)
(* source is enabled, and the record LED agrees.                           *)
StateMatchesSource ==
  (\A c \in Conns : pc[c] \in RestPcs) =>
    /\ (workState = "record") = (source = 1)
    /\ (recordLed = 0) = (source = 1)

(* One client at a time: when the check has found the disk full and the    *)
(* process waits for its next command, the recording is over.              *)
FullEndsRecording ==
  \A c \in Conns : pc[c] = "read" /\ avail[c] = 0 => workState = "diskfull" /\ source = 0

(* One client at a time: while the process waits for its next command, the *)
(* warning pin shows what its last check found, although every START       *)
(* raises the pin with reset_pl().                                         *)
WarningShown == \A c \in Conns : pc[c] = "read" => warnPin = 1 - warn[c]

(* One client at a time: a status reply never says the disk is full and    *)
(* that there is space on it, nor the reverse.                             *)
StatusConsistent ==
  \A c \in Conns : answer[c].to = "status" =>
    (answer[c].state = "diskfull") = (answer[c].avail = 0)
=============================================================================
