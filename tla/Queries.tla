------------------------------ MODULE Queries ------------------------------
(***************************************************************************)
(* The commands of tcp_process.c that look outside the program for their   *)
(* answer: 0x02 and 0x09 ask connect_check() for the two network links,    *)
(* 0x10 has get_file_count() walk a folder of recordings.  Links go up and *)
(* down while a command runs; the folder is taken to stay as it is.        *)
(*                                                                         *)
(* The folder is a tree of entries numbered as readdir() delivers them,    *)
(* an entry after the folder it is in.                                     *)
(***************************************************************************)
EXTENDS Naturals, FiniteSetsExt

CONSTANTS
  Entries     (* number of entries below the folder asked for              *)

ASSUME QueriesAssumption == Entries \in Nat

Links == {"eth0", "eth1"}
Node  == 0 .. Entries           \* 0 is the folder asked for
Kinds == {"reg", "dir", "other"}

VARIABLES
  \* outside the program
  link,       (* operstate: "up", "down", or "absent": no such file        *)
  kind, parent, opens,   (* the folder; opens: opendir() succeeds          *)
  \* process_conn_server()
  pc,         (* "read", "eth0", "eth1", "answer", "exited"                *)
  cmd,        (* "health" (0x02), "version" (0x09) or "files" (0x10)       *)
  bx, t,      (* base_bx_state, base_t_state                               *)
  lan,        (* the link status of the last reply                         *)
  iic,        (* its byte 6: I2C status (0x09)                             *)
  count,      (* the file count of the last reply: buffer[4], buffer[5]    *)
  \* history of the command in progress
  everUp, alwaysUp   (* links that were up at some, at every moment of it  *)

folder == <<kind, parent, opens>>
reply  == <<lan, iic, count>>
vars   == <<link, folder, pc, cmd, bx, t, reply, everUp, alwaysUp>>

Up == {l \in Links : link[l] = "up"}

Init ==
  /\ link \in [Links -> {"up", "down", "absent"}]
  /\ kind \in [Node -> Kinds] /\ kind[0] = "dir"
  /\ opens \in [Node -> BOOLEAN] /\ \A n \in Node : kind[n] # "dir" => opens[n]
  /\ parent \in [Node -> Node] /\ parent[0] = 0
  /\ \A n \in Node \ {0} : parent[n] < n /\ kind[parent[n]] = "dir"
  /\ pc = "read" /\ cmd = "version" /\ bx = 0 /\ t = 0
  /\ lan = 0 /\ iic = 0 /\ count = 0
  /\ everUp = {} /\ alwaysUp = {}

-----------------------------------------------------------------------------
(* connect_check(): one link after the other.                              *)

AskLinks(c) ==
  /\ pc = "read" /\ pc' = "eth0"
  /\ cmd' = c
  /\ everUp' = Up /\ alwaysUp' = Up
  /\ bx' = 0 /\ t' = 0
  /\ UNCHANGED <<link, folder, reply>>

CheckEth0 ==
  /\ pc = "eth0" /\ pc' = "eth1"
  /\ bx' = IF link["eth0"] = "up" THEN 1 ELSE 0
  /\ UNCHANGED <<link, folder, cmd, t, reply, everUp, alwaysUp>>

CheckEth1 ==
  /\ pc = "eth1" /\ pc' = "answer"
  /\ t' = IF link["eth1"] = "up" THEN 1 ELSE 0
  /\ UNCHANGED <<link, folder, cmd, bx, reply, everUp, alwaysUp>>

(* Both links; the second only; otherwise none.                            *)
EitherUp  == IF bx = 1 \/ t = 1 THEN 15 ELSE 0           \* mutant
NetStatue == IF bx = 1 /\ t = 1 THEN 15 ELSE IF t = 1 THEN 1 ELSE 0

(* The replies of 0x02 and 0x09; only the latter has an I2C status, which  *)
(* follows the links.                                                      *)
IicStatus(status) == IF status = 15 THEN 3 ELSE 0

AnswerHealth ==
  /\ cmd = "health" /\ pc = "answer" /\ pc' = "read"
  /\ lan' = NetStatue
  /\ UNCHANGED <<link, folder, cmd, bx, t, iic, count, everUp, alwaysUp>>

AnswerVersion ==
  /\ cmd = "version" /\ pc = "answer" /\ pc' = "read"
  /\ lan' = NetStatue /\ iic' = IicStatus(NetStatue)
  /\ UNCHANGED <<link, folder, cmd, bx, t, count, everUp, alwaysUp>>

-----------------------------------------------------------------------------
(* get_file_count(): the calls for all folders of the tree.                *)

In(d, k) == {n \in Node \ {0} : parent[n] = d /\ kind[n] = k}

FirstSubfolder(d) == IF In(d, "dir") = {} THEN {} ELSE {Min(In(d, "dir"))}   \* mutant
Subfolders(d)     == In(d, "dir")

(* errno is cleared when a folder is opened and tested when it has been    *)
(* read to its end: it then shows how the last call for a subfolder ended. *)
LastFails(d) == Subfolders(d) # {} /\ ~opens[Max(Subfolders(d))]

(* What the call for a folder returns; 0xffff when it cannot be opened.    *)
Unopened == 65535
Total(folder0) ==
  LET total[d \in Node] ==
        IF opens[d]
        THEN Cardinality(In(d, "reg")) + MapThenSumSet(LAMBDA s : total[s], Subfolders(d))
        ELSE Unopened
  IN  total[folder0]

(* With errno set the process exits, in whichever call finds it so.        *)
Exits(folder0) ==
  LET exits[d \in Node] == opens[d] /\ (LastFails(d) \/ \E s \in Subfolders(d) : exits[s])
  IN  exits[folder0]

(* 0x10: two bytes of the total are sent, or the process is gone.          *)
Whole(total) == total                                   \* mutant
Sent(total)  == total % 65536

CountFiles ==
  /\ pc = "read" /\ cmd' = "files"
  /\ IF Exits(0) THEN pc' = "exited" /\ count' = count
                 ELSE pc' = "read" /\ count' = Sent(Total(0))
  /\ UNCHANGED <<link, folder, bx, t, lan, iic, everUp, alwaysUp>>

-----------------------------------------------------------------------------
LinkChanges(l, state) ==
  /\ link' = [link EXCEPT ![l] = state]
  /\ everUp' = IF state = "up" THEN everUp \union {l} ELSE everUp
  /\ alwaysUp' = IF state = "up" THEN alwaysUp ELSE alwaysUp \ {l}
  /\ UNCHANGED <<folder, pc, cmd, bx, t, reply>>

Next == \/ \E c \in {"health", "version"} : AskLinks(c)
        \/ CheckEth0 \/ CheckEth1 \/ AnswerHealth \/ AnswerVersion \/ CountFiles
        \/ \E l \in Links, s \in {"up", "down", "absent"} : LinkChanges(l, s)

Spec == Init /\ [][Next]_vars

-----------------------------------------------------------------------------
(* Every variable keeps its type; a count fits the two bytes it is sent in.*)
TypeOK ==
  /\ link \in [Links -> {"up", "down", "absent"}]
  /\ kind \in [Node -> Kinds] /\ parent \in [Node -> Node] /\ opens \in [Node -> BOOLEAN]
  /\ pc \in {"read", "eth0", "eth1", "answer", "exited"}
  /\ cmd \in {"health", "version", "files"}
  /\ bx \in {0, 1} /\ t \in {0, 1}
  /\ lan \in {0, 1, 15} /\ iic \in {0, 3} /\ count \in Nat /\ count < 65536
  /\ everUp \subseteq Links /\ alwaysUp \subseteq Links

(* The two links are looked at one after the other, while they change: a   *)
(* reply still never claims a link that was down during the whole command, *)
(* and never leaves out one that was up during the whole of it.  (eth0     *)
(* alone is not shown: connect_check() has no code for it.)                *)
LinksHonest ==
  pc = "read" =>
    /\ lan = 15 => everUp = Links
    /\ lan = 1 => "eth1" \in everUp
    /\ "eth1" \in alwaysUp => lan # 0
    /\ alwaysUp = Links => lan = 15

(* When every folder can be opened, 0x10 is answered with the number of    *)
(* regular files in the whole tree.                                        *)
FilesCounted ==
  cmd = "files" /\ (\A n \in Node : opens[n]) =>
    /\ pc # "exited"
    /\ count = Cardinality({n \in Node : kind[n] = "reg"})
=============================================================================
