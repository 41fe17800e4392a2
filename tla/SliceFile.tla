----------------------------- MODULE SliceFile -----------------------------
(***************************************************************************)
(* What a receive thread promises of its files, with no buffer, no DMA and *)
(* no padding: the units drained from the FIFO are appended to the file of *)
(* the slice, one by one and in order; a cut makes exactly those the file; *)
(* a stop, or a write that fails, may cost the end of it, and then fewer   *)
(* than Block units.  A stop may also remove the file, the open one or the *)
(* one finished last; nothing else happens to a finished file.             *)
(***************************************************************************)
EXTENDS Naturals, Sequences

CONSTANT Block   (* units in one write: IFD_WRITE_MN / DMA_SIZE            *)

VARIABLES
  next,    (* number of the next unit in the FIFO                          *)
  isOpen,  (* a slice file is open                                         *)
  cur,     (* its units                                                    *)
  last,    (* the units of the file finished last, <<>> once it is removed *)
  lost     (* writes that failed                                           *)

vars == <<next, isOpen, cur, last, lost>>

Init ==
  /\ next = 0 /\ isOpen = FALSE /\ cur = <<>> /\ last = <<>> /\ lost = 0

(* s without its end, of fewer than Block units.                           *)
Shortened(s) == {SubSeq(s, 1, n) : n \in {m \in 0 .. Len(s) : Len(s) < m + Block}}

Open ==
  /\ ~isOpen
  /\ isOpen' = TRUE
  /\ UNCHANGED <<next, cur, last, lost>>

Append1 ==
  /\ isOpen
  /\ cur' = Append(cur, next) /\ next' = next + 1
  /\ UNCHANGED <<isOpen, last, lost>>

(* A write fails: the end of the file is missing, and with it the unit     *)
(* whose arrival completed the block, if one did.                          *)
LoseEnd ==
  /\ isOpen
  /\ cur' \in Shortened(cur)
  /\ next' \in {next, next + 1} /\ lost' = lost + 1
  /\ UNCHANGED <<isOpen, last>>

(* With no file open a unit goes nowhere.                                  *)
Discard ==
  /\ ~isOpen
  /\ next' = next + 1
  /\ UNCHANGED <<isOpen, cur, last, lost>>

Done(content) == last' = content /\ cur' = <<>> /\ UNCHANGED next

(* The cut: the file is what was drained during the slice, unless the      *)
(* write of its end fails.                                                 *)
Finish ==
  /\ isOpen
  /\ \/ Done(cur) /\ UNCHANGED lost
     \/ lost' = lost + 1 /\ \E s \in Shortened(cur) : Done(s)
  /\ isOpen' = FALSE

(* The stop (or a second start): the unwritten end is given up, or, the    *)
(* companion file being empty, the whole file is removed.                  *)
GiveUp ==
  /\ isOpen
  /\ \E s \in Shortened(cur) \union {<<>>} : Done(s)
  /\ isOpen' \in BOOLEAN /\ UNCHANGED lost

(* A stop that finds the slice's file finished already, and the companion  *)
(* file empty, removes it all the same.                                    *)
Remove ==
  /\ ~isOpen
  /\ last' = <<>>
  /\ UNCHANGED <<next, isOpen, cur, lost>>

Next == Open \/ Append1 \/ LoseEnd \/ Discard \/ Finish \/ GiveUp \/ Remove

Spec == Init /\ [][Next]_vars
=============================================================================
