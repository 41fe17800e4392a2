---------------------------- MODULE SliceCycle -----------------------------
(***************************************************************************)
(* What the control loop and the two chan0 threads promise together: the   *)
(* data file and the index file of chan0 are cut into slices in step.  A   *)
(* thread opens at most one file in a slice, closes it when it hands the   *)
(* slice back, and neither begins the next slice before both have handed   *)
(* back theirs.                                                            *)
(***************************************************************************)
EXTENDS Naturals

CONSTANTS
  Followers,      (* the threads that write a file for each slice          *)
  MaxFileCount    (* slices that are opened at most                        *)

VARIABLES
  phase,    (* of each thread: "armed" (no file yet), "filing", "parked"   *)
  slices    (* slices opened so far                                        *)

Init ==
  /\ phase = [w \in Followers |-> "armed"]
  /\ slices = 1

OpenFile(w) ==
  /\ phase[w] = "armed"
  /\ phase' = [phase EXCEPT ![w] = "filing"]
  /\ UNCHANGED slices

(* A cut or a stop: with or without a file.                                *)
HandBack(w) ==
  /\ phase' = [phase EXCEPT ![w] = "parked"]
  /\ UNCHANGED slices

NextSlice ==
  /\ \A w \in Followers : phase[w] = "parked"
  /\ slices < MaxFileCount
  /\ phase' = [w \in Followers |-> "armed"]
  /\ slices' = slices + 1

Next == NextSlice \/ \E w \in Followers : OpenFile(w) \/ HandBack(w)

Spec == Init /\ [][Next]_<<phase, slices>>
=============================================================================
