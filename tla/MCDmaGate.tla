----------------------------- MODULE MCDmaGate -----------------------------
(* Model-checking instance of DmaGate: the two receive threads of store.c, *)
(* chan0 and chan1, and a third caller to show that nothing rests on two.  *)
EXTENDS DmaGate

CONSTANTS chan0, chan1, spare

ThreeThreads == {chan0, chan1, spare}

UpToTwo == {1, 2}
AnyBuild == {TRUE, FALSE}
=============================================================================
