------------------------------ MODULE MCBoot -------------------------------
(* Model-checking instances of Boot.                                       *)
EXTENDS Boot

StartStop == {"start", "stop"}

NoChannel == {}
BothChannels == {0, 1}
=============================================================================
