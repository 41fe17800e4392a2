---------------------------- MODULE MCRecorder -----------------------------
(* Model-checking instances of Recorder.                                   *)
EXTENDS Recorder

StartOnly == {"start"}
StartStop == {"start", "stop"}
AllCommands == {"start", "stop", "full"}

BothChannels == {0, 1}
Chan0Only == {0}
=============================================================================
