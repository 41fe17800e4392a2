--------------------------- MODULE MCChanStream ----------------------------
(* Model-checking instance of ChanStream: both channels, blocks of three   *)
(* units.                                                                  *)
EXTENDS ChanStream

BothChannels == {0, 1}
=============================================================================
