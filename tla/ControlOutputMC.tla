--------------------------- MODULE ControlOutputMC ---------------------------
(* Lines of every relation to the ring of ControlOutput.cfg: one byte, two,   *)
(* the longest allowed, and one that is too long.                             *)
EXTENDS ControlOutput

ShortAndLong == {<<1>>, <<2, 3>>, <<3, 1, 2>>, <<1, 1, 1, 1>>}
=============================================================================
