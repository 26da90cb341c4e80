--------------------------- MODULE MCStreamQueue ---------------------------
(***************************************************************************)
(* The stream queue for TLC.  Blocks of one and of two bytes, so that a    *)
(* listener can be inside a block, at its end and between two blocks; the  *)
(* slack is less than the longest block, as 8000 is less than an Ogg page  *)
(* can be.  Listeners meet in shrink_pos alone, to which one listener can  *)
(* give every value that two can.                                          *)
(***************************************************************************)
EXTENDS StreamQueue

CONSTANT l1

OneListener == {l1}
TwoLens == {1, 2}
TwoBursts == {0, 2}
SmallSizes == {[burst |-> 2, min |-> 1, limit |-> 4]}
=============================================================================
