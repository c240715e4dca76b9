--------------------------- MODULE MCFrameReader ---------------------------
(***************************************************************************)
(* An instance of FrameReader for TLC: lines of at most two bytes, read by *)
(* two bytes at a time, and streams long enough for a line that is too     *)
(* long between others.                                                    *)
(***************************************************************************)
EXTENDS FrameReader
=============================================================================
