--------------------------- MODULE MCVideoReader ---------------------------
(***************************************************************************)
(* VideoReader for TLC: an index of two seconds, a readAt that looks one   *)
(* second ahead, and a clock that may be set back far enough for the       *)
(* search of the index not to end.                                         *)
(***************************************************************************)
EXTENDS VideoReader
=============================================================================
