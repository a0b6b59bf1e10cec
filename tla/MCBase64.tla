------------------------------ MODULE MCBase64 ------------------------------
(***************************************************************************)
(* Base64 for TLC: pictures of up to five bytes, which end in a group of   *)
(* every length, over bytes whose bits tell every shift and mask apart.    *)
(***************************************************************************)
EXTENDS Base64
=============================================================================
