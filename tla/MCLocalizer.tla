---------------------------- MODULE MCLocalizer ----------------------------
(***************************************************************************)
(* Localizer for TLC: two spots side by side on a strip, and boxes that    *)
(* fill them, lie between them, contain or touch them.                     *)
(***************************************************************************)
EXTENDS Localizer

MCROI ==
    <<[x |-> 1, y |-> 0, width |-> 3, height |-> 3],
      [x |-> 4, y |-> 0, width |-> 3, height |-> 3]>>

MCXLines == {<<0, 2>>, <<0, 4>>, <<1, 3>>, <<2, 4>>, <<2, 5>>, <<3, 6>>}

MCYLines == {<<0, 2>>, <<1, 2>>, <<1, 3>>}
=============================================================================
