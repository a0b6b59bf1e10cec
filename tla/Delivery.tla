------------------------------ MODULE Delivery ------------------------------
(***************************************************************************)
(* What the upload path promises for the messages the sensor produces,     *)
(* whatever queue, disk and connection are in between: a message is kept   *)
(* until the server has it, and the server has every message in the end.   *)
(* The server may get a message again as long as the sensor keeps it.      *)
(***************************************************************************)
CONSTANT Messages

VARIABLES
    pending,     \* messages the sensor keeps
    delivered    \* messages the server has

vars == <<pending, delivered>>

TypeOK == pending \subseteq Messages /\ delivered \subseteq Messages

Init == pending = {} /\ delivered = {}

Submit(m) ==
    /\ m \notin pending \cup delivered
    /\ pending' = pending \cup {m}
    /\ UNCHANGED delivered

\* The server has the message, the sensor does not know yet.
Receive(m) ==
    /\ m \in pending
    /\ delivered' = delivered \cup {m}
    /\ UNCHANGED pending

\* The server has the message, and the sensor forgets it.
Acknowledge(m) ==
    /\ m \in pending
    /\ delivered' = delivered \cup {m}
    /\ pending' = pending \ {m}

Next == \E m \in Messages : Submit(m) \/ Receive(m) \/ Acknowledge(m)

Spec == /\ Init /\ [][Next]_vars
        /\ \A m \in Messages : WF_vars(Receive(m) \/ Acknowledge(m))
=============================================================================
