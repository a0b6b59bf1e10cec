---------------------------- MODULE SpotReports ----------------------------
(***************************************************************************)
(* What the parking server may rely on in the stream of messages of one    *)
(* spot, in the order the sensor queues them: vehicles enter and leave in  *)
(* turn, and an overstay is reported at most once for every entry, after   *)
(* it.  A spot that is removed takes its open stay with it: the next entry *)
(* belongs to a new incarnation of the spot.                               *)
(*                                                                         *)
(* The stay of an OVER report is the one whose time limit it is about.     *)
(***************************************************************************)
EXTENDS Naturals, Sequences

CONSTANTS Spots, Stays, Incarnations

VARIABLE reports    \* per spot, the sequence of reports queued so far

Report == [req : {"ENTER", "EXIT", "OVER"}, stay : Stays,
           incarnation : Incarnations]

Reported(s, r) == \E i \in DOMAIN reports[s] : reports[s][i] = r

\* The vehicle of stay k has entered this incarnation of the spot and not left.
Parked(s, k, n) ==
    /\ Reported(s, [req |-> "ENTER", stay |-> k, incarnation |-> n])
    /\ ~Reported(s, [req |-> "EXIT", stay |-> k, incarnation |-> n])

Add(s, r) == reports' = [reports EXCEPT ![s] = Append(@, r)]

\* A new stay, while no vehicle is parked in this incarnation of the spot.
Enter(s, k, n) ==
    /\ \A i \in DOMAIN reports[s] :
          /\ reports[s][i].stay < k
          /\ reports[s][i].incarnation <= n
          /\ ~Parked(s, reports[s][i].stay, n)
    /\ Add(s, [req |-> "ENTER", stay |-> k, incarnation |-> n])

\* The vehicle that is parked leaves.
Exit(s, k, n) ==
    /\ Parked(s, k, n)
    /\ Add(s, [req |-> "EXIT", stay |-> k, incarnation |-> n])

\* The time limit of a reported stay is exceeded, once.  The report may come
\* late, but not later than the spot's incarnation.
Over(s, k, n) ==
    /\ Reported(s, [req |-> "ENTER", stay |-> k, incarnation |-> n])
    /\ ~Reported(s, [req |-> "OVER", stay |-> k, incarnation |-> n])
    /\ \A i \in DOMAIN reports[s] : reports[s][i].incarnation <= n
    /\ Add(s, [req |-> "OVER", stay |-> k, incarnation |-> n])

Init == reports = [s \in Spots |-> <<>>]

Next ==
    \E s \in Spots, k \in Stays, n \in Incarnations :
        Enter(s, k, n) \/ Exit(s, k, n) \/ Over(s, k, n)

Spec == Init /\ [][Next]_reports
=============================================================================
