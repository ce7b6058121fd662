----------------------------- MODULE MCReporting -----------------------------
(* Small instances of Reporting for TLC, with what a comment of the code     *)
(* says of it and TLC refutes.                                               *)
EXTENDS Reporting, TLC

Symmetry == Permutations(Tracker) \cup Permutations(Sender)

\* The trackers share a host, as two services of one machine do.
OneHost == [k \in Tracker |-> CHOOSE h \in Server : TRUE]

\* TapeMsg.cpp:124 "Tape is wanted": capture would only be started for a tape
\* that the tracker did not reject.
StartedOnlyIfWanted ==
  \A k \in Tracker : \A i \in DOMAIN orders[k] :
    orders[k][i].what = "capture" => ~orders[k][i].delete
=============================================================================
