------------------------ MODULE MCEventStreaming ------------------------
(* A small instance of EventStreaming for TLC, and what it refutes. *)
EXTENDS EventStreaming

\* MultiThreadedServer.cpp:826 "Event streaming number of session exceeds 100": a client
\* would only be turned away while that many others are served.
TurnedAwayOnlyIfFull ==
  \A c \in Client : thread[c] = "leaving" /\ listening[c] /\ inHand[c] = <<>> =>
    Cardinality(sessions \ {c}) >= MaxSessions
=============================================================================
