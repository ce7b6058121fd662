------------------------------ MODULE MCCapture ------------------------------
(* Small instances of Capture for TLC, with what comments and messages of    *)
(* the code say of it and a run refutes.                                     *)
EXTENDS Capture

\* AudioTape.cpp:213 "Get the latest audio chunks and write them to disk":
\* a stopped tape would leave no chunk in its queue.
NoAudioLeftBehind ==
  \A t \in Tape : tape[t].state = "Stopped" => tape[t].queued = 0

\* AudioTape.cpp:636 "No more events, the tape is ready": once a ready message was
\* sent for a tape, no event of it would be left to report.
ReadyIsLast ==
  \A t \in Tape : \A i \in DOMAIN tape[t].msgs :
    tape[t].msgs[i] = "ready" => i = Len(tape[t].msgs) \/ tape[t].msgs[i + 1] # "stop"

\* ImmediateProcessing.cpp:123 "is less than %d sec, discarding": a recording
\* would only be discarded when its duration, once known, is below the minimum.
DiscardedOnlyIfShort ==
  \A t \in Tape : tape[t].deleted > 0 /\ tape[t].keep /\ cap.tape # t => tape[t].short
=============================================================================
