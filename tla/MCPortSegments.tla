--------------------------- MODULE MCPortSegments ---------------------------
(* Instances of PortSegments for TLC: every plugin with segments by the clock;    *)
(* with voice activity one that has a port for a call and one that reuses it.     *)
EXTENDS PortSegments, TLC

MCCases == {"segments"} \X Plugin \cup {"vad"} \X {"voip", "generator"}

(* Statements that TLC refutes.                                                   *)

\* No sound of a call is missed (AddAudioChunk).
WholeCalls == \A m \in missed : m.call = 0

\* A recording carries the metadata of the call it began in (AddCaptureEvent).
OwnCallOnly == \A t \in DOMAIN tapes : tapes[t].uid[1] \in {0, tapes[t].call}

\* A recording is stopped once (AddCaptureEvent).
StoppedOnce ==
  \A t \in DOMAIN tapes : \A i, j \in DOMAIN tapes[t].msgs :
    tapes[t].msgs[i] = "stop" /\ tapes[t].msgs[j] = "stop" => i = j

\* After a stop nothing is recorded until the next start (CaptureEventCallBack).
StopsRecording == calls > 0 /\ session = "idle" => ~port.capturing

=============================================================================
