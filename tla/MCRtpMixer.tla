----------------------------- MODULE MCRtpMixer ------------------------------
(* A small instance of RtpMixer for TLC, with what one would say of the code *)
(* and a run refutes.                                                        *)
EXTENDS RtpMixer

\* RtpMixer.cpp:737 "save the payload in the respective channel buffer": every
\* sample mixed in would itself be in the file at the end, unless the buffer it
\* was in was filled to the last sample.
EverySampleFiled == phase = "done" /\ ~mixer.error => mixed \subseteq Filed \cup lost

\* RtpMixer.cpp:1025, UsedSpace: a full buffer would not look empty, and nothing
\* in it be lost.
FilledIsKept ==
  phase = "done" /\ ~mixer.error => \A s \in mixed : \E t \in Filed : StandsFor(t, s)

\* The same of the timestamps: what lies between them would lie between the pointers.
SpanIsUsed == mixer.writeTs - mixer.readTs = UsedSpace(mixer)
=============================================================================
