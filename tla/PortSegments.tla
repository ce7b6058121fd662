---------------------------- MODULE PortSegments ----------------------------
(***************************************************************************)
(* A capture port that divides what it hears into recordings by itself     *)
(* (CapturePort.cpp, CapturePluginProxy.cpp): by the clock with            *)
(* AudioSegmentation, by the level of the sound with VAD.  The starts of   *)
(* the plugin are ignored then, its stops obeyed; the other events of a    *)
(* call are kept in a backlog and repeated for every recording of the call.*)
(*                                                                         *)
(* One port and the immediate processing thread.  The callbacks of a port  *)
(* come one at a time; AddAudioChunk is taken apart around the loop of     *)
(* ReportEventBacklog.  What the immediate thread does in the middle of a  *)
(* callback, and what disk and queue limits do to a chunk, is in Capture.  *)
(***************************************************************************)
EXTENDS Integers, Sequences

CONSTANTS
  Cases,           \* the ways of dividing and the plugins in question, see Mode and Plugin
  SegmentDuration, \* AudioSegmentDuration
  HoldOn,          \* VadHoldOnSec, in chunks
  ExpireAfter,     \* silence after which a port is dismissed (IsExpired: 10 minutes)
  MaxTime,         \* bound of the model: the clock
  MaxCalls,        \* bound of the model: calls on the port
  MaxTapes,        \* bound of the model: recordings
  MaxUpdates       \* bound of the model: update events of a call

\* AudioSegmentation or VAD: Config::Validate refuses both together.
Mode == {"segments", "vad"}

\* "voip": a port of its own for every call.  "iax": calls after one another on one port, as
\* IAX2 call numbers and Sangoma ports are.  "generator": the same without metadata.
\* "sound": a device that sends audio whether a recording was asked for or not.
Plugin == {"voip", "iax", "generator", "sound"}
Reported(pl) == pl \in {"voip", "iax"}
Reuses(pl) == pl # "voip"

ASSUME SegmentsAssumption ==
  /\ Cases \subseteq Mode \X Plugin
  /\ SegmentDuration \in Nat \ {0} /\ HoldOn \in Nat /\ ExpireAfter \in Nat \ {0}
  /\ MaxTime \in Nat /\ MaxCalls \in Nat /\ MaxTapes \in Nat /\ MaxUpdates \in Nat

NoTape == 0
EventType == {"uid", "end", "update"}
\* Sound above VadHighThresholdDb, between the thresholds, below VadLowThresholdDb; audio
\* that cannot be decoded.
Level == {"high", "mid", "low", "unknown"}

VARIABLES
  mode,     \* CONFIG.m_audioSegmentation or m_vad
  plugin,   \* the source of the callbacks
  now,      \* the clock
  calls,    \* the number of the last call that began
  session,  \* what the plugin told of it: "idle", "starting", "named", "started"
  port,     \* the CapturePort, see NewPort
  tapes,    \* the AudioTapes begun, see NewTape
  step,     \* where AddAudioChunk is: "idle", at an event of the backlog, at its end
  missed    \* history: what audio was not recorded, see Miss

vars == <<mode, plugin, now, calls, session, port, tapes, step, missed>>

NewPort ==
  [tape |-> NoTape, capturing |-> FALSE, needSendStop |-> FALSE, vadUp |-> FALSE,
   below |-> 0, segmentNumber |-> 0, backlog |-> <<>>, lastUpdated |-> 0]

\* A tape with its start event queued.  call and told are history: the call it began in and
\* whether its metadata were at hand; waiting says m_chunkQueue is not empty.
NewTape ==
  [call |-> calls, told |-> \E i \in DOMAIN port.backlog : port.backlog[i].type = "end",
   begin |-> now, uid |-> <<0, 0>>, state |-> "Created", shouldStop |-> FALSE,
   waiting |-> FALSE, written |-> FALSE, isQueued |-> FALSE,
   toSend |-> <<"start">>, msgs |-> <<>>]

Idle == step = 0

Init ==
  /\ mode \in Mode /\ plugin \in Plugin /\ <<mode, plugin>> \in Cases
  /\ now = 0 /\ calls = 0 /\ session = "idle"
  /\ port = NewPort /\ tapes = <<>> /\ step = 0 /\ missed = {}

----------------------------------------------------------------------------
(* AudioTape::AddCaptureEvent with send = true and AudioTape::GetMessage.    *)

Push(tp, e) == [tp EXCEPT !.toSend = Append(@, e)]

Stage(tp) == IF tp.toSend # <<>> THEN Head(tp.toSend)
             ELSE IF tp.written THEN "ready" ELSE "blank"

Send(tp) == [tp EXCEPT !.msgs = Append(@, Stage(tp)),
                       !.toSend = IF @ = <<>> THEN @ ELSE Tail(@)]

\* ImmediateProcessing::AddAudioTape
Schedule(tp) == [tp EXCEPT !.isQueued = TRUE]

StopTape_Unscheduled(tp) == Send(Push([tp EXCEPT !.shouldStop = TRUE], "stop"))

\* CapturePort::AddCaptureEvent of a stop, on the tape and on the port.
StopTape(tp) == Schedule(Send(Push([tp EXCEPT !.shouldStop = TRUE], "stop")))
StopPort(pt) == [pt EXCEPT !.capturing = FALSE, !.needSendStop = FALSE]

\* CapturePort::AddCaptureEvent of a metadata event, on the tape and on the port.
OnTape(tp, e) ==
  CASE e.type = "uid" -> [tp EXCEPT !.uid = e.uid]
    [] e.type = "end" -> Send(tp)
    [] e.type = "update" -> Send(Push(tp, "update"))

OnPort(pt, e) == [pt EXCEPT !.needSendStop = @ \/ (e.type = "end" /\ pt.tape # NoTape)]

\* The port's tape after f, if it has one.
PortTape(f(_)) ==
  IF port.tape = NoTape THEN tapes ELSE [tapes EXCEPT ![port.tape] = f(@)]

callVars == <<mode, plugin, calls, session>>

----------------------------------------------------------------------------
(* CapturePluginProxy::CaptureEventCallBack                                  *)

\* A start: the port exists from now on, and hears of nothing.
StartCall ==
  /\ Idle /\ session = "idle"
  /\ calls < MaxCalls /\ (calls > 0 => Reuses(plugin))
  /\ calls' = calls + 1
  /\ session' = IF Reported(plugin) THEN "starting" ELSE "started"
  /\ UNCHANGED <<mode, plugin, now, port, tapes, step, missed>>

\* Any other event but a stop: queued for the recordings to come, and handled by the one
\* the port has.
Event(type) ==
  LET e == [type |-> type, uid |-> <<calls, 0>>] IN
  /\ tapes' = PortTape(LAMBDA tp : OnTape(tp, e))
  /\ port' = [OnPort(port, e) EXCEPT !.backlog = Append(@, e), !.lastUpdated = now]
  /\ UNCHANGED <<mode, plugin, now, calls, step, missed>>

\* ReportMetadata, of which the identifier and the end matter here.
ReportUid == Idle /\ session = "starting" /\ session' = "named" /\ Event("uid")
ReportEnd == Idle /\ session = "named" /\ session' = "started" /\ Event("end")

ReportUpdate ==
  /\ Idle /\ session = "started" /\ Reported(plugin)
  /\ Len(port.backlog) < MaxUpdates + 2
  /\ UNCHANGED session
  /\ Event("update")

StopCall_KeepsBacklog ==
  /\ Idle /\ session = "started"
  /\ session' = "idle"
  /\ tapes' = PortTape(StopTape)
  /\ port' = [IF port.tape = NoTape THEN port ELSE StopPort(port)
                EXCEPT !.lastUpdated = now]
  /\ UNCHANGED <<mode, plugin, now, calls, step, missed>>

\* A stop: the backlog is cleared; the stopped tape stays with the port.
StopCall ==
  /\ Idle /\ session = "started"
  /\ session' = "idle"
  /\ tapes' = PortTape(StopTape)
  /\ port' = [IF port.tape = NoTape THEN port ELSE StopPort(port)
                EXCEPT !.backlog = <<>>, !.lastUpdated = now]
  /\ UNCHANGED <<mode, plugin, now, calls, step, missed>>

----------------------------------------------------------------------------
(* CapturePort::AddAudioChunk                                                *)

Talking == session = "started" \/ plugin = "sound"

BeginTape_StopLast(pt, before) ==
  /\ Len(tapes) < MaxTapes
  /\ tapes' = Append(before, NewTape)
  /\ port' = [StopPort(pt) EXCEPT !.tape = Len(tapes) + 1, !.lastUpdated = now]
  /\ step' = 1
  /\ UNCHANGED missed

\* A recording begins: the stop of the one before has been handled, the start event makes
\* the tape the port's, and the backlog is next.
BeginTape(pt, before) ==
  /\ Len(tapes) < MaxTapes
  /\ tapes' = Append(before, NewTape)
  /\ port' = [pt EXCEPT !.capturing = TRUE, !.tape = Len(tapes) + 1, !.lastUpdated = now]
  /\ step' = 1
  /\ UNCHANGED missed

\* The last lines of AddAudioChunk, for a chunk that may be worth recording.
GoesOn(pt) ==
  /\ port' = [pt EXCEPT !.lastUpdated = now]
  /\ step' = Len(pt.backlog) + 1
  /\ UNCHANGED tapes

Behind == IF port.tape # NoTape /\ tapes[port.tape].shouldStop THEN tapes[port.tape].call ELSE -1

\* What is missed: in which call (0: in none) and behind the stopped tape of which call
\* (0: of none, begun by sound alone; -1: behind no stopped tape).
Miss(worth) ==
  missed' = missed \cup
    IF worth /\ ~port.capturing
    THEN {[call |-> IF session = "started" THEN calls ELSE 0, behind |-> Behind]} ELSE {}

\* Old enough to be replaced by the next segment.
Due == now - tapes[port.tape].begin >= SegmentDuration

ChunkSegments ==
  \/ /\ port.tape = NoTape
     /\ BeginTape(port, tapes)
  \/ /\ port.tape # NoTape /\ Due
     /\ BeginTape(StopPort(port), PortTape(StopTape))
  \/ /\ port.tape # NoTape /\ ~Due
     /\ Miss(TRUE)
     /\ GoesOn(port)

Quieter(level) == IF level = "low" THEN port.below + 1 ELSE 0

ChunkVadUp(level) ==
  /\ port.vadUp
  /\ \/ /\ level = "unknown"
        /\ Miss(FALSE) /\ GoesOn(port)
     \/ /\ level # "unknown" /\ Quieter(level) <= HoldOn
        /\ Miss(level # "low") /\ GoesOn([port EXCEPT !.below = Quieter(level)])
     \/ /\ level # "unknown" /\ Quieter(level) > HoldOn
        /\ tapes' = PortTape(StopTape)
        /\ port' = [StopPort(port) EXCEPT !.vadUp = FALSE, !.below = Quieter(level),
                                          !.tape = NoTape, !.lastUpdated = now]
        /\ UNCHANGED <<step, missed>>

ChunkVadDown(level) ==
  LET up == [port EXCEPT !.vadUp = TRUE, !.below = 0] IN
  /\ ~port.vadUp
  /\ \/ /\ level = "high" /\ port.tape = NoTape
        /\ BeginTape(up, tapes)
     \/ /\ ~(level = "high" /\ port.tape = NoTape)
        /\ Miss(level = "high")
        /\ GoesOn(IF level = "high" THEN up ELSE port)

Chunk(level) ==
  /\ Idle /\ Talking
  /\ \/ mode = "segments" /\ ChunkSegments
     \/ mode = "vad" /\ (ChunkVadUp(level) \/ ChunkVadDown(level))
  /\ UNCHANGED <<callVars, now>>

\* One round of ReportEventBacklog: the identifier is numbered.
Replay ==
  /\ step \in DOMAIN port.backlog
  /\ LET e == port.backlog[step]
         n == port.segmentNumber + 1
         f == IF e.type = "uid" THEN [e EXCEPT !.uid = <<@[1], n>>] ELSE e
     IN /\ tapes' = PortTape(LAMBDA tp : OnTape(tp, f))
        /\ port' = [OnPort(port, f) EXCEPT !.segmentNumber = IF e.type = "uid" THEN n ELSE @]
  /\ step' = step + 1
  /\ UNCHANGED <<callVars, now, missed>>

\* AudioTape::AddAudioChunk, which a tape that was closed refuses.
Take(tp) == [tp EXCEPT !.waiting = @ \/ tp.state # "Stopped"]

AddChunk ==
  /\ step = Len(port.backlog) + 1
  /\ tapes' = IF port.capturing THEN PortTape(LAMBDA tp : Schedule(Take(tp))) ELSE tapes
  /\ step' = 0
  /\ UNCHANGED <<callVars, now, port, missed>>

----------------------------------------------------------------------------
\* AudioTape::Write: what was queued is written, a tape that was told to stop is closed.
Written(tp) ==
  [tp EXCEPT !.isQueued = FALSE, !.waiting = FALSE, !.written = @ \/ tp.waiting,
             !.state = IF tp.shouldStop THEN "Stopped"
                       ELSE IF tp.waiting THEN "Active" ELSE @]

\* ImmediateProcessing::Pop and the work on a tape that was scheduled.
Write(t) ==
  /\ tapes[t].isQueued
  /\ tapes' = [tapes EXCEPT ![t] = Written(@)]
  /\ UNCHANGED <<callVars, now, port, step, missed>>

Expired ==
  /\ now - port.lastUpdated > ExpireAfter
  /\ port.tape # NoTape => tapes[port.tape].state # "Active"

\* CapturePorts::Hoover and CapturePort::Finalize: with a stop message due the tape is
\* stopped and reported once more.  The immediate thread lags less than ten minutes.
Expire ==
  /\ Idle /\ session \in {"idle", "started"} /\ port # NewPort
  /\ Expired
  /\ port.tape # NoTape => ~tapes[port.tape].isQueued
  /\ tapes' = IF port.needSendStop THEN PortTape(LAMBDA tp : Send(StopTape(tp))) ELSE tapes
  /\ port' = NewPort
  /\ UNCHANGED <<callVars, now, step, missed>>

Tick ==
  /\ Idle /\ now < MaxTime
  /\ now' = now + 1
  /\ UNCHANGED <<callVars, port, tapes, step, missed>>

Next ==
  \/ StartCall \/ ReportUid \/ ReportEnd \/ ReportUpdate \/ StopCall
  \/ \E level \in Level : Chunk(level)
  \/ Replay \/ AddChunk
  \/ \E t \in DOMAIN tapes : Write(t)
  \/ Expire \/ Tick

Spec == Init /\ [][Next]_vars

----------------------------------------------------------------------------
Stages == {"start", "update", "stop", "ready", "blank"}
EventRecord == [type : EventType, uid : Nat \X Nat]
TapeRecord ==
  [call : Nat, told : BOOLEAN, begin : Nat, uid : Nat \X Nat,
   state : {"Created", "Active", "Stopped"}, shouldStop : BOOLEAN, waiting : BOOLEAN,
   written : BOOLEAN, isQueued : BOOLEAN, toSend : Seq(Stages), msgs : Seq(Stages)]
PortRecord ==
  [tape : Nat, capturing : BOOLEAN, needSendStop : BOOLEAN, vadUp : BOOLEAN, below : Nat,
   segmentNumber : Nat, backlog : Seq(EventRecord), lastUpdated : Nat]

\* The port refers to a tape that exists; every tape and event is one.
TypeOK ==
  /\ mode \in Mode /\ plugin \in Plugin
  /\ now \in Nat /\ calls \in Nat /\ step \in Nat
  /\ session \in {"idle", "starting", "named", "started"}
  /\ port \in PortRecord /\ port.tape \in 0 .. Len(tapes)
  /\ tapes \in Seq(TapeRecord)
  /\ missed \subseteq [call : Nat, behind : Int]

WillClose(tp) == tp.shouldStop /\ (tp.isQueued \/ tp.state = "Stopped")

\* Every recording that is not the port's any more, because the clock, silence, the next
\* call or the hoover ended it, was told to stop and is closed or about to be: none is left
\* open for ever, as a recording that a plugin's start replaces is (AddAudioChunk).
SegmentsClosed ==
  \A t \in DOMAIN tapes : t # port.tape => WillClose(tapes[t])

\* No sound of a call is missed, be it at the seam of two segments or while the level rises
\* and falls, except behind the stopped tape that an earlier call left with the port; and
\* outside of calls only behind a stopped tape (AddAudioChunk, m_capturing).
MissedOnlyBehind ==
  \A m \in missed : m.behind >= 0 /\ (m.call > 0 => m.behind < m.call)

\* How a recording that the port divides off is told: under a numbered identifier of its
\* call, by its start, its updates, at last its stop, each once.
Told(tp) ==
  LET ends == IF tp.shouldStop THEN 1 ELSE 0
      n == Len(tp.msgs)
  IN /\ tp.uid[1] = tp.call /\ tp.uid[2] > 0
     /\ tp.toSend = <<>>
     /\ tp.msgs # <<>> /\ Head(tp.msgs) = "start"
     /\ \A i \in 2 .. n - ends : tp.msgs[i] = "update"
     /\ ends = 1 => n > 1 /\ tp.msgs[n] = "stop"

\* The recordings begun while the port knew the call's metadata, ReportEventBacklog being
\* done with them.  On a port used again the last one falls to the next call.
Settled ==
  {t \in DOMAIN tapes : /\ tapes[t].told
                        /\ Idle \/ t # port.tape
                        /\ plugin = "voip" \/ tapes[t].call = calls}

\* However a call is divided, every recording of it carries the call's metadata under an
\* identifier of its own and its messages tell its story in order; what the backlog kept of
\* an earlier call has no part in it (ReportEventBacklog, ClearEventQueue).
OwnStory ==
  \A t \in Settled :
    /\ Told(tapes[t])
    /\ \A u \in Settled : u # t => tapes[u].uid # tapes[t].uid

=============================================================================
