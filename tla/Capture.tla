------------------------------- MODULE Capture -------------------------------
(***************************************************************************)
(* From a capture plugin's callbacks to a closed recording: the capture    *)
(* ports (CapturePort.cpp), the tapes they fill (AudioTape.cpp) and the    *)
(* immediate processing thread that writes them to disk                    *)
(* (ImmediateProcessing.cpp).                                              *)
(*                                                                         *)
(* Two threads share the tapes.  The capture side is one thread at a time: *)
(* a plugin serialises its callbacks (VoIp.cpp, s_mutex).  The immediate   *)
(* thread pops a tape, drains its chunks and closes it when it was asked   *)
(* to stop.  Each action below is the code between two points at which the *)
(* other thread can see or change something: a critical section of         *)
(* AudioTape::m_mutex or ImmediateProcessing::m_mutex, or one unlocked     *)
(* access to a flag of the tape (m_state, m_shouldStop, m_duration).  The  *)
(* processors behind RunProcessingChain are the set "chain" here.          *)
(***************************************************************************)
EXTENDS Naturals, Sequences, FiniteSets

CONSTANTS
  Port,                \* the capture ports a plugin reports on
  MaxTapes,            \* bound of the model: tapes created
  MaxChunks,           \* bound of the model: audio chunks reported
  MaxNotes,            \* bound of the model: hold, resume, update and keep events
  QueueLimit,          \* chunks a tape queues before it rejects (CaptureFileBatchSizeKByte * 3)
  SizeLimit,           \* chunks written after which a tape ignores new data (CaptureFileSizeLimitKb)
  TapeDurationMinimum, \* TRUE iff TapeDurationMinimumSec > 0
  HoldResumeReportEvents, \* the configuration flag of that name
  SendsEndMetadata,    \* TRUE for the VoIP plugin, FALSE for the generator
  MayRestart,          \* TRUE iff the plugin may report a start on a started port
  MayExpire,           \* TRUE iff CapturePorts::Hoover may dismiss a port
  DiskMayFail,         \* TRUE iff opening or writing the capture file may throw
  MayShutDown          \* TRUE iff the daemon may be told to stop

ASSUME CaptureAssumption ==
  /\ IsFiniteSet(Port) /\ Port # {}
  /\ MaxTapes \in Nat /\ MaxChunks \in Nat /\ MaxNotes \in Nat
  /\ QueueLimit \in Nat \ {0} /\ SizeLimit \in Nat
  /\ TapeDurationMinimum \in BOOLEAN /\ HoldResumeReportEvents \in BOOLEAN
  /\ SendsEndMetadata \in BOOLEAN /\ MayRestart \in BOOLEAN
  /\ MayExpire \in BOOLEAN /\ DiskMayFail \in BOOLEAN /\ MayShutDown \in BOOLEAN

Tape == 1..MaxTapes
NoTape == 0
Event == {"start", "stop", "update", "hold", "resume"}   \* the events with send = true
Stage == Event \cup {"ready", "blank"}                   \* TapeMsg::m_stage

VARIABLES
  port,      \* CapturePort objects: m_capturing, m_needSendStop, m_audioTapeRef
  tape,      \* AudioTape objects, see NewTape
  made,      \* how many tapes were created: tapes 1..made exist
  session,   \* what the plugin told each port last (protocol of the callbacks)
  cap,       \* the capture thread: where it is, in which callback
  immQueue,  \* ImmediateProcessing::m_audioTapeQueue
  immSem,    \* ImmediateProcessing::m_semaphore
  imm,       \* the immediate thread: where it is, with which tape
  chain,     \* tapes handed to the processing chain, not reported yet
  chunks,    \* how many chunks the plugin reported
  notes,     \* how many hold, resume, update and keep events it reported
  stopping   \* Daemon::IsStopping()

vars == <<port, tape, made, session, cap, immQueue, immSem, imm, chain, chunks, notes, stopping>>

\* The first port of the model, where a value is needed but not looked at.
AnyPort == CHOOSE p \in Port : TRUE

\* A tape as its constructor leaves it, on port p.  queued counts m_chunkQueue, written
\* the chunks in m_bytesWritten, toSend is m_toSendEventQueue, short says
\* m_duration < TapeDurationMinimumSec (m_duration starts at 0).  The last
\* three fields are history: the stages of the messages sent for the tape, how
\* often it was given to the chain, and how often its file was deleted.
NewTape(p) ==
  [port |-> p, state |-> "Created", shouldStop |-> FALSE, short |-> TRUE, keep |-> TRUE,
   held |-> FALSE, queued |-> 0, written |-> 0, toSend |-> <<>>, isQueued |-> FALSE,
   ready |-> FALSE, file |-> FALSE,
   msgs |-> <<>>, handed |-> 0, deleted |-> 0]

NewPort == [capturing |-> FALSE, needSendStop |-> FALSE, tape |-> NoTape]

IdleCap == [pc |-> "idle", port |-> AnyPort, tape |-> NoTape, final |-> FALSE]

Init ==
  /\ port = [p \in Port |-> NewPort]
  /\ tape = [t \in Tape |-> NewTape(AnyPort)]
  /\ made = 0
  /\ session = [p \in Port |-> "idle"]
  /\ cap = IdleCap
  /\ immQueue = <<>>
  /\ immSem = 0
  /\ imm = [pc |-> "acquire", tape |-> NoTape]
  /\ chain = {}
  /\ chunks = 0
  /\ notes = 0
  /\ stopping = FALSE

-----------------------------------------------------------------------------
(* A definition named X_Y is X with a plausible mistake Y in it: it takes no *)
(* part in the specification, and serves to see that a property notices.     *)

(* AudioTape::AddCaptureEvent with send = true, and AudioTape::GetMessage   *)
(* followed by Reporting::AddMessage, on the record of one tape.            *)

Pushed(tp, e) == [tp EXCEPT !.toSend = Append(@, e)]

\* The oldest unsent event names the stage; with none left the tape is ready,
\* or the message stays blank when nothing was written.
NextStage(tp) ==
  IF tp.toSend # <<>> THEN Head(tp.toSend)
  ELSE IF tp.written > 0 THEN "ready" ELSE "blank"

Reported_KeepsEvent(tp) == [tp EXCEPT !.msgs = Append(@, NextStage(tp))]

Reported(tp) ==
  [tp EXCEPT !.msgs = Append(@, NextStage(tp)),
             !.toSend = IF @ = <<>> THEN @ ELSE Tail(@)]

Schedule_NotStopping(t) ==
  /\ immSem' = immSem + 1
  /\ IF tape[t].isQueued \/ tape[t].shouldStop
     THEN UNCHANGED <<immQueue, tape>>
     ELSE /\ immQueue' = Append(immQueue, t)
          /\ tape' = [tape EXCEPT ![t].isQueued = TRUE]

Schedule_NoRelease(t) ==
  /\ UNCHANGED immSem
  /\ IF tape[t].isQueued
     THEN UNCHANGED <<immQueue, tape>>
     ELSE /\ immQueue' = Append(immQueue, t)
          /\ tape' = [tape EXCEPT ![t].isQueued = TRUE]

\* ImmediateProcessing::Push: a tape is queued once, the semaphore released
\* on every call.
Schedule(t) ==
  /\ immSem' = immSem + 1
  /\ IF tape[t].isQueued
     THEN UNCHANGED <<immQueue, tape>>
     ELSE /\ immQueue' = Append(immQueue, t)
          /\ tape' = [tape EXCEPT ![t].isQueued = TRUE]

immVars == <<immQueue, immSem, imm, chain>>
idle == cap.pc = "idle"

-----------------------------------------------------------------------------
(* The capture thread: CapturePort::AddCaptureEvent and AddAudioChunk.      *)

\* A session is under way: the plugin has reported its metadata, which the
\* generator never does.
Running(p) == session[p] = "started" \/ (session[p] = "starting" /\ ~SendsEndMetadata)

\* No other callback comes between a VoIP session's start and the end of its
\* metadata.
NoneStarting == SendsEndMetadata => \A p \in Port : session[p] # "starting"

\* SetShouldStop on the tape a new start replaces.
Superseded(tp) == [tp EXCEPT !.shouldStop = TRUE]

\* EtStart: the previous tape is told to stop, a new one takes its place and
\* queues its start event.
Start(p) ==
  /\ idle /\ NoneStarting
  /\ session[p] = "idle" \/ (MayRestart /\ Running(p))
  /\ made < MaxTapes
  /\ LET old == port[p].tape
         new == made + 1
     IN /\ made' = new
        /\ tape' = [t \in Tape |-> IF t = new THEN Pushed(NewTape(p), "start")
                                   ELSE IF t = old THEN Superseded(tape[t])
                                   ELSE tape[t]]
        /\ port' = [port EXCEPT ![p].capturing = TRUE, ![p].tape = new]
  /\ session' = [session EXCEPT ![p] = "starting"]
  /\ UNCHANGED <<cap, chunks, notes, stopping, immVars>>

StartReported_NoStopDue(pt) == pt

\* A stop message is due for the port from now on.
StartReported(pt) == [pt EXCEPT !.needSendStop = TRUE]

\* EtEndMetadata: the start message goes out (ReportMetadata ends with it, in
\* the same hold of the plugin's lock as the start).
EndMetadata(p) ==
  /\ idle
  /\ SendsEndMetadata
  /\ session[p] = "starting"
  /\ session' = [session EXCEPT ![p] = "started"]
  /\ IF port[p].tape = NoTape
     THEN UNCHANGED <<tape, port>>
     ELSE /\ tape' = [tape EXCEPT ![port[p].tape] = Reported(@)]
          /\ port' = [port EXCEPT ![p] = StartReported(@)]
  /\ UNCHANGED <<made, cap, chunks, notes, stopping, immVars>>

\* One hold, resume, update or "Keep" event for a port with a tape.  Event
\* push and message are one step: nobody else sends messages of a tape that
\* has not been stopped.
Note(p) ==
  /\ idle /\ NoneStarting /\ Running(p)
  /\ notes < MaxNotes
  /\ port[p].tape # NoTape
  /\ notes' = notes + 1
  /\ UNCHANGED <<port, made, session, cap, chunks, stopping, immVars>>

Sent(tp, e) == Reported(Pushed(tp, e))

\* EtHold
Hold(p) ==
  LET t == port[p].tape IN
  /\ Note(p)
  /\ ~tape[t].held
  /\ tape' = [tape EXCEPT ![t] =
                [IF HoldResumeReportEvents THEN Sent(@, "hold") ELSE @ EXCEPT !.held = TRUE]]

\* EtResume: without a hold before it, it is not reported.
Resume(p) ==
  LET t == port[p].tape IN
  /\ Note(p)
  /\ tape' = [tape EXCEPT ![t] =
                [IF HoldResumeReportEvents /\ @.held THEN Sent(@, "resume") ELSE @
                   EXCEPT !.held = FALSE]]

\* EtUpdate
Update(p) ==
  /\ Note(p)
  /\ tape' = [tape EXCEPT ![port[p].tape] = Sent(@, "update")]

\* EtKeyValue with key "Keep", stored with send = false
Keep(p, wanted) ==
  /\ Note(p)
  /\ tape' = [tape EXCEPT ![port[p].tape].keep = wanted]

\* AddAudioChunk: m_state is read before the tape's lock is taken; a stopped
\* tape takes no chunk but is scheduled all the same.
ChunkIn(p) ==
  /\ idle /\ NoneStarting /\ Running(p)
  /\ chunks < MaxChunks
  /\ port[p].tape # NoTape /\ port[p].capturing
  /\ chunks' = chunks + 1
  /\ cap' = [cap EXCEPT !.pc = IF tape[port[p].tape].state \in {"Created", "Active"}
                               THEN "chunk" ELSE "schedule",
                        !.port = p, !.tape = port[p].tape]
  /\ UNCHANGED <<port, tape, made, session, notes, stopping, immVars>>

\* The disk lags behind: m_chunkQueueDataSize has reached its limit.
Full(tp) == tp.queued >= QueueLimit

\* AddAudioChunk under the lock: the chunk is queued unless the disk lags.
ChunkQueue ==
  /\ cap.pc = "chunk"
  /\ \/ /\ ~Full(tape[cap.tape])
        /\ tape' = [tape EXCEPT ![cap.tape].queued = @ + 1]
     \/ /\ Full(tape[cap.tape])
        /\ UNCHANGED tape
  /\ cap' = [cap EXCEPT !.pc = "schedule"]
  /\ UNCHANGED <<port, made, session, chunks, notes, stopping, immVars>>

PortStopped_GoesOn(pt) == pt

\* The port takes no more audio.
PortStopped(pt) == [pt EXCEPT !.capturing = FALSE]

\* EtStop, first of its steps: capture ends and the tape is told to stop
\* before its duration is known and its stop event queued.
StopFlag(p, final) ==
  LET t == port[p].tape IN
  /\ port' = [port EXCEPT ![p] = PortStopped(@)]
  /\ tape' = [tape EXCEPT ![t].shouldStop = TRUE]
  /\ cap' = [pc |-> "duration", port |-> p, tape |-> t, final |-> final]
  /\ UNCHANGED <<made, chunks, notes, stopping, immVars>>

Stop(p) ==
  /\ idle /\ NoneStarting /\ Running(p)
  /\ session' = [session EXCEPT ![p] = "idle"]
  /\ \/ /\ port[p].tape # NoTape
        /\ StopFlag(p, FALSE)
     \/ /\ port[p].tape = NoTape
        /\ UNCHANGED <<port, tape, made, cap, chunks, notes, stopping, immVars>>

\* m_duration from the stop event's timestamp: either side of the minimum.
StopDuration ==
  /\ cap.pc = "duration"
  /\ \E short \in BOOLEAN : tape' = [tape EXCEPT ![cap.tape].short = short]
  /\ cap' = [cap EXCEPT !.pc = "event"]
  /\ UNCHANGED <<port, made, session, chunks, notes, stopping, immVars>>

StopEvent ==
  /\ cap.pc = "event"
  /\ tape' = [tape EXCEPT ![cap.tape] = Pushed(@, "stop")]
  /\ cap' = [cap EXCEPT !.pc = "message"]
  /\ UNCHANGED <<port, made, session, chunks, notes, stopping, immVars>>

\* The next unsent message goes to Reporting: meant to be the stop message.
StopMessage ==
  /\ cap.pc = "message"
  /\ tape' = [tape EXCEPT ![cap.tape] = Reported(@)]
  /\ port' = [port EXCEPT ![cap.port].needSendStop = FALSE]
  /\ cap' = [cap EXCEPT !.pc = "schedule"]
  /\ UNCHANGED <<made, session, chunks, notes, stopping, immVars>>

\* ImmediateProcessing::AddAudioTape, the last call of AddAudioChunk and of
\* the stop event; Finalize goes on to send one more message.
CapSchedule ==
  /\ cap.pc = "schedule"
  /\ Schedule(cap.tape)
  /\ cap' = IF cap.final THEN [cap EXCEPT !.pc = "final"] ELSE IdleCap
  /\ UNCHANGED <<port, made, session, imm, chain, chunks, notes, stopping>>

\* CapturePorts::Hoover finds the port silent for ten minutes and not being
\* written (IsExpired), lets it Finalize, and forgets it.  A port whose stop
\* message is due goes through the stop event first; none is due where the
\* plugin never ended the start's metadata, and the tape is not told to stop.
Expire(p) ==
  /\ idle /\ NoneStarting /\ MayExpire
  /\ port[p] # NewPort
  /\ port[p].tape # NoTape => tape[port[p].tape].state # "Active"
  /\ UNCHANGED session
  /\ \/ /\ port[p].needSendStop
        /\ StopFlag(p, TRUE)
     \/ /\ ~port[p].needSendStop
        /\ port' = [port EXCEPT ![p] = NewPort]
        /\ UNCHANGED <<tape, made, cap, chunks, notes, stopping, immVars>>

\* The rest of Finalize, and the erasure of the port.
Finalize ==
  /\ cap.pc = "final"
  /\ tape' = [tape EXCEPT ![cap.tape] = Reported(@)]
  /\ port' = [port EXCEPT ![cap.port] = NewPort]
  /\ cap' = IdleCap
  /\ UNCHANGED <<made, session, chunks, notes, stopping, immVars>>

-----------------------------------------------------------------------------
(* The immediate processing thread: Pop, AudioTape::Write, ThreadHandler.   *)

captureVars == <<port, made, session, cap, chunks, notes, stopping>>

\* Pop, first half: blocked while the semaphore is 0.
ImmAcquire ==
  /\ imm.pc = "acquire"
  /\ immSem > 0
  /\ immSem' = immSem - 1
  /\ imm' = [imm EXCEPT !.pc = "pop"]
  /\ UNCHANGED <<tape, immQueue, chain, captureVars>>

\* Pop, second half: the front tape, free to be queued again.  Woken for
\* nothing, the thread tries again, or ends if the daemon is stopping.
ImmPop ==
  /\ imm.pc = "pop"
  /\ \/ /\ immQueue # <<>>
        /\ immQueue' = Tail(immQueue)
        /\ tape' = [tape EXCEPT ![Head(immQueue)].isQueued = FALSE]
        /\ imm' = [pc |-> "write", tape |-> Head(immQueue)]
     \/ /\ immQueue = <<>>
        /\ imm' = [imm EXCEPT !.pc = IF stopping THEN "exited" ELSE "acquire"]
        /\ UNCHANGED <<tape, immQueue>>
  /\ UNCHANGED <<immSem, chain, captureVars>>

Writable_Always(tp) == tp.queued > 0

\* The loop condition and the emptiness test of AudioTape::Write.
Writable(tp) == tp.state # "Stopped" /\ tp.queued > 0

\* Write's loop, under the tape's lock: take the oldest chunk, or be done.
WritePop ==
  /\ imm.pc = "write"
  /\ \/ /\ Writable(tape[imm.tape])
        /\ tape' = [tape EXCEPT ![imm.tape].queued = @ - 1]
        /\ imm' = [imm EXCEPT !.pc = "disk"]
     \/ /\ ~Writable(tape[imm.tape])
        /\ imm' = [imm EXCEPT !.pc = "close"]
        /\ UNCHANGED tape
  /\ UNCHANGED <<immQueue, immSem, chain, captureVars>>

\* Write's loop, unlocked: the first chunk opens the file and makes the tape
\* active; a chunk over the size limit is ignored; a failing disk loses it.
WriteDisk ==
  LET tp == [tape[imm.tape] EXCEPT !.state = "Active", !.file = TRUE] IN
  /\ imm.pc = "disk"
  /\ \/ /\ tp.written <= SizeLimit
        /\ tape' = [tape EXCEPT ![imm.tape] = [tp EXCEPT !.written = @ + 1]]
     \/ /\ tp.written > SizeLimit \/ DiskMayFail
        /\ tape' = [tape EXCEPT ![imm.tape] = tp]
  /\ imm' = [imm EXCEPT !.pc = "write"]
  /\ UNCHANGED <<immQueue, immSem, chain, captureVars>>

\* After the loop: a tape asked to stop is stopped and its file closed, and
\* is ready for the chain if anything was written.
WriteClose ==
  LET tp == tape[imm.tape] IN
  /\ imm.pc = "close"
  /\ tape' = [tape EXCEPT ![imm.tape] =
                IF tp.shouldStop /\ tp.state # "Stopped"
                THEN [tp EXCEPT !.state = "Stopped",
                                !.ready = @ \/ (tp.file /\ tp.written > 0)]
                ELSE tp]
  /\ imm' = [imm EXCEPT !.pc = "dispatch"]
  /\ UNCHANGED <<immQueue, immSem, chain, captureVars>>

Discarded_KeepsAll(tp) == TapeDurationMinimum /\ tp.short

\* A recording too short, or that nobody wants kept.
Discarded(tp) == (TapeDurationMinimum /\ tp.short) \/ ~tp.keep

Handled_NotReset(tp) ==
  IF Discarded(tp) THEN [tp EXCEPT !.deleted = @ + 1] ELSE [tp EXCEPT !.handed = @ + 1]

\* A ready tape after ThreadHandler dealt with it: m_readyForBatchProcessing is
\* reset, and the file deleted or the tape given to the chain.
Handled(tp) ==
  IF Discarded(tp) THEN [tp EXCEPT !.ready = FALSE, !.deleted = @ + 1]
  ELSE [tp EXCEPT !.ready = FALSE, !.handed = @ + 1]

\* IsReadyForBatchProcessing is reset when read.  A tape too short, or that
\* nobody wants kept, is deleted; any other goes down the processing chain.
Dispatch ==
  LET tp == tape[imm.tape] IN
  /\ imm.pc = "dispatch"
  /\ tape' = [tape EXCEPT ![imm.tape] = IF tp.ready THEN Handled(tp) ELSE tp]
  /\ chain' = IF tp.ready /\ ~Discarded(tp) THEN chain \cup {imm.tape} ELSE chain
  /\ imm' = [pc |-> "acquire", tape |-> NoTape]
  /\ UNCHANGED <<immQueue, immSem, captureVars>>

\* The chain ends in Reporting::AddAudioTape, which sends the tape's next
\* message: meant to be the ready message.
ChainReport(t) ==
  /\ t \in chain
  /\ chain' = chain \ {t}
  /\ tape' = [tape EXCEPT ![t] = Reported(@)]
  /\ UNCHANGED <<immQueue, immSem, imm, captureVars>>

\* A processor of the chain may also let the tape go: its queue is full or
\* its work on the file fails.
ChainDrop(t) ==
  /\ t \in chain
  /\ chain' = chain \ {t}
  /\ UNCHANGED <<tape, immQueue, immSem, imm, captureVars>>

\* Daemon::Stop
DaemonStop ==
  /\ MayShutDown /\ ~stopping
  /\ stopping' = TRUE
  /\ UNCHANGED <<port, tape, made, session, cap, chunks, notes, immVars>>

-----------------------------------------------------------------------------
\* What a plugin may report next.
PluginStep ==
  \E p \in Port :
    \/ Start(p) \/ Stop(p) \/ ChunkIn(p) \/ Expire(p)
    \/ Hold(p) \/ Resume(p) \/ Update(p) \/ (\E w \in BOOLEAN : Keep(p, w))

\* The rest of a callback once it has begun.
CapStep ==
  \/ ChunkQueue \/ StopDuration \/ StopEvent \/ StopMessage \/ CapSchedule \/ Finalize
  \/ \E p \in Port : EndMetadata(p)

ImmStep == ImmAcquire \/ ImmPop \/ WritePop \/ WriteDisk \/ WriteClose \/ Dispatch

ChainStep == \E t \in Tape : ChainReport(t) \/ ChainDrop(t)

Next == PluginStep \/ CapStep \/ ImmStep \/ ChainStep \/ DaemonStop

Spec == Init /\ [][Next]_vars

\* A callback, once entered, runs to its end, and the immediate thread and
\* the chain's threads run when they can.  No plugin has to report anything.
FairSpec == Spec /\ WF_vars(CapStep) /\ WF_vars(ImmStep) /\ WF_vars(ChainStep)

-----------------------------------------------------------------------------
TapeRecord ==
  [port : Port, state : {"Created", "Active", "Stopped"},
   shouldStop : BOOLEAN, short : BOOLEAN, keep : BOOLEAN, held : BOOLEAN,
   queued : 0..QueueLimit, written : Nat, toSend : Seq(Event),
   isQueued : BOOLEAN, ready : BOOLEAN, file : BOOLEAN,
   msgs : Seq(Stage), handed : Nat, deleted : Nat]

CapRecord ==
  [pc : {"idle", "chunk", "schedule", "duration", "event", "message", "final"},
   port : Port, tape : Tape \cup {NoTape}, final : BOOLEAN]

ImmRecord ==
  [pc : {"acquire", "pop", "write", "disk", "close", "dispatch", "exited"},
   tape : Tape \cup {NoTape}]

PortRecord == [capturing : BOOLEAN, needSendStop : BOOLEAN, tape : Tape \cup {NoTape}]

\* Every variable keeps to the values its C++ counterpart can have; a tape
\* never queues more chunks than its limit.
TypeOK ==
  /\ port \in [Port -> PortRecord]
  /\ tape \in [Tape -> TapeRecord]
  /\ made \in 0..MaxTapes
  /\ session \in [Port -> {"idle", "starting", "started"}]
  /\ cap \in CapRecord
  /\ immQueue \in Seq(Tape)
  /\ immSem \in Nat
  /\ imm \in ImmRecord
  /\ chain \in SUBSET Tape
  /\ chunks \in Nat /\ notes \in Nat
  /\ stopping \in BOOLEAN

\* A recording is given to the processing chain or deleted at most once, and
\* never both, however many times the tape is scheduled, stopped and written
\* (IsReadyForBatchProcessing: "toggle to ensure not processed twice").
HandledOnce == \A t \in Tape : tape[t].handed + tape[t].deleted <= 1

\* What the chain works on is a closed, non-empty recording that is wanted:
\* the immediate thread's decision is not overtaken by a later event.
OnlyWantedHandled ==
  \A t \in Tape : tape[t].handed > 0 =>
    tape[t].state = "Stopped" /\ tape[t].written > 0 /\ tape[t].keep

\* m_isQueued says of a tape that it is in the immediate queue, where it is
\* at most once; and the semaphore has a permit for every queued tape, but
\* for the one the immediate thread is about to pop.
ImmQueueConsistent ==
  /\ \A t \in Tape : tape[t].isQueued <=> \E i \in DOMAIN immQueue : immQueue[i] = t
  /\ \A i, j \in DOMAIN immQueue : immQueue[i] = immQueue[j] => i = j
  /\ Len(immQueue) <= immSem + (IF imm.pc = "pop" THEN 1 ELSE 0)

\* No wake-up is lost: once its callback has returned, a tape with chunks to
\* write, or asked to stop by a stop event, is in the immediate queue or in
\* the hands of the immediate thread, which has still to look.
Unfinished(t) ==
  \/ tape[t].queued > 0 /\ tape[t].state # "Stopped"
  \/ tape[t].shouldStop /\ tape[t].state # "Stopped" /\ port[tape[t].port].tape = t
InHand(t) == imm.tape = t /\ imm.pc \in {"write", "disk"}
Closing(t) == imm.tape = t /\ imm.pc = "close" /\ tape[t].shouldStop
WorkScheduled ==
  /\ ImmQueueConsistent
  /\ \A t \in Tape : Unfinished(t) /\ cap.tape # t =>
       tape[t].isQueued \/ InHand(t) \/ Closing(t)

\* The current tape of a port is the only one of that port not asked to
\* stop: no recording goes on that no event of the port can end.
NoOrphanRecording ==
  \A t \in 1..made : ~tape[t].shouldStop => port[tape[t].port].tape = t

\* A port whose stop message is due has a tape to send it for: Finalize, which
\* takes it for granted, never meets a port without one.
PortDue == \A p \in Port : port[p].needSendStop => port[p].tape # NoTape

\* A port that takes audio has a tape to put it on, not asked to stop; and
\* PortDue.
PortConsistent ==
  /\ PortDue
  /\ \A p \in Port :
       port[p].capturing => port[p].tape # NoTape /\ ~tape[port[p].tape].shouldStop

\* When a plugin ends each start's metadata, the messages of a tape come in
\* the order of its events: start first and once, nothing but the ready
\* message (or a blank one) after stop.
MessageOrder ==
  \A t \in Tape : \A i, j \in DOMAIN tape[t].msgs :
    LET m == tape[t].msgs IN
    /\ m[i] = "start" => i = 1
    /\ m[i] = "stop" /\ i < j => m[j] \in {"ready", "blank"}

\* A closed recording is never written again, nor is its file reopened.
ClosedStaysClosed ==
  [][\A t \in Tape : tape[t].state = "Stopped" =>
       tape'[t].state = "Stopped" /\ tape'[t].written = tape[t].written]_vars

\* The tapes the threads, the ports, the queue and the chain refer to exist;
\* a tape that does not exist yet is untouched.
ReferencesExist ==
  /\ \A p \in Port : port[p].tape \in 0..made
  /\ cap.pc # "idle" => cap.tape \in 1..made
  /\ imm.pc \in {"write", "disk", "close", "dispatch"} => imm.tape \in 1..made
  /\ \A i \in DOMAIN immQueue : immQueue[i] \in 1..made
  /\ chain \subseteq 1..made
  /\ \A t \in Tape : t > made => tape[t] = NewTape(AnyPort)

\* A recording is due for the chain or for deletion only between its closing
\* and the dispatch that follows; the immediate thread never has a chunk in
\* hand for a closed tape.
HandledAfterClose ==
  /\ \A t \in Tape : tape[t].ready \/ tape[t].state # "Stopped" =>
       tape[t].handed = 0 /\ tape[t].deleted = 0
  /\ \A t \in Tape : tape[t].ready => tape[t].state = "Stopped"
  /\ imm.pc = "disk" => tape[imm.tape].state # "Stopped"

\* The inductive invariant behind HandledOnce and ClosedStaysClosed.
IInv == TypeOK /\ ReferencesExist /\ PortDue /\ HandledAfterClose /\ HandledOnce

\* Audio taken from the plugin reaches the disk (or its tape is closed).
AudioWritten ==
  \A t \in Tape : tape[t].queued > 0 ~> tape[t].queued = 0 \/ tape[t].state = "Stopped"

\* A tape asked to stop is eventually stopped and its file closed.
StopCompletes ==
  \A t \in Tape : tape[t].shouldStop ~> tape[t].state = "Stopped"
=============================================================================
