# Oreka: specification, model checking and proofs

Oreka records telephone calls.  Its recorder, *orkaudio*, captures audio and
call events through a plugin, keeps one *tape* per recording, writes the audio
to disk, transcodes it, and reports every stage of a recording to *orktrack*,
which keeps the database that *orkweb* shows.  This directory holds TLA+
modules for the recorder's core (`src/orkbasecxx`), its VoIP plugin and its RTP
mixer, the TLC configurations that check them on small instances, and TLAPS
proofs of their main properties.

## 1. Inventory

| Component | Source | State | Operations | Talks to |
|---|---|---|---|---|
| VoIP plugin sessions | `orkaudio/audiocaptureplugins/voip`, `common/OrkSession.cpp` | sessions; maps by call id and by media address | packets and signalling in, commands, hoover; start, stop, audio out | capture ports, under one plugin lock (`VoIp.cpp`) |
| Other capture plugins | `Iax2Session.cpp`, `generator`, `sounddevice` | calls, devices | the same callbacks | capture ports |
| Capture ports | `CapturePort.cpp`, `CapturePluginProxy.cpp` | per port: current tape, `m_capturing`, `m_needSendStop`, voice activity, event backlog; registry map with hoovering | AddCaptureEvent, AddAudioChunk, Finalize, GetPort | tape, immediate processing, reporting |
| Audio tape | `AudioTape.cpp` | `m_state`, `m_shouldStop`, chunk queue, events to send, ready flag, file | AddAudioChunk, AddCaptureEvent, Write, GetMessage, IsReadyForBatchProcessing | shared by the capture and the immediate thread |
| Immediate processing | `ImmediateProcessing.cpp` | queue of tapes, semaphore | Push, Pop, the thread's loop | tape, processing chain |
| Queue | `ThreadSafeQueue.h`, `Utils.h` | elements, size, semaphore | push, pop, setSize | every thread behind the chain |
| Tape processing chain | `TapeProcessor.cpp`, `BatchProcessing.cpp`, `TapeFileNaming.cpp`, `CommandProcessing.cpp`, `DirectionSelector.cpp` | order of processors; one queue each; files of the tape | AddAudioTape, ThreadHandler, RunNextProcessor | files, reporting |
| RTP mixer | `orkaudio/filters/rtpmixer/RtpMixer.cpp` | circular sample buffer with timestamps | AudioChunkIn, AudioChunkOut | batch processing |
| Reporting | `Reporting.cpp`, `messages/TapeMsg.cpp`, `OrkClient.cpp` | per tracker: queue, skip counter | AddMessage, SkipTapes, the thread's loop with retries | orktrack, plugins (pause, start), event streaming |
| Event streaming | `EventStreaming.cpp`, `MultiThreadedServer.cpp` | sessions, each with a queue and a semaphore; a thread for each client | AddMessage, AddSession, WaitForMessages, GetTapeMessage | reporting, clients |
| OrkTrack | `orktrack`, `orkbasej` | ports, tapes, programs in a database | tape messages | orkweb |

Most of the hard behaviours are in the hand-over of a tape between threads.  The
capture thread and the immediate thread share a tape whose queues are guarded
by `m_mutex`, but whose flags (`m_state`, `m_shouldStop`, `m_duration`,
`m_readyForBatchProcessing`) are not.  A tape is queued for the immediate thread
at most once at a time, so a lost wake-up would lose a recording; a stop is
several unlocked steps, so the other thread can act in the middle of it.  In the
plugin the difficulty is not threads, since every handler holds one mutex, but
order: packets and signalling of two protocols, commands and time-outs change one
set of sessions through two maps.

What makes each component correct:

* queue: every element accepted is returned once, in order; nobody sleeps
  beside a full queue;
* sessions: a session that goes on is found, one that ended is in no map, a
  recording that began is ended, and every port hears start, audio, stop;
* ports and tapes: every recording can be ended, is closed when it was ended,
  is never written after it was closed, and reaches the chain or the bin exactly
  once; its messages tell its story in order; a call that the port divides by
  itself is recorded whole and each part told under an identifier of its own;
* chain: one thread works on a tape at a time, the audio exists in some file
  until the tape is reported, and what is reported has a file;
* mixer: loses nothing that waits in the buffer unless a later sample of the same
  channel and time replaces it, ships samples once and where their timestamps put
  them;
* reporting: every tracker gets each lasting message in the order it was
  enqueued, and none that was not enqueued;
* event streaming: no more clients than the limit, all of them hear the messages
  in one order, and what is queued is sent.

## 2. Plan

In order of importance; **done** marks what this directory holds.

1. `BlockingFifo`, `ThreadSafeQueue`, `ThreadSafeQueueProofs` (**done**): the
   queue everything else waits on, with its refinement.
2. `Capture`, `CaptureProofs` (**done**): ports, tapes and the two threads that
   share them.
3. `TapeFate`, `TapeChain`, `TapeChainProofs` (**done**): the processors, their
   threads and the files they share, with the refinement of what the chain promises.
4. `Reporting`, `ReportingProofs` (**done**): queues, retries, skipping and
   real-time messages per tracker, each tracker refining one `BlockingFifo`.
5. `RtpMixer`, `RtpMixerProofs` (**done**): the circular buffer, its pointers and
   timestamps.
6. `VoIpSessions`, `VoIpSessionsProofs` (**done**): the maps of sessions by call and
   by media address, and what the ports hear of them.
7. `EventStreaming`, `EventStreamingProofs` (**done**): sessions, their queues and
   permits.
8. `PortSegments`, `PortSegmentsProofs` (**done**): segmentation by the clock and by
   voice activity.
9. The port registry; the party filter.
10. `SipTcp`, `IpFragmentation`, `DtmfHandling`: small stateful reassemblers.

The modules share states with what they touch rather than variables: `TapeChain`
takes the closed recordings of `Capture`, `Reporting` takes messages at its entry,
and `TapeChain` and `Reporting` use queues through `BlockingFifo`.

## 3. Modules

### ThreadSafeQueue

`push()` holds the mutex throughout and is one action (`Push`); `pop()` acquires
the semaphore, then the mutex, and is two (`Acquire`, `Dequeue`), with the
consumers in between in `inPop`.  `setSize()` takes no lock (`SetSize`).
`accepted`, `returned`, `refused` and `empties` are history variables that
only properties read.  `BlockingFifo` is what its users assume.  `ImplementsFifo`
maps `fifo` to `queue` and `taken` to `returned`.

### Capture

| Action | Code |
|---|---|
| `Start`, `EndMetadata`, `Hold`, `Resume`, `Update`, `Keep` | the cases of `CapturePort::AddCaptureEvent` |
| `ChunkIn`, `ChunkQueue`, `CapSchedule` | `CapturePort::AddAudioChunk`, `AudioTape::AddAudioChunk`, `ImmediateProcessing::Push` |
| `Stop`, `StopDuration`, `StopEvent`, `StopMessage`, `CapSchedule` | the stop event, in the order of its unlocked steps |
| `Expire`, `Finalize` | `CapturePorts::Hoover` dismissing a port |
| `ImmAcquire`, `ImmPop` | `ImmediateProcessing::Pop` |
| `WritePop`, `WriteDisk`, `WriteClose` | `AudioTape::Write` |
| `Dispatch` | the rest of `ImmediateProcessing::ThreadHandler` |
| `ChainReport`, `ChainDrop` | the processors behind `RunProcessingChain` |

A step ends where the other thread can see its effect: at the end of a critical
section, or after one unlocked access to a flag that both threads use.  Steps
that only one thread can see are merged with their neighbours (for example the
push of an update event and the message that reports it: only the capture
thread touches the message queue of a tape that was not stopped).  Chunks are
counted, not stored; of the duration only "below the minimum or not" is kept; the
disk is a choice between success and failure.  The plugin is the environment:
`session` holds what it told each port, so that it sends a stop or audio only for
a session it started (VoIP) and, if `MayRestart`, may start a started port, as
IAX2 ports reused by address do.  `SendsEndMetadata` tells VoIP plugins from the
generator.

### PortSegments

With `AudioSegmentation` or VAD (not both: `Config::Validate`) the starts of the
plugin create the port only; `AddAudioChunk` decides where a recording begins and
ends, and repeats the events of the call, kept in `m_captureEvents`, for every
recording.  `Cases` chooses mode and plugin.

| Action | Code |
|---|---|
| `StartCall`, `ReportUid`, `ReportEnd`, `ReportUpdate`, `StopCall` | `CapturePluginProxy::CaptureEventCallBack` with `AddCaptureEvent` and the backlog |
| `Chunk`: `ChunkSegments`, `ChunkVadUp`, `ChunkVadDown` | the two branches of `AddAudioChunk` |
| `Replay` | one event of `ReportEventBacklog` |
| `AddChunk` | the last lines of `AddAudioChunk`, with `ImmediateProcessing::Push` |
| `Write` | the immediate thread with one tape |
| `Expire` | `CapturePorts::Hoover`, `IsExpired`, `Finalize` |

`AddAudioChunk` is taken apart because the immediate thread may write the old
recording while the new one is being told the backlog.  A recording's identifier is
the call it is of and the number `ReportEventBacklog` adds; `call` and `told` of a
tape and `missed` are history.  The blank tape that `AddAudioChunk` makes just
before the start event makes another is left out: nothing refers to it.  `Expire`
assumes that the immediate thread is not ten minutes behind.

### VoIpSessions

Every handler of the plugin runs under one mutex and is one action: packets
(`ReportRtpPacket` with `AddRtpPacket`, `DetectChannel`), SIP (`ReportSipInvite`,
`ReportSipSessionProgress`, `ReportSip200Ok`, `ReportSipBye`), Skinny (call information, media, hold, resume,
transfer), commands (`StartCapture`, `PauseCapture`, `StopCapture`), `Hoover` and
`StopAll`.  A handler is written as a function of the state it works on (`Now`), so
that the calls it makes (`Start`, `Stop`, `SetMediaAddress`) follow each other as in
the code; `Become` deletes sessions that no map refers to, as their reference
counts do.  `StopEach` stops a set of sessions at once: what `Stop` does to one does not
depend on the others, so their order makes no difference.  `open` and `misheard` are
what the capture ports were told.  `StartsOnce` names the settings under which
`AddRtpPacket`, which starts a session when its count of packets *equals* a threshold,
cannot start one that was started before.

Data are what the maps and the decisions need: an address with one media port, a
packet with its two addresses and a word for what its sequence and payload type say
(`Kinds`), counters that stop at `MaxCount`, ages in place of times.  `conf` is the
configuration, and also bounds which calls, phones and streams it has; the phone of
a SIP call is any phone or none, since which address belongs to a phone is learned
from registrations that the model leaves out.  Directions and the order of invites are
free choices.  Left out: parties, tags, DTMF and other data of calls, on-demand
markers, RTCP and NOTIFY, URL extraction, Sangoma ports, the choice by activity
database and the search that `RtpSearchesForCallInfo` does.

### TapeChain

| Action | Code |
|---|---|
| `Open`, `Close` | the capture file of a recording (`AudioTape::Write`), and `RunProcessingChain` |
| `Take` | `m_audioTapeQueue.pop()` in each `ThreadHandler` |
| `BatchTranscode`, `BatchFinish`, `BatchFail` | `BatchProcessing::ThreadHandler`: reading and writing, deletion and hand-over, its exception handler |
| `SideRename`, `SideCopy`, `SideFail` | `DirectionSelector::ThreadHandler` |
| `NameChoose`, `NameRename` | `TapeFileNaming::ThreadHandler`: the collision check, the rename |
| `CommandNone`, `CommandMove`, `CommandRun`, `CommandFinish` | `CommandProcessing::ThreadHandler` around `system()` |
| `Enter`, `PassOn` (in the last step of each) | `AddAudioTape` of the next processor, `RunNextProcessor` |

`disk` maps every file name to the recording whose audio it holds, and whether
all of it; names are a directory, an identifier and an extension.  A tape's
fields are the four the code builds names from.  The queue of a processor is used
through the promise of `BlockingFifo`: `Take` needs an element.  `TapeFate` is what
the rest of the program relies on: a recording given to the chain is reported
once or given up.  `ImplementsFate` maps `waiting` and `dropped` to the sets of
tapes with that `fate`, and `told` to the tapes of the reports.

### RtpMixer

| Action | Code |
|---|---|
| `Chunk` (`AudioChunkIn`) | one turn of `BatchProcessing`'s loop: `RtpMixer::AudioChunkIn`, at most one `AudioChunkOut`, the write of the output |
| `EndOfStream` | the end-of-stream marker after the last chunk |
| `Drain` | the loop that takes what the mixer has left |

`AudioChunkIn` is written as functions of the mixer's record: channel
synchronisation (`Synced`, `DeltaOf`, `CorrectedTimestamp`), the agent whose
timestamps advance too slowly (`Repaired`), `StoreRtpPacket`, `CreateShipment`,
`Restarted` and `Realigned` for `ManageOutOfRangeTimestamp`.  A sample is the chunk
it came from, its channel and the timestamp it was stored at.  A cell of `buffer`
holds what is heard at its place.  With a mono output that is what the mixer's own
buffer adds up; with a stereo output the file is made of the channels' buffers
(`HandleMixedOutput`), and into these a sample is assigned, so that it replaces an
earlier one of its channel (`Heard`, `RtpMixer.cpp:724-742`).  `mixed` and `lost` are
history: what was mixed in, and what was in a buffer that was filled to its last
sample, which `UsedSpace` then takes to be empty.  `Wrap` stands for 2^32.

### Reporting

| Action | Code |
|---|---|
| `Register`, `InitAnswered` | `ReportingThreadEntryPoint`; the loop of `ReportingThread::Run` around the initial message |
| `AddMessage`, `AddNext` | the entry of `Reporting::AddMessage`; its loop, one tracker at a time, with `ThreadSafeQueue::push` |
| `SkipTapes` | `ReportingSkipTapeMsg::Process`, `Reporting::SkipTapes` |
| `Pop`, `PopNothing` | `m_messageQueue.pop()` and the tests that follow |
| `CheckSkip` | `IsSkip`, in the head of the retry loop |
| `SendAnswered`, `SendFails` | `OrkHttpSingleLineClient::Execute` and what either result leads to |
| `UpDown`, `Shutdown` | a tracker that comes and goes; `Daemon::Stop` |

A message is a number, its stage, and who added it; answers are whether they
reject the tape.  A request that gets no answer in time may have been processed
all the same (`Processes` in `SendFails`).  A 400 counts as success without
having been processed.  An answer whose truth values cannot be read throws out of
the retry loop, and the message is left (`"unreadable"`).  `s_reportingThreads`
is keyed by host name, so `byHost` keeps the first tracker of a host only.  Each
tracker has one consumer, so acquiring the semaphore and taking the element are
one step.  `ImplementsFifo` maps `fifo` to the message in hand followed by the
queue, and `taken` to what is settled: for the rest of the program a retry is
invisible.

### EventStreaming

| Action | Code |
|---|---|
| `AddMessage`, `AddToSession` (`HandRound`) | `EventStreaming::AddMessage`: the registry's mutex is held for the whole round, a session's own for each hand-over |
| `Connect`, `CountSessions` | `StreamingSvc`: `AddSession`, then `GetNumSessions` |
| `WaitForMessages`, `GetTapeMessage`, `Send` | its loop |
| `RemoveSession`, `Disconnect` | its end; a client that leaves, whose socket may take one more message |

A message is the number of its turn, so that order is order of numbers; what a
message says is irrelevant here.

Operators named `X_Y` are `X` with a plausible mistake `Y`; no specification uses
them.  Replacing `X` by `X_Y` must make the property it is listed with in
`PROJECT.json` fail, which shows that the property notices.

## 4. Runs

| Run | Question | Result |
|---|---|---|
| `queue` | two consumers, two element values, size 2 lowered to 1, four pushes | empty pops bounded, delivery, refinement |
| `capture_safety` | one port, two recordings, the second perhaps replacing the first, two chunks, one hold/update/keep event, a queue of one chunk, the size limit, disk failures, expiry, shutdown | recordings handled once, as wanted, closed for good, their messages in order |
| `capture_liveness` | two ports sharing the immediate thread, a queue of one chunk that refuses the next, the size limit, no end of metadata, no disk failures, under fairness | audio is written, stopped tapes are closed |
| `chain_naming` | three recordings, two batch threads, one queue place, shared final names, native files deleted | audio kept, reports right |
| `chain_full` | all processors, a command with `[IN]`, native files deleted, no naming scheme, failures everywhere, under fairness | one place per tape, refinement, every recording is reported or given up, once and never both |
| `chain_command` | a command without `[IN]`, native files deleted | a whole copy stays on the disk |
| `reporting` | one tracker that comes and goes, one sender, three messages, a queue of two, one answer lost, one skip, shutdown, under fairness | order, one answer acted on, skips accounted for, FIFO refinement, everything settled |
| `reporting_trackers` | two trackers of one host, two senders, queues of one place, one answer lost, one skip | each tracker's copies once and in each caller's order |
| `mixer` | three channels, timestamps that jump, wrap, overlap and creep, a chunk too big, four chunks, mono and stereo | buffer accounted for, nothing shipped twice or lost but by replacement in stereo or in a filled buffer, samples where their timestamps put them, all others in the file at the end |
| `voip_sessions` | eight configurations: look-back, commands, holds and broken streams, Skinny, both protocols, a third stream, on demand with and without both sides | the maps agree, no recording is forgotten, ports hear their calls in turn, what talks is recorded, a final stop stops all |
| `streaming` | two clients for one place, two reporters, four messages, queues of two, clients that leave, under fairness | the limit, one order, what is queued is sent |
| `segments` | two calls on a port, three recordings, one update, by the clock under every plugin, by voice activity with and without metadata | what is divided off is closed and told in full, and where audio is missed |

**Bounds.** Two tapes are what it takes for one recording to replace another on
a port, and for two ports to compete for the immediate thread; two chunks are one
in the queue while another is on its way to disk, and reach both the queue limit
(1) and the size limit; one hold/resume/update/keep event is enough to shift the
stages of the messages that follow.  Two consumers and two elements are the
least for elements to overtake each other, four pushes fill a queue of two,
overflow it, and leave a stray permit.  In the chain two recordings suffice to
collide in a name, to overtake each other between two batch threads, and to fill
the queue of size one of the next processor.  In `chain_full` both can be reported,
under the name of the command's output, since the native file is deleted after a
success only and no naming scheme changes the name after transcoding; with either
setting reversed `CommandMove` finds no audio and gives every tape up.  In reporting, three messages make
one in hand, one queued and one behind it, or a queue of two that refuses; stages
stand for a real-time, a lasting and an invalid message; one lost answer makes one
duplicate.  Two trackers and two senders are the least for copies to be pushed in
different orders.

In the mixer a buffer of 6 with a trigger of 4 and a holdoff of 3 is filled,
wrapped and restarted by chunks of 2 and 3 samples; chunk 8 is too big; the
timestamps are before, in, at the end of and beyond the buffer, two pairs of them
(4, 7 and 7, 10) are a rogue agent's step of 3 apart, and 30 + 3 passes the width of
32.  Chunks of one channel may have one timestamp, which replaces samples in
stereo.  In VoIpSessions two calls and two streams make two sessions
compete for an address, the third id lets `StopCapture` make its copy or a third
stream its session; counters of 4 pass both thresholds, the raw one of 3 being above
that of SIP and Skinny (2) as the code's 50 is; ages are compared with time-outs of 0
and 1 only.  In EventStreaming one place and two clients make a
refusal, a queue limit of 1 (which keeps two) overflows with the third message.  In
PortSegments two calls are what it takes for the second to meet a tape of the first;
three recordings are two segments of one call and one of the other, or one that
begins and ends in silence; a clock of 3 makes a segment due twice or a port expire
once.

**Fairness.** The threads are loops around blocking calls: weak fairness on the
consumer of a queue, on the immediate thread, on the chain's threads, and on the
remainder of a callback that has begun.  In `TapeChain` each worker thread is
weakly fair by itself (`WF_vars(ThreadStep(w))`), and nothing is assumed of
recordings.  In `Reporting` the thread of each tracker and a call of `AddMessage`
that has begun are weakly fair; that a tracker is up from some time on is a premise
of `EveryMessageSettled`, not an assumption.  In `EventStreaming` the rest of a
reporter's round and the thread of each client are weakly fair; a client's thread
that waits for the registry's mutex gets it because a round ends and reporters are
bounded, no stronger fairness being needed.  Fairness of `Send` is an assumption on
the client: the server's sockets have no time-out (-1, `MultiThreadedServer.cpp:755`),
so a client that stays connected and does not read blocks its thread in `send()`, and
what is queued for it is not sent; `QueuedIsSent` is about clients that read.  Nothing is assumed of plugins: no stop,
no chunk and no start has to come.  `CHECK_DEADLOCK FALSE` appears where a plugin,
a client or a clock may have nothing more to do within the bounds.

## 5. Proofs

Everything below is proved for all values of the constants, from the named
assumptions only (`QueueAssumption`, `CaptureAssumption`, `ChainAssumption`,
`ReportingAssumption`, `MixerAssumption`, `StreamingAssumption`,
`SegmentsAssumption`, `SessionsAssumption`, `NoneAssumption`: sets that are finite or
not empty, numbers that are natural, flags that are booleans, a mixer whose holdoff is
within its trigger and its trigger within a buffer of at most half the clock, a `None`
that is no session and no stream).  TLC evaluates each of them in the runs.  Every
safety property of every run is stated by a theorem; where a theorem has a
hypothesis on the settings, it is named here, and section 6 has what happens without it.
The type invariants of these modules, `PermitPerElement` and `ThreadAwake` are proved and
most of them therefore no properties of a run.

* `ThreadSafeQueueProofs`: the invariant `IInv` adds to the types that queued
  elements never exceed permits plus consumers on their way, and the exact
  balance of empty pops, permits and refused pushes.  The two are inductive only
  together with the types; the refinement needs no more than the step relation.
* `CaptureProofs`: five invariants, each resting on those before it.
  - `IInv`: `HandledOnce` is not inductive by itself: a tape could be
    ready and handled already.  `IInv` adds that a tape not closed, or still ready,
    was never handled (`HandledAfterClose`), that a chunk in hand belongs to a tape
    that is not closed (Write tests the state before it takes one), and that threads
    only hold tapes that exist (`ReferencesExist`), which makes a new tape's record
    fresh.  All steps but three leave the life of every file alone (`Quiet`); the
    proof handles those together and `WriteDisk`, `WriteClose`, `Dispatch`
    separately.  `ClosedStaysClosed` follows from the same step lemmas.
  - `ProtocolInv`: what the plugin believes (`SessionAgrees`), what the port has
    (`PortOwns`), which stops are due (`DueAgrees`) and where a callback is
    (`CallbackShape`) fit each other; `NoOrphanRecording` and `PortConsistent` are
    inductive only with these.  `NoOrphans` has `MayExpire => SendsEndMetadata` as a
    hypothesis: section 6 has what happens without it.
  - `WorkInv`: the flag that says a tape is queued is true of exactly the tapes in the
    queue, and each has its permit (`ImmQueueConsistent`); a tape with audio or a stop
    pending is queued, in hand, or about to be scheduled by the callback under way
    (`QueuedWork`, `Settling`).  That is `WorkScheduled`, the wake-up
    that cannot be lost.
  - `FateInv`: a closed recording was asked to stop, one that is ready has audio, and only
    closed ones reach the chain (`KeptWritten`); with these `OnlyWantedHandled` is
    inductive.
  - `MessagesInv`: a tape is fresh and still being named, or `Told`: in one of the
    stages that the order of messages allows.  `MessagesInOrder` has `SendsEndMetadata`
    as a hypothesis, as `MessageOrder` is about plugins that end the metadata of a start.
* `TapeChainProofs`: `OnePlace` is inductive together with
  the types, with `ThreadsConsistent` (a thread has a tape unless it is idle) and
  `ToldConsistent` (a reported tape is finished with).  All steps of the threads
  are of two kinds: going on with a tape, where only files change (`GoesOn`), or
  letting go of it (`LetsGo`), where it is handed on (`HandsOver`); a lemma for
  each does the work once for all processors.  `ChainRefinement` maps each step to
  one of `TapeFate` (`HandingMaps`) or to a stutter.
  `AudioStays` and `ReportsTrue` prove `AudioKept` and `AsReported` for settings that
  are `Careful`: names differ (one capture per port and second), batch processing comes
  first and direction selection is not used, the names of `TapeFileNaming` are none of
  the capture files', failed capture files are kept, the command is not one that
  replaces `[IN]`, and it is not combined with `TapeFileNaming`; `ReportsTrue` has no
  command at all.  Audio can be lost, or a report be wrong, without most of these
  (section 6); the others bound what was proved, and the runs go beyond them.
  `NamesInv` says that no two tapes have an identifier in common, so that a step leaves
  the files of the other tapes alone (`Undisturbed`); `AudioInv` says where the audio of
  a tape is, in each queue (`QueuesFit`), in each thread's hands (`HandsFit`), when the
  chain is through (`EndsFit`), and when it was reported (`ToldFit`).
* `ReportingProofs`: `ThreadAwake` (a queue never holds
  more messages than permits) is inductive together with the types and with
  `HandsConsistent` (whoever holds a message holds a real one).
  `ReportingRefinement` maps settling to `Take` (`SettleTakes`), an accepted push
  to `Offer` (`PushOffers`), and a pop either to a stutter, since the message only
  moves to the hand, or to a `Take` if it is ignored (`PopMaps`).
  `SkipsPaid` counts: messages skipped so far and skips outstanding are the skips
  that were asked for.
  `OrderInv` gives `CallerOrder`: numbers are given once (`NumbersFresh`), a tracker is
  in the vector once (`RegisteredOnce`), so that the message a caller is handing round
  is later than all it enqueued (`LatestComing`).  `AnswerInv` takes every order that
  was acted on back to the answer that settled its message (`OrdersAnswered`).
  `ProcessedInv` gives `InOrder`: a tracker processes what it began, in that order,
  repeating lasting messages only (`ProcessedInOrder`), and a real-time message in
  hand has not been sent (`RealtimeFresh`).
* `RtpMixerProofs`: the types are inductive only with `Sound`, which says that the
  span of the timestamps is that of the pointers and a number of whole buffers
  (`Laps`), one for every time the buffer was filled to its last sample; otherwise a
  timestamp could run below zero.  Each operation on a mixer keeps it (`MixerSound`),
  which gives `PointersAgree`.
  `Tidy` adds that a sample is as far from the write pointer as its timestamp is from
  the write timestamp; what is shipped together is then of one time (`OutputAligned`),
  and what a stereo output replaces is of the same time as what replaces it
  (`StandsFor`).  `Divided`, kept by every operation (`Holds`): what was mixed in, or
  what stands for it, is in the buffer, in the output queue, in the file, or lost in a
  filled buffer, each sample in one of them; storing a chunk is taken apart into the
  chunk that fits and the one that fills the buffer.  Both buffer and queue are empty
  at the end.  That gives `AudioHeld` and `FlushedAtEnd`, without a condition on how
  the buffer was filled or on the output.
* `EventStreamingProofs`: a client's stream is taken apart into what was sent, is in
  hand and is queued.  `Ordered` says that each part increases and lies below the
  next (`Below`); it is kept because whoever hands a message round has the
  registry's mutex and hands round the newest (`OneHandsRound`), so that a client
  that is still due it has only older ones (`DueIsNewest`).  `LimitKept` rests on
  `Admitted`: who has connected is in the registry, so the count that admits a
  client counts all who are served.
* `PortSegmentsProofs`: `SegmentsClosed` speaks of tapes the port has let go of and
  needs to know of the one it has: `CurrentSound` says that a tape the port is not
  capturing is stopped and, once a call is under way, of an earlier call, and that a
  tape it is capturing is queued to be written as soon as a chunk was added, so that
  it is `Active` when the port could expire.  Steps either leave the life of all
  tapes alone (`Alike`, `LifeKept`), end the port's tape (`Ended`, `EndKeeps`), or
  begin one where another has ended (`BeginKeeps`).  The first part of `CurrentSound`
  gives `MissedOnlyBehind`.  `PortSound` gives `DereferencesSafe`: `Finalize` and
  the voice activity branch never meet a missing tape.
  `OwnInv` gives `OwnStory`: what the backlog holds at each stage of a call
  (`BacklogInv`), whose tapes there can be (`CallInv`), how far a recording just begun
  has been told it (`ReplayInv`), and of every recording begun with the metadata of its
  call what it has been told so far, and that its number is its own (`StoryInv`).
* `VoIpSessionsProofs`: `MapsAgree`, `Attended` and `StopAllStops` follow from
  `SessionsInv`, which has three layers, since the configurations differ in what they
  keep.  `Sound` holds in all of them: ids and addresses of sessions are what the maps
  file them under.  `Tidy` (what a map leads to goes on) and `Led` (what goes on is led to
  by a map) hold under hypotheses that the theorems state: `Unbroken(conf)`, that stream
  breaks are not combined with a second address or with several mappings, and for
  `Led` that call information does not come late; the exceptions are among the behaviours
  listed at the end of section 6.  One configuration of the run (`Mixed`) does have late
  call information, without the transfer of media addresses; there `Attended` is only
  checked.  Every operation on the maps has one lemma for each layer, and a handler is
  proved by chaining those of the calls it makes.
  `TalkInv` tells the same operations again from the side of the ports: `AllRight` is
  about each session by itself, its counts against its having been started, and gives
  `RecordsWhatTalks` (`TalkRecorded`, for a raw threshold of 2 at least); `InTurn`
  says that nothing was told out of turn and that a session's own port is open just
  while it is recorded, and gives `HeardInTurn`
  (`PortsHearInTurn`, for `Unbroken` configurations; `HeardInTurn` itself speaks of
  those in which a session `StartsOnce`).  Like the properties, the proofs except
  states with a copy left under the empty call id (`Stale`).

Only model-checked: liveness (`EveryElementDelivered`, `AudioWritten`, `StopCompletes`,
`ChainCompletes`, `EveryMessageSettled`, `QueuedIsSent`), since the prover does no
fairness reasoning.

## 6. What does not hold

No run expects a violation.  TLC refutes the following statements, some of them
sentences of the code; to see a counterexample, check the named property (it is in
the module, or in its MC module) in the named configuration with the change given.

| Property | Configuration | What happens |
|---|---|---|
| `PopBlocksUntilAvailable` | `ThreadSafeQueue.cfg` | after a refused push, `pop()` returns without an element (`ThreadSafeQueue.h:58`, comment at 62) |
| `NoAudioLeftBehind` | `CaptureSafety.cfg` | a chunk can be left for ever in the queue of a closed tape, because `m_shouldStop` is neither written nor read under the lock of the queue (`AudioTape.cpp:360`) |
| `StopCompletes` | `CaptureLiveness.cfg`, `MayRestart = TRUE` | a recording that a new start replaces is told to stop but never scheduled, so its file is never closed (`CapturePort.cpp:300`) |
| `NoOrphanRecording` | `CaptureSafety.cfg`, `SendsEndMetadata = FALSE` | a port that expires before its first chunk is written, and owes no stop message since its plugin ends no metadata, is forgotten with a tape that nobody told to stop (`CapturePort.cpp:397`, 418) |
| `ReadyIsLast` | `CaptureSafety.cfg` | the ready message overtakes the stop message (`AudioTape.cpp:408`) |
| `DiscardedOnlyIfShort` | `CaptureSafety.cfg` | a long recording is discarded as short, its duration not being set yet (`AudioTape.cpp:408`) |
| `AudioKept` | `ChainCommand.cfg`, `DistinctNames = FALSE`, `Base = {b1}` | two recordings of a port that begin in one second share a capture file, whose name is built before the identifier is checked (`AudioTape.cpp:297`) |
| `AsReported` | `ChainCommand.cfg`, `Chain <- ShippedChain`, `DeleteNativeFile = FALSE`, `DeleteFailedCaptureFile = TRUE` | the output of a successful transcoding is deleted and still reported (`BatchProcessing.cpp:652`) |
| `AsReported` | `ChainCommand.cfg` | a command without `[IN]` leaves the audio in the file it was set aside in (`CommandProcessing.cpp:176`) |
| `AudioKept` | `ChainNaming.cfg`, `Command = "plain"` | a command has the audio set aside, which frees the final name; the next tape takes the same name, and its audio is set aside over that of the first (`CommandProcessing.cpp:163`, `TapeFileNaming.cpp:121`) |
| `AsReported` | `ChainNaming.cfg`, `Chain <- SideChain` | after direction selection the reported name is that of the capture file (`DirectionSelector.cpp:326`) |
| `StartedOnlyIfWanted` | `Reporting.cfg`, `PauseRecordingOnRejectedStart = FALSE` | a rejected start still starts the capture of its parties (`TapeMsg.cpp:124`) |
| `TurnedAwayOnlyIfFull` | `EventStreaming.cfg` | of clients that connect together for the last place all may be turned away, each counted before any has left (`MultiThreadedServer.cpp:823`) |
| `EverySampleFiled` | `RtpMixer.cfg` | in a stereo output a chunk that overlaps an earlier one of its channel replaces what has not been shipped of it, where a mono output adds the two (`RtpMixer.cpp:741`) |
| `FilledIsKept`, `SpanIsUsed` | `RtpMixer.cfg` | a chunk that fills the buffer to its last sample makes it look empty, and its audio is lost (`RtpMixer.cpp:1027`) |
| `PortPerCall` | `VoIpSessions.cfg`, `Configs <- MCTwoStopped` | the sessions that `StopCapture` makes report to one port without a name (`VoIpSession.cpp:4332`, comment at 4685) |
| `EveryPortInTurn` | `VoIpSessions.cfg`, `Configs <- MCRawOnDemand` | a raw session started by command is started again when its packets are counted (`VoIpSession.cpp:1121`) |
| `EveryPortInTurn` | `VoIpSessions.cfg` | an invite of another call makes a started session a raw one, "so that SetMediaAddress() successfully replaces it" (`VoIpSession.cpp:2006`); if the invite is sendonly, or names the address the call has, nothing replaces it, and it is started again at the raw threshold (line 1409) |
| `RecordsWhatTalks` | `VoIpSessions.cfg`, `MinPackets = 1` | with `RtpMinAmountOfPacketsBeforeStart` 1 (50 unless configured, `VoIpConfig.cpp:125`) a session of one packet that an invite makes a raw one is past the count it would start at, and never starts |
| `WholeCalls` | `PortSegments.cfg` | on a port that is used again, audio of the next call is dropped behind the stopped tape of the last one until its segment is due (`CapturePort.cpp:155`, 277) |
| `OwnCallOnly` | `PortSegments.cfg` | the next call's identifier and parties are given to that stopped tape (`CapturePort.cpp:318`, `CapturePluginProxy.cpp:349`) |
| `StoppedOnce` | `PortSegments.cfg` | a tape stopped by the plugin is stopped and reported again when its segment is due or silence comes (`CapturePort.cpp:159`, 236) |
| `StopsRecording` | `PortSegments.cfg` | a sound device that was told to stop is recorded again as soon as the segment is due (`CapturePort.cpp:163`) |

Met while reading, and kept out of the models or allowed for in their properties:

* *Sessions.*  `StopCapture` of a session without call id files its copy under the
  empty call id, and `Stop` does not erase it there; the properties of
  `VoIpSessions` except it (`Stale`).  With `DiscardUnidirectionalCalls` in look-back
  mode, a Skinny or raw session whose second side is heard before its threshold of
  packets waits for a second side for ever.  With several mappings and the second
  address followed, a stream break maps a session that was stopped.  Call
  information that comes late may, with `SkinnyAllowMediaAddressTransfer`, detach a
  session that was started.  `StopCapture` with several mappings moves only
  `m_ipAndPort` to the copy.  In `ReportSipInvite` an inner `session` hides the outer
  one (`VoIpSession.cpp:1987`).  Skinny's resume adds hold time without having been
  on hold, and `m_holdBegin` is not initialised.  `StopAll` is called without the
  mutex at the end of a replay (`VoIp.cpp:1044`).
* *Mixer.*  With a stereo output split over two files, the second mixer is never given the
  end-of-stream marker (`BatchProcessing.cpp:566` says "Flush the RTP mixer").
* *Tapes.*  `GetMessage` of a tape that the party filter rejects returns no message,
  and `Reporting::AddMessage` dereferences it (`Reporting.cpp:173`); `Write` makes
  such a tape active without a file.
* *Segmentation.*  With VAD a port that is silent for ten minutes is dismissed with
  its backlog, so that what is recorded of the call later has no metadata (`told`).
  The number in the identifier runs on over the calls of a port.
* *Reporting.*  The loop around the initial message is outside the `try` of the thread
  (`Reporting.cpp:311-327`): an answer to it whose values cannot be read would end the
  thread, where later ones are caught; `InitAnswered` has readable answers only.
* *OrkTrack.*  Any answer counts as delivered; a message sent again after a lost
  answer makes a second record.  `Port.notifyTapeMessage` and `OrkLruMap` are not
  called by anything.

## 7. Not modelled

File formats and codecs, protocol parsers, serialisation, HTTP serving and
configuration are input/output or stateless arithmetic, and so is most of
`StdString.h`, `Utils.cpp` and the vendored GSM, iLBC and G.726 code, which make up a large
part of the repository's lines.

* The reassemblers of the parsers (`IpFragmentation`, `SipTcp`) and the state of
  `DtmfHandling` feed parsers that have no model; `VoIpSessions` takes what comes out
  of them as inputs in any order.
* `Iax2Session` has the role of `VoIpSessions` for another protocol; what the ports
  see of it is in `Capture` (`MayRestart`) and `PortSegments` (`"iax"`).
* The port registry (`CapturePort.cpp:451-485`): the ports of the models exist.  Capture port filters and the party filter.
* `SocketStreamer` only logs what it reads.  `OrkTrack`'s Java code stores records in a
  database; `Reporting` takes any answer from it.
* In `Capture`: imported tapes.  In `Reporting`: HTTPS connections with their
  second attempt, messages other than those of tapes, and the data race of a
  registering thread with an iterating `AddMessage` beyond "sees the new entry or
  not".  In `TapeChain`: imported tapes with their shortcuts past processors, the
  secondary output path, and how samples become samples; a chain thread's exit
  (nothing pushes an empty tape).  In `RtpMixer`: the value of a sum, its saturation,
  and the distribution of channels over the sides of a stereo output.
