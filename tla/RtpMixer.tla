------------------------------- MODULE RtpMixer ------------------------------
(***************************************************************************)
(* The RTP mixer (filters/rtpmixer/RtpMixer.cpp) and the loop of           *)
(* BatchProcessing.cpp that feeds it: the chunks of a recording, of two or *)
(* more channels, are added up in a circular buffer at the place that      *)
(* their timestamps give, and leave it in shipments.                       *)
(*                                                                         *)
(* Samples are told apart by the chunk they come from, its channel and the *)
(* corrected timestamp they were stored at.  A cell of the buffer has the  *)
(* samples that are heard at its place: of a mono output those added up in *)
(* the mixer's own buffer, of a stereo output those in the buffers that    *)
(* the channels have at the same place, each of which keeps the last       *)
(* sample stored in it.  The value of a sample, its saturation, statistics *)
(* and logging are left out, and so is the distribution of the channels    *)
(* over the two sides of a stereo output.  Timestamps have the width Wrap. *)
(***************************************************************************)
EXTENDS Integers, Sequences, FiniteSets

CONSTANTS
  Cap,          \* NUM_SAMPLES_CIRCULAR_BUFFER
  Trigger,      \* m_numSampleTrigger
  Holdoff,      \* m_NumSampleShipmentHoldoff
  Wrap,         \* 2^32
  RogueStep,    \* 20: how far the timestamps of a rogue user agent advance
  PacketSamples,\* 160: the samples of its packets
  MaxSamples,   \* a chunk with more of them is an error
  Channel, Timestamp, Size,  \* of the chunks to consider
  MaxChunks     \* bound: chunks of a recording

ASSUME MixerAssumption ==
  /\ Cap \in Nat /\ Trigger \in Nat /\ Holdoff \in Nat /\ Wrap \in Nat
  /\ 0 < Holdoff /\ Holdoff <= Trigger /\ Trigger < Cap /\ 2 * Cap <= Wrap
  /\ RogueStep \in Nat /\ PacketSamples \in Nat /\ MaxSamples \in Nat /\ MaxChunks \in Nat
  /\ Channel \subseteq Nat \ {0} /\ Timestamp \subseteq 0..Wrap - 1 /\ Size \subseteq Nat \ {0}

VARIABLES
  mixer,   \* the fields of the RtpMixer object
  phase,   \* of the batch thread: "mixing", "flushing", "done"
  file,    \* the chunks written to the output file
  chunks,  \* history: chunks given to the mixer
  mixed,   \* history: samples mixed in
  lost     \* history: samples in the buffer when it was filled to the last one

vars == <<mixer, phase, file, chunks, mixed, lost>>

Position == 0..Cap - 1
Timestamps == 0..Wrap - 1
Unset == -1
AudioChunk == [channel : Channel, ts : Timestamp, n : Size]
Sample == [chunk : 1..MaxChunks, channel : Channel, ts : Timestamps]

\* RtpMixer::RtpMixer.  stereo: the output has two channels and TapeNumChannels is 2 or more.
NewMixer(stereo) ==
  [stereo |-> stereo, write |-> 0, read |-> 0, writeTs |-> 0, readTs |-> 0,
   buffer |-> [p \in Position |-> {}], delta |-> 0, channelDelta |-> [c \in Channel |-> 0],
   oneS1 |-> FALSE, lastTs |-> [c \in Channel |-> Unset], lastChunk |-> [c \in Channel |-> Unset],
   inputs |-> 0, output |-> <<>>, error |-> FALSE]

Init ==
  /\ \E stereo \in BOOLEAN : mixer = NewMixer(stereo)
  /\ phase = "mixing"
  /\ file = <<>>
  /\ chunks = 0
  /\ mixed = {}
  /\ lost = {}

-----------------------------------------------------------------------------
(* The circular buffer.  A definition named X_Y is X with a plausible        *)
(* mistake Y in it: it takes no part in the specification, and serves to see *)
(* that a property notices.                                                  *)

\* CircularPointerAddOffset and CicularPointerSubtractOffset, of less than Cap.
Ahead(p, n) == IF p + n >= Cap THEN p + n - Cap ELSE p + n
Behind(p, n) == IF p < n THEN p + Cap - n ELSE p - n
\* How far position p is ahead of position from.
Distance(from, p) == IF p >= from THEN p - from ELSE p + Cap - from

UsedSpace(m) == Distance(m.read, m.write)
FreeSpace(m) == Cap - UsedSpace(m)

\* An unsigned difference, and what (int) makes of one.
Minus(a, b) == IF a >= b THEN a - b ELSE a - b + Wrap
Signed(u) == IF u < Wrap \div 2 THEN u ELSE u - Wrap

\* Reset.
Reset(m, ts) == [m EXCEPT !.write = 0, !.read = 0, !.writeTs = ts, !.readTs = ts]

\* The cells from a position on, n of them, made silent.
Zeroed(m, n) == [p \in Position |-> IF Distance(m.write, p) < n THEN {} ELSE m.buffer[p]]

\* StoreRtpPacket, 1: silence up to the end of the chunk.  A chunk across the wrap of
\* the timestamps, or whose end is out of reach, is dismissed.
Dismissed(m, n, ts) == ts + n >= Wrap \/ ts + n - m.writeTs >= Cap
Silence(m, n, ts) == IF ts + n > m.writeTs THEN ts + n - m.writeTs ELSE 0
Extended(m, n, ts) ==
  [m EXCEPT !.buffer = Zeroed(m, Silence(m, n, ts)),
            !.write = Ahead(m.write, Silence(m, n, ts)),
            !.writeTs = m.writeTs + Silence(m, n, ts)]

\* A buffer that this fills to the last sample looks empty (UsedSpace).
Fills(m, n, ts) == ~Dismissed(m, n, ts) /\ UsedSpace(m) + Silence(m, n, ts) = Cap

\* StoreRtpPacket, 2: the samples go in from the place of the corrected timestamp.
Mixable(m, n, ts) == ~Dismissed(m, n, ts) /\ Extended(m, n, ts).writeTs - ts < Cap
NewSample(c, t) == [chunk |-> chunks + 1, channel |-> c.channel, ts |-> t]
Stored(m, c, ts) == IF Mixable(m, c.n, ts) THEN {NewSample(c, t) : t \in ts..ts + c.n - 1} ELSE {}

\* They are added to what the mixer's buffer has there, and replace what their channel's has.
Heard_Assigned(m, cell, s) == {r \in cell : m.stereo /\ r.channel # s.channel} \cup {s}
Heard(m, cell, s) == IF m.stereo THEN {r \in cell : r.channel # s.channel} \cup {s} ELSE cell \cup {s}
Place_AtEnd(m, n, ts) == Behind(m.write, n)
Place(m, n, ts) == Behind(m.write, m.writeTs - ts)
Mixed(m, c, ts) ==
  LET Offset(p) == Distance(Place(m, c.n, ts), p)
  IN  [m EXCEPT !.buffer = [p \in Position |->
         IF Offset(p) < c.n THEN Heard(m, @[p], NewSample(c, ts + Offset(p))) ELSE @[p]]]
StoreRtpPacket(m, c, ts) ==
  IF Dismissed(m, c.n, ts) THEN m
  ELSE IF Mixable(m, c.n, ts) THEN Mixed(Extended(m, c.n, ts), c, ts)
  ELSE Extended(m, c.n, ts)

\* CreateShipment: up to the holdoff, or everything; two chunks if that wraps.  Of an
\* empty chunk CheckChunkDetails makes nothing.
Cells(m, from, n) == IF n = 0 THEN <<>> ELSE <<[i \in 1..n |-> m.buffer[from + i - 1]]>>
ShipmentEnd(m, force) == IF force THEN m.write ELSE Behind(m.write, Holdoff)
First(m, stop) == (IF stop < m.read THEN Cap ELSE stop) - m.read
Second(m, stop) == IF stop < m.read THEN stop ELSE 0
TimeShipped_First(m, stop) == First(m, stop)
TimeShipped(m, stop) == First(m, stop) + Second(m, stop)
CreateShipment(m, force) ==
  LET stop == ShipmentEnd(m, force)
  IN  [m EXCEPT !.output = @ \o Cells(m, m.read, First(m, stop)) \o Cells(m, 0, Second(m, stop)),
                !.read = Ahead(Ahead(@, First(m, stop)), Second(m, stop)),
                !.readTs = @ + TimeShipped(m, stop)]

-----------------------------------------------------------------------------
(* A chunk arrives: c has a channel, a timestamp and a number of samples.    *)

\* CreateChannels.
WithChannels(m, c) == IF m.stereo /\ c.channel > m.inputs THEN [m EXCEPT !.inputs = c.channel] ELSE m

\* The timestamps of a rogue user agent are in milliseconds: each that is RogueStep after
\* the last one that was is replaced by the end of the chunk before.  Channels above 2
\* are known in stereo only.
Known(m, ch) == ch <= 2 \/ m.inputs > 0
IsRogue(m, c) == m.lastChunk[c.channel] # Unset /\ Minus(c.ts, m.lastTs[c.channel]) = RogueStep
Repaired(m, c) == IF Known(m, c.channel) /\ IsRogue(m, c) THEN (m.lastChunk[c.channel] + PacketSamples) % Wrap ELSE c.ts
Noted(m, c) ==
  IF ~Known(m, c.channel) THEN m
  ELSE [m EXCEPT !.lastTs[c.channel] = IF IsRogue(m, c) \/ m.lastChunk[c.channel] = Unset THEN c.ts ELSE @,
                 !.lastChunk[c.channel] = Repaired(m, c)]

\* Channel 2 follows channel 1 at a fixed distance, found anew after its first chunk.
Synced(m, c) ==
  IF c.channel # 2 THEN m
  ELSE IF m.oneS1 THEN [m EXCEPT !.delta = c.ts - m.writeTs, !.oneS1 = FALSE]
  ELSE IF m.delta = 0 /\ m.writeTs # 0 THEN [m EXCEPT !.delta = c.ts - m.writeTs]
  ELSE m
DeltaOf(m, ch) == IF ch = 2 THEN m.delta ELSE m.channelDelta[ch]
CorrectedTimestamp(m, c) ==
  IF c.channel = 1 THEN c.ts
  ELSE IF ~Known(m, c.channel) THEN 0
  ELSE IF c.ts < DeltaOf(m, c.channel) THEN c.ts
  ELSE (c.ts - DeltaOf(m, c.channel)) % Wrap

Fits(m, n, ts) ==
  /\ Signed(Minus((ts + n) % Wrap, m.writeTs)) <= FreeSpace(m)
  /\ Signed(Minus(m.writeTs, ts)) <= UsedSpace(m)

\* What is left of the buffer before the chunk goes in: for the first chunk a fresh one,
\* and for a chunk of channel 1 out of range one that has shipped everything.
Opened(m, ts) == [m EXCEPT !.writeTs = ts, !.readTs = ts, !.oneS1 = TRUE]
Restarted_KeepsBuffer(m, ts) == [Reset(m, ts) EXCEPT !.delta = 0]
Restarted(m, ts) == [Reset(CreateShipment(m, TRUE), ts) EXCEPT !.delta = 0]
\* ManageOutOfRangeTimestamp of the other channels: the next chunk is to fit, this one is lost.
Realigned(m, c) ==
  IF c.channel = 2 THEN [m EXCEPT !.delta = c.ts - m.writeTs]
  ELSE IF m.inputs > 0 THEN [m EXCEPT !.channelDelta[c.channel] = c.ts - m.writeTs]
  ELSE m

\* AudioChunkIn of a chunk with audio: the chunk with its timestamp repaired, and the
\* mixer that has taken notice of it.
TooBig(c) == c.n > MaxSamples
Arrived(c) == [c EXCEPT !.ts = Repaired(WithChannels(mixer, c), c)]
Prepared(c) == Synced(Noted(WithChannels(mixer, c), c), Arrived(c))
InRange(m, n, ts) == ts >= m.readTs /\ Fits(m, n, ts)
\* Before the first chunk of channel 1 nothing is stored; chunks out of range only of channel 1.
IsStored(m, c, ts) == c.channel = 1 \/ (m.writeTs # 0 /\ InRange(m, c.n, ts))
Target(m, c, ts) ==
  IF m.writeTs = 0 THEN Opened(m, ts)
  ELSE IF InRange(m, c.n, ts) THEN m ELSE Restarted(m, ts)
ShipsAfter(m, c, ts, m2) == m.writeTs # 0 /\ InRange(m, c.n, ts) /\ UsedSpace(m2) > Trigger

\* AudioChunkOut, and the write to the file of the chunk it returns, if any.
WriteOut(m) ==
  IF m.output = <<>>
  THEN mixer' = m /\ UNCHANGED file
  ELSE mixer' = [m EXCEPT !.output = Tail(@)] /\ file' = Append(file, Head(m.output))

SamplesOf(cells) == UNION {cells[p] : p \in DOMAIN cells}
AudioChunkIn(c) ==
  LET m == Prepared(c)
      ts == CorrectedTimestamp(m, Arrived(c))
      target == Target(m, c, ts)
      stored == StoreRtpPacket(target, c, ts)
      shipped == IF ShipsAfter(m, c, ts, stored) THEN CreateShipment(stored, FALSE) ELSE stored
  IN  IF mixer.error \/ TooBig(c)
      THEN WriteOut([mixer EXCEPT !.error = TRUE]) /\ UNCHANGED <<mixed, lost>>
      ELSE IF IsStored(m, c, ts)
      THEN /\ WriteOut(shipped)
           /\ mixed' = mixed \cup Stored(target, c, ts)
           /\ lost' = IF Fills(target, c.n, ts) THEN lost \cup SamplesOf(stored.buffer) ELSE lost
      ELSE /\ WriteOut(IF m.writeTs = 0 THEN m ELSE Realigned(m, Arrived(c)))
           /\ UNCHANGED <<mixed, lost>>

\* One turn of the batch thread's loop.
Chunk(c) ==
  /\ phase = "mixing"
  /\ chunks < MaxChunks
  /\ chunks' = chunks + 1
  /\ AudioChunkIn(c)
  /\ UNCHANGED phase

\* After the last chunk: the end-of-stream marker, unless the mixer is in error.
Flushed_WithHoldoff(m) == IF m.error THEN m ELSE CreateShipment(m, FALSE)
Flushed(m) == IF m.error THEN m ELSE CreateShipment(m, TRUE)
EndOfStream ==
  /\ phase = "mixing"
  /\ phase' = "flushing"
  /\ mixer' = Flushed(mixer)
  /\ UNCHANGED <<file, chunks, mixed, lost>>

\* Then all that the mixer has left, chunk by chunk.
Drain ==
  /\ phase = "flushing"
  /\ WriteOut(mixer)
  /\ phase' = IF mixer.output = <<>> THEN "done" ELSE phase
  /\ UNCHANGED <<chunks, mixed, lost>>

Next ==
  \/ \E c \in AudioChunk : Chunk(c)
  \/ EndOfStream
  \/ Drain

Spec == Init /\ [][Next]_vars

-----------------------------------------------------------------------------
(* Properties.                                                               *)

Mixer ==
  [stereo : BOOLEAN, write : Position, read : Position, writeTs : Timestamps, readTs : Timestamps,
   buffer : [Position -> SUBSET Sample], delta : Int, channelDelta : [Channel -> Int],
   oneS1 : BOOLEAN, lastTs : [Channel -> Timestamps \cup {Unset}],
   lastChunk : [Channel -> Timestamps \cup {Unset}], inputs : Channel \cup {0},
   output : Seq(Seq(SUBSET Sample)), error : BOOLEAN]

TypeOK ==
  /\ mixer \in Mixer
  /\ phase \in {"mixing", "flushing", "done"}
  /\ file \in Seq(Seq(SUBSET Sample))
  /\ chunks \in 0..MaxChunks
  /\ mixed \subseteq Sample
  /\ lost \subseteq Sample

\* The pointers of the buffer and its timestamps say the same: what lies between them, but
\* for the times that the buffer was filled to the last sample.  Each of these puts the
\* timestamp that is read (CreateShipment) behind by the whole buffer, until a restart.
SpanAccounted ==
  /\ mixer.readTs <= mixer.writeTs
  /\ (mixer.writeTs - mixer.readTs) % Cap = UsedSpace(mixer)

\* Where samples are: between the pointers, in the output queue, in the file.
Held(i) == mixer.buffer[Ahead(mixer.read, i)]
Buffered == UNION {Held(i) : i \in 0..UsedSpace(mixer) - 1}
InChunks(chunksOut) == UNION {SamplesOf(chunksOut[i]) : i \in DOMAIN chunksOut}
Queued == InChunks(mixer.output)
Filed == InChunks(file)

\* In a stereo output a sample stands for the earlier ones of its channel at its time.
StandsFor(t, s) ==
  \/ t = s
  \/ mixer.stereo /\ t.channel = s.channel /\ t.ts = s.ts /\ t.chunk > s.chunk

\* What was mixed in is in the buffer, in the output queue or in the file, in one of them
\* only, or what replaced it is, a later sample of its channel for the same time: a mono
\* output loses nothing that waits (StoreRtpPacket), and CreateShipment ships nothing twice.
\* Only a buffer that was filled to the last sample is lost, with all that was in it.
AudioHeld ==
  /\ \A s \in mixed : \E t \in Buffered \cup Queued \cup Filed \cup lost : StandsFor(t, s)
  /\ Buffered \cup Queued \cup Filed \cup lost \subseteq mixed
  /\ Buffered \cap (Queued \cup Filed \cup lost) = {}
  /\ Queued \cap (Filed \cup lost) = {}
  /\ Filed \cap lost = {}

\* Mixing in time: samples that are shipped together lie as far from each other as their
\* timestamps, whatever restarts, late chunks and wraps of the buffer came before.
Aligned(cells) == \A i, j \in DOMAIN cells : \A s \in cells[i], t \in cells[j] : s.ts - t.ts = i - j
AllAligned(chunksOut) == \A k \in DOMAIN chunksOut : Aligned(chunksOut[k])
OutputAligned == AllAligned(file) /\ AllAligned(mixer.output)

\* The recording is complete: at the end of the stream everything that was mixed in, or
\* what replaced it, is in the file, unless it was in a buffer that was filled to the last
\* sample, or a chunk that is too big stopped the mixer.
FlushedAtEnd ==
  phase = "done" /\ ~mixer.error =>
    \A s \in mixed : \E t \in Filed \cup lost : StandsFor(t, s)
=============================================================================
