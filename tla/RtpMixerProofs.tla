--------------------------- MODULE RtpMixerProofs ----------------------------
(***************************************************************************)
(* Proofs about RtpMixer: for every size of the buffer, every trigger and  *)
(* holdoff and all chunks, the types, that the pointers of the circular    *)
(* buffer and the timestamps agree, where all audio is, that none of it is *)
(* shipped twice, and that what is shipped together is in time.            *)
(*                                                                         *)
(* The argument is about one mixer at a time: Sound(m) says that the time  *)
(* between the timestamps is what lies between the pointers and a multiple *)
(* of the buffer.  Every operation keeps it; a store that fills the buffer *)
(* to the last sample adds one buffer.  Tidy(m) says that a sample is as   *)
(* far from the write pointer as its timestamp from the write timestamp:   *)
(* that puts the samples of a shipment in time, and keeps two parts of the *)
(* buffer from sharing a sample.  Holds(m, f, d, g) says that of the       *)
(* samples d each is in the buffer, in the output queue, in the file f or  *)
(* among the lost g, or a later one that replaced it is, none of them      *)
(* twice.                                                                  *)
(***************************************************************************)
EXTENDS RtpMixer, SequenceTheorems, TLAPS

\* The multiples of the size of the buffer.
Laps == {k * Cap : k \in Nat}

Span(m) == m.writeTs - m.readTs
Sound(m) == m \in Mixer /\ Span(m) - UsedSpace(m) \in Laps

MixerInv == TypeOK /\ Sound(mixer)

\* The constants as the proofs need them.
LEMMA Bounds ==
  /\ Cap \in Nat /\ Trigger \in Nat /\ Holdoff \in Nat /\ Wrap \in Nat
  /\ 0 < Holdoff /\ Holdoff <= Trigger /\ Trigger < Cap /\ 2 * Cap <= Wrap /\ Cap < Wrap
  /\ MaxChunks \in Nat /\ RogueStep \in Nat /\ PacketSamples \in Nat
BY MixerAssumption

\* Chunks have a place, a timestamp and at least one sample.
LEMMA ChunkType ==
  ASSUME NEW c \in AudioChunk
  PROVE  c.channel \in Channel /\ c.channel \in Nat \ {0} /\ c.ts \in Timestamps /\ c.n \in Nat \ {0}
BY MixerAssumption DEF AudioChunk, Timestamps

\* Used space is less than the capacity: equal pointers count as empty.
LEMMA UsedBound ==
  ASSUME NEW m \in Mixer
  PROVE  UsedSpace(m) \in 0..Cap - 1
<1>1. m.read \in 0..Cap - 1 /\ m.write \in 0..Cap - 1
  BY DEF Mixer, Position
<1>2. QED
  BY <1>1, Bounds DEF UsedSpace, Distance

\* The numbers of a mixer.
LEMMA MixerNumbers ==
  ASSUME NEW m \in Mixer
  PROVE  m.writeTs \in Int /\ m.readTs \in Int /\ m.writeTs >= 0 /\ UsedSpace(m) \in Nat
<1>1. m.writeTs \in 0..Wrap - 1 /\ m.readTs \in 0..Wrap - 1
  BY DEF Mixer, Timestamps
<1>2. QED
  BY <1>1, UsedBound, Bounds

\* Multiples of the size of the buffer are counted from nothing on, and leave the
\* remainder as it is.
LEMMA LapsCount == 0 \in Laps /\ \A x \in Laps : x \in Nat /\ x + Cap \in Laps
<1>1. 0 = 0 * Cap
  BY Bounds
<1>2. ASSUME NEW x \in Laps PROVE x \in Nat /\ x + Cap \in Laps
  <2>1. PICK k \in Nat : x = k * Cap
    BY DEF Laps
  <2>2. x \in Nat /\ x + Cap = (k + 1) * Cap
    BY <2>1, Bounds
  <2> QED
    BY <2>2 DEF Laps
<1> QED
  BY <1>1, <1>2 DEF Laps

LEMMA LapsRemainder ==
  ASSUME NEW x \in Laps, NEW r \in 0..Cap - 1
  PROVE  (x + r) % Cap = r
<1>1. PICK k \in Nat : x = k * Cap
  BY DEF Laps
<1>2. (k * Cap + r) % Cap = r
  BY Bounds
<1> QED
  BY <1>1, <1>2

\* The time between the timestamps is no less than what lies between the pointers.
LEMMA SoundSpan ==
  ASSUME NEW m, Sound(m)
  PROVE  UsedSpace(m) <= m.writeTs - m.readTs /\ m.readTs <= m.writeTs
<1>1. PICK x \in Nat : x = Span(m) - UsedSpace(m)
  BY LapsCount DEF Sound
<1> QED
  BY <1>1, MixerNumbers DEF Span, Sound

\* Reset empties a mixer.
LEMMA ResetEmpty ==
  ASSUME NEW m \in Mixer, NEW ts \in Timestamps
  PROVE  LET r == [Reset(m, ts) EXCEPT !.delta = 0]
         IN  r \in Mixer /\ r.read = 0 /\ r.write = 0 /\ r.readTs = ts /\ r.writeTs = ts
<1>1. 0 \in Position /\ 0 \in Int
  BY Bounds DEF Position
<1> DEFINE r == Reset(m, ts)
<1>2. r \in Mixer /\ r.read = 0 /\ r.write = 0 /\ r.readTs = ts /\ r.writeTs = ts
  BY <1>1 DEF Reset, Mixer
<1> HIDE DEF r
<1> DEFINE q == [r EXCEPT !.delta = 0]
<1>3. q \in Mixer /\ q.read = 0 /\ q.write = 0 /\ q.readTs = ts /\ q.writeTs = ts
  BY <1>1, <1>2 DEF Mixer
<1>4. QED
  BY <1>3 DEF r

\* CircularPointerAddOffset stays in the buffer.
LEMMA AheadInBuffer ==
  ASSUME NEW p \in Position, NEW n \in 0..Cap
  PROVE  Ahead(p, n) \in Position
BY Bounds DEF Ahead, Position

-----------------------------------------------------------------------------
(* StoreRtpPacket.                                                           *)

\* Writing silence moves the write pointer and the write timestamp alike; if it fills the
\* buffer, the pointers fall behind by all of it.
LEMMA ExtendedSound ==
  ASSUME NEW m \in Mixer, Sound(m), NEW n \in Nat \ {0}, NEW ts \in Timestamps, ~Dismissed(m, n, ts)
  PROVE  LET e == Extended(m, n, ts)
         IN  Sound(e) /\ e.writeTs >= ts + n
<1> DEFINE k == Silence(m, n, ts)
           e == Extended(m, n, ts)
<1>1. m.read \in 0..Cap - 1 /\ m.write \in 0..Cap - 1 /\ m.writeTs \in 0..Wrap - 1 /\ m.readTs \in 0..Wrap - 1
  BY DEF Mixer, Position, Timestamps
<1>2. k \in 0..Cap - 1 /\ m.writeTs + k \in Timestamps /\ m.writeTs + k >= ts + n
  BY <1>1, Bounds DEF Silence, Dismissed, Timestamps
<1>3. Ahead(m.write, k) \in Position
  BY <1>1, <1>2, Bounds DEF Ahead, Position
<1>4. Zeroed(m, k) \in [Position -> SUBSET Sample]
  BY DEF Zeroed, Mixer
<1>5. e = [m EXCEPT !.buffer = Zeroed(m, k), !.write = Ahead(m.write, k), !.writeTs = m.writeTs + k]
  BY DEF Extended
<1> HIDE DEF k, e
<1>6. /\ e \in Mixer
      /\ e.read = m.read /\ e.readTs = m.readTs
      /\ e.write = Ahead(m.write, k) /\ e.writeTs = m.writeTs + k
  BY <1>2, <1>3, <1>4, <1>5 DEF Mixer
<1>7. PICK x \in Nat : x = m.writeTs - m.readTs - UsedSpace(m) /\ x \in Laps
  BY LapsCount DEF Sound, Span
<1>8. \/ e.writeTs - e.readTs - UsedSpace(e) = x
      \/ e.writeTs - e.readTs - UsedSpace(e) = x + Cap
  BY <1>1, <1>2, <1>6, <1>7, Bounds DEF UsedSpace, Distance, Ahead
<1>9. e.writeTs - e.readTs - UsedSpace(e) \in Laps
  BY <1>7, <1>8, LapsCount
<1> QED
  BY <1>2, <1>6, <1>9 DEF Sound, Span, e

\* A sample of a chunk is one.
LEMMA NewSampleType ==
  ASSUME NEW c \in AudioChunk, NEW t \in Timestamps, chunks + 1 \in 1..MaxChunks
  PROVE  NewSample(c, t) \in Sample
BY ChunkType DEF NewSample, Sample

\* A new sample is heard, alone or with others that were there; what it replaces, in a
\* stereo output, is of its channel.
LEMMA HeardIs ==
  ASSUME NEW m, NEW cell, NEW s
  PROVE  /\ s \in Heard(m, cell, s)
         /\ Heard(m, cell, s) \subseteq cell \cup {s}
         /\ \A r \in cell : r \in Heard(m, cell, s) \/ (m.stereo /\ r.channel = s.channel)
BY DEF Heard

\* Mixing changes the cells of the buffer only.
LEMMA MixedSound ==
  ASSUME NEW m \in Mixer, Sound(m), NEW c \in AudioChunk, NEW ts \in Timestamps,
         ts + c.n < Wrap, m.writeTs - ts < Cap, ts <= m.writeTs, chunks + 1 \in 1..MaxChunks
  PROVE  Sound(Mixed(m, c, ts))
<1> DEFINE Offset(p) == Distance(Place(m, c.n, ts), p)
           New(p) == NewSample(c, ts + Offset(p))
           b == [p \in Position |-> IF Offset(p) < c.n THEN Heard(m, m.buffer[p], New(p)) ELSE m.buffer[p]]
           x == Mixed(m, c, ts)
<1>1. /\ m.buffer \in [Position -> SUBSET Sample] /\ m.write \in 0..Cap - 1 /\ m.writeTs \in 0..Wrap - 1
      /\ c.n \in Nat
  BY ChunkType DEF Mixer, Position, Timestamps
<1>2. ASSUME NEW p \in Position, Offset(p) < c.n
      PROVE  Heard(m, m.buffer[p], New(p)) \in SUBSET Sample
  <2>1. Place(m, c.n, ts) \in 0..Cap - 1 /\ ts \in 0..Wrap - 1
    BY <1>1, Bounds DEF Place, Behind, Timestamps
  <2>2. Offset(p) \in Nat
    BY <2>1, Bounds DEF Distance, Position
  <2>3. ts + Offset(p) \in Timestamps
    BY <1>1, <1>2, <2>1, <2>2, Bounds DEF Timestamps
  <2> HIDE DEF Offset
  <2>4. New(p) \in Sample /\ m.buffer[p] \subseteq Sample
    BY <1>1, <2>3, NewSampleType
  <2> HIDE DEF New
  <2> QED
    BY <2>4, HeardIs
<1> HIDE DEF Offset, New
<1>3. b \in [Position -> SUBSET Sample]
  <2>1. ASSUME NEW p \in Position PROVE b[p] \in SUBSET Sample
    BY <1>1, <1>2
  <2>2. QED
    BY <2>1
<1>4. x = [m EXCEPT !.buffer = b]
  BY DEF Mixed, Offset, New, Mixer
<1> HIDE DEF b, x
<1>5. /\ x \in Mixer
      /\ x.read = m.read /\ x.write = m.write
      /\ x.readTs = m.readTs /\ x.writeTs = m.writeTs
  BY <1>3, <1>4 DEF Mixer
<1>6. QED
  BY <1>5 DEF Sound, Span, UsedSpace, x

\* StoreRtpPacket keeps a mixer sound.
LEMMA StoreSound ==
  ASSUME NEW m \in Mixer, Sound(m), NEW c \in AudioChunk, NEW ts \in Timestamps, chunks + 1 \in 1..MaxChunks
  PROVE  Sound(StoreRtpPacket(m, c, ts))
<1> DEFINE n == c.n
           e == Extended(m, n, ts)
<1>0. n \in Nat \ {0}
  BY ChunkType
<1> HIDE DEF n
<1>1. CASE Dismissed(m, n, ts)
  BY <1>1 DEF StoreRtpPacket, n
<1>2. CASE ~Dismissed(m, n, ts)
  <2>1. Sound(e) /\ e \in Mixer /\ e.writeTs >= ts + n
    BY <1>0, <1>2, ExtendedSound DEF Sound
  <2>2. CASE Mixable(m, n, ts)
    <3>1. ts + n < Wrap
      BY <1>0, <1>2, Bounds DEF Dismissed, Timestamps
    <3>2. e.writeTs \in Int /\ ts \in Int /\ e.writeTs - ts < Cap /\ ts <= e.writeTs
      BY <1>0, <2>1, <2>2, Bounds DEF Mixable, Timestamps, Mixer
    <3> HIDE DEF e
    <3>3. Sound(Mixed(e, c, ts))
      BY <2>1, <3>1, <3>2, MixedSound DEF n
    <3>4. StoreRtpPacket(m, c, ts) = Mixed(e, c, ts)
      BY <1>2, <2>2 DEF StoreRtpPacket, e, n
    <3>5. QED
      BY <3>3, <3>4
  <2>3. CASE ~Mixable(m, n, ts)
    BY <1>2, <2>1, <2>3 DEF StoreRtpPacket, n
  <2>4. QED
    BY <2>2, <2>3
<1>3. QED
  BY <1>1, <1>2

-----------------------------------------------------------------------------
(* CreateShipment.                                                           *)

\* Cells are sequences of chunks of sets of samples.
LEMMA CellsType ==
  ASSUME NEW m \in Mixer, NEW from \in Nat, NEW n \in Nat, from + n <= Cap
  PROVE  Cells(m, from, n) \in Seq(Seq(SUBSET Sample))
<1> DEFINE c == [i \in 1..n |-> m.buffer[from + i - 1]]
<1>1. ASSUME NEW i \in 1..n PROVE m.buffer[from + i - 1] \in SUBSET Sample
  BY <1>1, Bounds DEF Mixer, Position
<1>2. c \in Seq(SUBSET Sample)
  <2>1. c \in [1..n -> SUBSET Sample]
    BY <1>1
  <2>2. QED
    BY <2>1, SeqDef, ZenonT(40)
<1> HIDE DEF c
<1>3. <<c>> \in Seq(Seq(SUBSET Sample)) /\ <<>> \in Seq(Seq(SUBSET Sample))
  BY <1>2
<1>4. Cells(m, from, n) = IF n = 0 THEN <<>> ELSE <<c>>
  BY DEF Cells, c
<1>5. QED
  BY <1>3, <1>4

\* CreateShipment keeps a mixer sound: it moves pointer and timestamp by as much.  The
\* holdoff must not exceed what is in the buffer.
LEMMA ShipmentSound ==
  ASSUME NEW m \in Mixer, Sound(m), NEW force \in BOOLEAN, force \/ Holdoff <= UsedSpace(m)
  PROVE  Sound(CreateShipment(m, force))
<1> DEFINE stop == ShipmentEnd(m, force)
           f == First(m, stop)
           g == Second(m, stop)
           s == CreateShipment(m, force)
           out == m.output \o Cells(m, m.read, f) \o Cells(m, 0, g)
<1>1. m.read \in 0..Cap - 1 /\ m.write \in 0..Cap - 1 /\ m.writeTs \in 0..Wrap - 1 /\ m.readTs \in 0..Wrap - 1
  BY DEF Mixer, Position, Timestamps
<1>2. stop \in 0..Cap - 1 /\ f + g = Distance(m.read, stop) /\ f + g <= UsedSpace(m)
  BY <1>1, Bounds DEF ShipmentEnd, Behind, First, Second, UsedSpace, Distance
<1>3. f \in 0..Cap - m.read /\ g \in 0..Cap - 1
  BY <1>1, <1>2, Bounds DEF First, Second
<1>4. Ahead(Ahead(m.read, f), g) = stop
  BY <1>1, <1>2, Bounds DEF Ahead, First, Second
<1>5. UsedSpace(m) <= m.writeTs - m.readTs
  BY SoundSpan
<1> HIDE DEF f, g, stop
<1>6. m.readTs + (f + g) \in Timestamps
  BY <1>1, <1>2, <1>3, <1>5, UsedBound, Bounds DEF Timestamps
<1>7. out \in Seq(Seq(SUBSET Sample))
  <2>1. m.read \in Nat /\ f \in Nat /\ g \in Nat /\ m.read + f <= Cap /\ 0 + g <= Cap
    BY <1>1, <1>3, Bounds
  <2>2. Cells(m, m.read, f) \in Seq(Seq(SUBSET Sample)) /\ Cells(m, 0, g) \in Seq(Seq(SUBSET Sample))
    BY <2>1, CellsType
  <2>3. m.output \in Seq(Seq(SUBSET Sample))
    BY DEF Mixer
  <2>4. QED
    BY <2>1, <2>2, <2>3
<1>8. s = [m EXCEPT !.output = out, !.read = stop, !.readTs = m.readTs + (f + g)]
  BY <1>4 DEF CreateShipment, TimeShipped, f, g, stop
<1> HIDE DEF out, s
<1>9. /\ s \in Mixer
      /\ s.read = stop /\ s.write = m.write
      /\ s.readTs = m.readTs + (f + g) /\ s.writeTs = m.writeTs
  BY <1>2, <1>6, <1>7, <1>8 DEF Mixer, Position
<1>10. UsedSpace(s) = UsedSpace(m) - (f + g)
  <2>1. CASE force
    BY <1>1, <1>2, <1>9, <2>1, Bounds DEF UsedSpace, Distance, stop, ShipmentEnd
  <2>2. CASE ~force
    BY <1>1, <1>2, <1>9, <2>2, Bounds DEF UsedSpace, Distance, stop, ShipmentEnd, Behind
  <2>3. QED
    BY <2>1, <2>2
<1>11. Span(s) - UsedSpace(s) = Span(m) - UsedSpace(m)
  BY <1>1, <1>2, <1>3, <1>9, <1>10, UsedBound, Bounds DEF Span
<1> QED
  BY <1>9, <1>11 DEF Sound, s

-----------------------------------------------------------------------------
(* What happens to a mixer before a chunk is stored leaves its pointers and  *)
(* timestamps alone, or starts them afresh.                                  *)

SamePlace(m, x) ==
  /\ x \in Mixer
  /\ x.read = m.read /\ x.write = m.write /\ x.readTs = m.readTs /\ x.writeTs = m.writeTs
  /\ x.stereo = m.stereo

\* Nothing else is needed for a mixer to be sound.
LEMMA SamePlaceSound ==
  ASSUME NEW m, NEW x, Sound(m), SamePlace(m, x)
  PROVE  Sound(x)
BY DEF SamePlace, Sound, UsedSpace, Span

\* Repaired timestamps are timestamps.
LEMMA RepairedType ==
  ASSUME NEW m \in Mixer, NEW c \in AudioChunk
  PROVE  Repaired(m, c) \in Timestamps
<1>1. c.ts \in Timestamps /\ c.channel \in Channel
  BY ChunkType
<1>2. CASE IsRogue(m, c)
  <2>1. m.lastChunk[c.channel] \in 0..Wrap - 1
    BY <1>1, <1>2 DEF IsRogue, Mixer, Timestamps
  <2>2. (m.lastChunk[c.channel] + PacketSamples) % Wrap \in 0..Wrap - 1
    BY <2>1, Bounds
  <2>3. QED
    BY <1>1, <2>2 DEF Repaired, Timestamps
<1>3. CASE ~IsRogue(m, c)
  BY <1>1, <1>3 DEF Repaired
<1>4. QED
  BY <1>2, <1>3

\* CreateChannels, the noting of timestamps and the corrective deltas change neither
\* pointers nor timestamps of the buffer.
LEMMA WithChannelsSame ==
  ASSUME NEW m \in Mixer, NEW c \in AudioChunk
  PROVE  SamePlace(m, WithChannels(m, c))
BY ChunkType DEF WithChannels, SamePlace, Mixer

LEMMA NotedSame ==
  ASSUME NEW m \in Mixer, NEW c \in AudioChunk
  PROVE  SamePlace(m, Noted(m, c))
<1>1. c.channel \in Channel /\ c.ts \in Timestamps /\ Repaired(m, c) \in Timestamps
  BY ChunkType, RepairedType
<1> DEFINE t == [m.lastTs EXCEPT ![c.channel] = IF IsRogue(m, c) \/ m.lastChunk[c.channel] = Unset THEN c.ts ELSE @]
           l == [m.lastChunk EXCEPT ![c.channel] = Repaired(m, c)]
<1>2. t \in [Channel -> Timestamps \cup {Unset}] /\ l \in [Channel -> Timestamps \cup {Unset}]
  BY <1>1 DEF Mixer
<1>3. [m EXCEPT !.lastTs = t, !.lastChunk = l] \in Mixer
  BY <1>2 DEF Mixer
<1>4. Noted(m, c) = m \/ Noted(m, c) = [m EXCEPT !.lastTs = t, !.lastChunk = l]
  BY DEF Noted
<1> HIDE DEF t, l
<1>5. QED
  BY <1>3, <1>4 DEF SamePlace, Mixer

LEMMA SyncedSame ==
  ASSUME NEW m \in Mixer, NEW c, c.ts \in Timestamps
  PROVE  SamePlace(m, Synced(m, c))
<1>1. c.ts - m.writeTs \in Int
  BY Bounds DEF Mixer, Timestamps
<1>2. QED
  BY <1>1 DEF Synced, SamePlace, Mixer

LEMMA RealignedSame ==
  ASSUME NEW m \in Mixer, NEW c, c.ts \in Timestamps, c.channel \in Channel
  PROVE  SamePlace(m, Realigned(m, c))
<1> DEFINE d == c.ts - m.writeTs
<1>1. d \in Int
  BY Bounds DEF Mixer, Timestamps
<1> HIDE DEF d
<1>2. [m.channelDelta EXCEPT ![c.channel] = d] \in [Channel -> Int]
  BY <1>1 DEF Mixer
<1>3. Realigned(m, c) \in {m, [m EXCEPT !.delta = d], [m EXCEPT !.channelDelta = [m.channelDelta EXCEPT ![c.channel] = d]]}
  BY DEF Realigned, d
<1>4. QED
  BY <1>1, <1>2, <1>3 DEF SamePlace, Mixer

\* What a chunk arrives as, and the mixer it arrives at.
LEMMA PreparedSame ==
  ASSUME mixer \in Mixer, NEW c \in AudioChunk
  PROVE  /\ SamePlace(mixer, Prepared(c))
         /\ Arrived(c).ts \in Timestamps /\ Arrived(c).channel \in Channel
         /\ Arrived(c).channel = c.channel
<1> DEFINE w == WithChannels(mixer, c)
           n == Noted(w, c)
<1>1. SamePlace(mixer, w)
  BY WithChannelsSame
<1>2. SamePlace(w, n)
  BY <1>1, NotedSame DEF SamePlace
<1>3. c.channel \in Channel /\ Repaired(w, c) \in Timestamps
  BY <1>1, ChunkType, RepairedType DEF SamePlace
<1>4. Arrived(c) = [c EXCEPT !.ts = Repaired(w, c)]
  BY DEF Arrived
<1> HIDE DEF w, n
<1>5. Arrived(c).ts \in Timestamps /\ Arrived(c).channel = c.channel
  BY <1>3, <1>4 DEF AudioChunk
<1>6. SamePlace(n, Synced(n, Arrived(c)))
  BY <1>2, <1>5, SyncedSame DEF SamePlace
<1>7. Prepared(c) = Synced(n, Arrived(c))
  BY DEF Prepared, n, w
<1>8. QED
  BY <1>1, <1>2, <1>3, <1>5, <1>6, <1>7 DEF SamePlace

\* Corrected timestamps are timestamps.
LEMMA CorrectedType ==
  ASSUME NEW m \in Mixer, NEW c, c.ts \in Timestamps, c.channel \in Channel
  PROVE  CorrectedTimestamp(m, c) \in Timestamps
<1> DEFINE d == DeltaOf(m, c.channel)
<1>1. d \in Int
  BY DEF DeltaOf, Mixer
<1> HIDE DEF d
<1>2. c.ts \in Int /\ 0 \in Timestamps
  BY Bounds DEF Timestamps
<1>3. (c.ts - d) % Wrap \in Timestamps
  BY <1>1, <1>2, Bounds DEF Timestamps
<1>4. QED
  BY <1>2, <1>3 DEF CorrectedTimestamp, d

\* The mixer that a chunk is stored in: the same place, or an empty buffer.
LEMMA TargetSound ==
  ASSUME NEW m \in Mixer, Sound(m), NEW c, NEW ts \in Timestamps
  PROVE  Sound(Target(m, c, ts))
<1> DEFINE t == Target(m, c, ts)
<1>1. m.writeTs \in 0..Wrap - 1 /\ m.readTs \in 0..Wrap - 1 /\ UsedSpace(m) \in 0..Cap - 1
  BY UsedBound DEF Mixer, Timestamps
<1>2. CASE m.writeTs = 0
  <2>1. t = Opened(m, ts)
    BY <1>2 DEF Target
  <2>2. t \in Mixer /\ t.read = m.read /\ t.write = m.write /\ t.readTs = ts /\ t.writeTs = ts
    BY <2>1 DEF Opened, Mixer
  <2>3. UsedSpace(m) = 0
    BY <1>1, <1>2, SoundSpan
  <2>4. UsedSpace(t) = 0 /\ Span(t) = 0
    BY <2>2, <2>3 DEF UsedSpace, Span, Timestamps
  <2>5. QED
    BY <2>2, <2>4, LapsCount DEF Sound
<1>3. CASE m.writeTs # 0 /\ InRange(m, c.n, ts)
  BY <1>3 DEF Target
<1>4. CASE m.writeTs # 0 /\ ~InRange(m, c.n, ts)
  <2> DEFINE s == CreateShipment(m, TRUE)
  <2>1. s \in Mixer
    BY ShipmentSound DEF Sound
  <2>2. t = [Reset(s, ts) EXCEPT !.delta = 0]
    BY <1>4 DEF Target, Restarted
  <2> HIDE DEF s
  <2>3. t \in Mixer /\ t.read = 0 /\ t.write = 0 /\ t.readTs = ts /\ t.writeTs = ts
    BY <2>1, <2>2, ResetEmpty
  <2>4. UsedSpace(t) = 0 /\ Span(t) = 0
    BY <2>3 DEF UsedSpace, Distance, Span, Timestamps
  <2>5. QED
    BY <2>3, <2>4, LapsCount DEF Sound
<1>5. QED
  BY <1>2, <1>3, <1>4

-----------------------------------------------------------------------------
(* The steps.                                                                *)

\* AudioChunkOut and the write take a chunk from the output queue, and nothing else.
LEMMA WriteOutStep ==
  ASSUME NEW m \in Mixer, file \in Seq(Seq(SUBSET Sample)), WriteOut(m)
  PROVE  SamePlace(m, mixer') /\ file' \in Seq(Seq(SUBSET Sample))
<1>1. CASE m.output = <<>>
  BY <1>1 DEF WriteOut, SamePlace
<1>2. CASE m.output # <<>>
  <2>1. m.output \in Seq(Seq(SUBSET Sample))
    BY DEF Mixer
  <2>2. Head(m.output) \in Seq(SUBSET Sample) /\ Tail(m.output) \in Seq(Seq(SUBSET Sample))
    BY <1>2, <2>1
  <2>3. mixer' = [m EXCEPT !.output = Tail(m.output)] /\ file' = Append(file, Head(m.output))
    BY <1>2 DEF WriteOut
  <2>4. file' \in Seq(Seq(SUBSET Sample))
    BY <2>2, <2>3
  <2> QED
    BY <2>2, <2>3, <2>4 DEF SamePlace, Mixer
<1>3. QED
  BY <1>1, <1>2

\* A chunk that is not stored, and one that is too big, leave the buffer as it was.
LEMMA UnstoredStep ==
  ASSUME MixerInv, NEW x, SamePlace(mixer, x), WriteOut(x)
  PROVE  Sound(mixer') /\ file' \in Seq(Seq(SUBSET Sample))
<1>1. x \in Mixer /\ Sound(x)
  BY SamePlaceSound DEF MixerInv, SamePlace
<1>2. SamePlace(x, mixer') /\ file' \in Seq(Seq(SUBSET Sample))
  BY <1>1, WriteOutStep DEF MixerInv, TypeOK
<1> QED
  BY <1>1, <1>2, SamePlaceSound

\* The samples of a chunk, when they are mixed in, are ones.
LEMMA StoredType ==
  ASSUME NEW m, NEW c \in AudioChunk, NEW ts \in Timestamps, chunks + 1 \in 1..MaxChunks
  PROVE  Stored(m, c, ts) \subseteq Sample
<1>1. ASSUME Mixable(m, c.n, ts), NEW t \in ts..ts + c.n - 1
      PROVE  NewSample(c, t) \in Sample
  <2>1. ts \in 0..Wrap - 1 /\ ts + c.n < Wrap /\ c.n \in Nat
    BY <1>1, ChunkType, Bounds DEF Mixable, Dismissed, Timestamps
  <2>2. t \in Timestamps
    BY <2>1, <1>1, Bounds DEF Timestamps
  <2> QED
    BY <2>2, NewSampleType
<1> QED
  BY <1>1 DEF Stored

\* A chunk that is stored, and perhaps the shipment it brings about.
LEMMA StoredStep ==
  ASSUME MixerInv, NEW c \in AudioChunk, chunks < MaxChunks, AudioChunkIn(c),
         ~mixer.error, ~TooBig(c), IsStored(Prepared(c), c, CorrectedTimestamp(Prepared(c), Arrived(c)))
  PROVE  /\ Sound(mixer') /\ file' \in Seq(Seq(SUBSET Sample))
         /\ mixed' \subseteq Sample /\ lost' \subseteq Sample
<1> DEFINE m == Prepared(c)
           ts == CorrectedTimestamp(m, Arrived(c))
           target == Target(m, c, ts)
           stored == StoreRtpPacket(target, c, ts)
           shipped == IF ShipsAfter(m, c, ts, stored) THEN CreateShipment(stored, FALSE) ELSE stored
<1>1. /\ mixer \in Mixer /\ Sound(mixer) /\ chunks + 1 \in 1..MaxChunks
      /\ file \in Seq(Seq(SUBSET Sample)) /\ mixed \subseteq Sample /\ lost \subseteq Sample
  BY Bounds DEF MixerInv, TypeOK
<1>2. SamePlace(mixer, m) /\ Arrived(c).ts \in Timestamps /\ Arrived(c).channel \in Channel
  BY <1>1, PreparedSame
<1>3. m \in Mixer /\ Sound(m)
  BY <1>1, <1>2, SamePlaceSound DEF SamePlace
<1>4. ts \in Timestamps
  BY <1>2, <1>3, CorrectedType
<1>5. /\ WriteOut(shipped)
      /\ mixed' = mixed \cup Stored(target, c, ts)
      /\ lost' = IF Fills(target, c.n, ts) THEN lost \cup SamplesOf(stored.buffer) ELSE lost
  BY DEF AudioChunkIn
<1> HIDE DEF m, ts
<1>6. target \in Mixer /\ Sound(target)
  BY <1>3, <1>4, TargetSound DEF Sound
<1>7. Stored(target, c, ts) \subseteq Sample
  BY <1>1, <1>4, StoredType
<1> HIDE DEF target
<1>8. stored \in Mixer /\ Sound(stored)
  BY <1>1, <1>4, <1>6, StoreSound DEF Sound
<1> HIDE DEF stored
<1>9. SamplesOf(stored.buffer) \subseteq Sample
  BY <1>8 DEF SamplesOf, Mixer
<1>10. shipped \in Mixer /\ Sound(shipped)
  <2>1. CASE ShipsAfter(m, c, ts, stored)
    <3>1. Holdoff <= UsedSpace(stored)
      BY <1>8, <2>1, MixerNumbers, Bounds DEF ShipsAfter
    <3>2. QED
      BY <1>8, <2>1, <3>1, ShipmentSound DEF Sound
  <2>2. CASE ~ShipsAfter(m, c, ts, stored)
    BY <1>8, <2>2
  <2>3. QED
    BY <2>1, <2>2
<1> HIDE DEF shipped
<1>11. SamePlace(shipped, mixer') /\ file' \in Seq(Seq(SUBSET Sample))
  BY <1>1, <1>5, <1>10, WriteOutStep
<1>12. Sound(mixer')
  BY <1>10, <1>11, SamePlaceSound
<1> QED
  BY <1>1, <1>5, <1>7, <1>9, <1>11, <1>12

\* The initial mixer is empty.
LEMMA InitSound == Init => MixerInv
<1> SUFFICES ASSUME Init PROVE MixerInv
  OBVIOUS
<1>1. PICK stereo \in BOOLEAN : mixer = NewMixer(stereo)
  BY DEF Init
<1>2. 0 \in Position /\ 0 \in Timestamps /\ <<>> \in Seq(Seq(SUBSET Sample))
  BY Bounds DEF Position, Timestamps
<1>3. mixer \in Mixer /\ mixer.read = 0 /\ mixer.write = 0 /\ mixer.readTs = 0 /\ mixer.writeTs = 0
  BY <1>1, <1>2 DEF NewMixer, Mixer
<1>4. UsedSpace(mixer) = 0 /\ Span(mixer) = 0
  BY <1>3 DEF UsedSpace, Distance, Span
<1>5. QED
  <2>1. phase = "mixing" /\ file = <<>> /\ chunks = 0 /\ mixed = {} /\ lost = {}
    BY DEF Init
  <2>2. TypeOK
    <3>1. 0 \in 0..MaxChunks
      BY Bounds
    <3>2. QED
      BY <1>2, <1>3, <2>1, <3>1 DEF TypeOK
  <2>3. QED
    BY <1>3, <1>4, <2>2, LapsCount DEF MixerInv, Sound

\* Every step of the batch thread keeps the invariant.
LEMMA StepSound == MixerInv /\ [Next]_vars => MixerInv'
<1> SUFFICES ASSUME MixerInv, [Next]_vars PROVE MixerInv'
  OBVIOUS
<1> USE DEF MixerInv, TypeOK
<1>chunk. ASSUME NEW c \in AudioChunk, Chunk(c) PROVE MixerInv'
  <2> DEFINE stores == IsStored(Prepared(c), c, CorrectedTimestamp(Prepared(c), Arrived(c)))
  <2>1. AudioChunkIn(c) /\ chunks < MaxChunks /\ chunks' \in 0..MaxChunks /\ phase' = phase
    BY <1>chunk, Bounds DEF Chunk
  <2>bad. CASE mixer.error \/ TooBig(c)
    <3>1. SamePlace(mixer, [mixer EXCEPT !.error = TRUE])
      BY DEF SamePlace, Mixer
    <3>2. WriteOut([mixer EXCEPT !.error = TRUE]) /\ mixed' = mixed /\ lost' = lost
      BY <2>1, <2>bad DEF AudioChunkIn
    <3>3. QED
      BY <2>1, <3>1, <3>2, UnstoredStep DEF Sound
  <2>kept. CASE ~mixer.error /\ ~TooBig(c) /\ stores
    BY <2>1, <2>kept, StoredStep DEF Sound
  <2>lost. CASE ~mixer.error /\ ~TooBig(c) /\ ~stores
    <3> DEFINE m == Prepared(c)
               x == IF m.writeTs = 0 THEN m ELSE Realigned(m, Arrived(c))
    <3>1. SamePlace(mixer, m) /\ Arrived(c).ts \in Timestamps /\ Arrived(c).channel \in Channel
      BY PreparedSame
    <3>2. SamePlace(m, Realigned(m, Arrived(c)))
      BY <3>1, RealignedSame DEF SamePlace
    <3>3. WriteOut(x) /\ mixed' = mixed /\ lost' = lost
      BY <2>1, <2>lost DEF AudioChunkIn
    <3> HIDE DEF m
    <3>4. SamePlace(mixer, x)
      BY <3>1, <3>2 DEF SamePlace
    <3> HIDE DEF x
    <3>5. QED
      BY <2>1, <3>3, <3>4, UnstoredStep DEF Sound
  <2>2. QED
    BY <2>bad, <2>kept, <2>lost
<1>eos. ASSUME EndOfStream PROVE MixerInv'
  <2>1. Sound(Flushed(mixer))
    BY ShipmentSound DEF Flushed
  <2>2. QED
    BY <1>eos, <2>1 DEF EndOfStream, Sound
<1>drain. ASSUME Drain PROVE MixerInv'
  <2>1. SamePlace(mixer, mixer)
    BY DEF SamePlace
  <2>2. /\ phase' \in {"mixing", "flushing", "done"} /\ WriteOut(mixer)
        /\ chunks' = chunks /\ mixed' = mixed /\ lost' = lost
    BY <1>drain DEF Drain
  <2>3. QED
    BY <2>1, <2>2, UnstoredStep DEF Sound
<1>still. ASSUME UNCHANGED vars PROVE MixerInv'
  BY <1>still DEF vars, Sound, UsedSpace, Span
<1>done. QED
  BY <1>chunk, <1>eos, <1>drain, <1>still DEF Next

\* MixerInv: the types, and pointers that agree with the timestamps.
THEOREM MixerSound == Spec => []MixerInv
BY InitSound, StepSound, PTL DEF Spec

\* Every variable of the mixer keeps its type: the pointers stay in the buffer, and the
\* timestamps do not wrap (StoreRtpPacket, CreateShipment, Reset).
THEOREM TypeCorrect == Spec => []TypeOK
BY MixerSound, PTL DEF MixerInv

\* What lies between the pointers of the buffer is what lies between its timestamps, but for
\* whole buffers that were filled to the last sample (UsedSpace).
THEOREM PointersAgree == Spec => []SpanAccounted
<1>1. ASSUME MixerInv PROVE SpanAccounted
  <2>1. /\ mixer \in Mixer /\ Sound(mixer)
        /\ mixer.writeTs \in Int /\ mixer.readTs \in Int /\ UsedSpace(mixer) \in 0..Cap - 1
    BY <1>1, MixerNumbers, UsedBound DEF MixerInv, Sound
  <2>2. PICK x \in Laps : x = mixer.writeTs - mixer.readTs - UsedSpace(mixer)
    BY <2>1 DEF Sound, Span
  <2>3. mixer.writeTs - mixer.readTs = x + UsedSpace(mixer)
    BY <2>1, <2>2, LapsCount
  <2>4. (x + UsedSpace(mixer)) % Cap = UsedSpace(mixer)
    BY <2>1, LapsRemainder
  <2> QED
    BY <2>1, <2>3, <2>4, SoundSpan DEF SpanAccounted
<1>2. QED
  BY <1>1, MixerSound, PTL

-----------------------------------------------------------------------------
(* The audio: where it is, and that none of it is lost.                      *)

\* The cell i places after the read pointer, and what is in the cells from place a on,
\* before place b.
Cell(m, i) == m.buffer[Ahead(m.read, i)]
Part(m, a, b) == UNION {Cell(m, i) : i \in a..b - 1}

\* The time of the cell at the read pointer: if the buffer was filled to the last
\* sample, the timestamp that is read runs behind it.
Base(m) == m.writeTs - UsedSpace(m)

\* The samples between the pointers are where their timestamps say, or those of the v
\* cells before the write pointer, which are all of them when the buffer is filled.
Tidy(m) == \A i \in 0..UsedSpace(m) - 1 : \A s \in Cell(m, i) : s.ts = Base(m) + i
TidyTo(m, v) == \A i \in 0..v - 1 : \A s \in Cell(m, i) : s.ts = m.writeTs - v + i

\* No sample is in two of the chunks of a queue.
Apart(o) == \A k, l \in DOMAIN o : k # l => SamplesOf(o[k]) \cap SamplesOf(o[l]) = {}

\* StandsFor, of an output that is stereo or not.
StandsIn(stereo, t, s) ==
  \/ t = s
  \/ stereo /\ t.channel = s.channel /\ t.ts = s.ts /\ t.chunk > s.chunk

\* The samples d are divided over a buffer, a queue, a file and those that are lost.
Divided(stereo, b, q, f, g, d) ==
  /\ \A s \in d : \E t \in b \cup q \cup f \cup g : StandsIn(stereo, t, s)
  /\ b \cup q \cup f \cup g \subseteq d
  /\ b \cap (q \cup f \cup g) = {} /\ q \cap (f \cup g) = {} /\ f \cap g = {}

\* Of the audio d the mixer m holds what is not in the file f nor among the lost g.
Holds(m, f, d, g) ==
  /\ Divided(m.stereo, Part(m, 0, UsedSpace(m)), InChunks(m.output), InChunks(f), g, d)
  /\ Apart(m.output)

\* The buffer is tidy, and so is what has left it.
TidyInv == Tidy(mixer) /\ OutputAligned

\* The mixer holds the audio that was mixed in, all of it of chunks that arrived; and as
\* the recording ends, it empties.
HeldInv ==
  /\ \A s \in mixed : s.chunk <= chunks
  /\ Holds(mixer, file, mixed, lost)
  /\ phase \in {"flushing", "done"} /\ ~mixer.error => UsedSpace(mixer) = 0
  /\ phase = "done" => mixer.output = <<>>

-----------------------------------------------------------------------------
(* What the operations do to the division of the audio.                      *)

\* A part of the buffer goes to the queue.
LEMMA DividedShip ==
  ASSUME NEW st, NEW b, NEW b1, NEW b2, NEW q, NEW f, NEW g, NEW d,
         Divided(st, b, q, f, g, d), b = b1 \cup b2, b1 \cap b2 = {}
  PROVE  Divided(st, b2, q \cup b1, f, g, d)
<1>1. b2 \cup (q \cup b1) \cup f \cup g = b \cup q \cup f \cup g
  OBVIOUS
<1> QED
  BY <1>1 DEF Divided

\* A part of the queue goes to the file.
LEMMA DividedWrite ==
  ASSUME NEW st, NEW b, NEW q, NEW h, NEW r, NEW f, NEW g, NEW d,
         Divided(st, b, q, f, g, d), q = h \cup r, h \cap r = {}
  PROVE  Divided(st, b, r, f \cup h, g, d)
<1>1. b \cup r \cup (f \cup h) \cup g = b \cup q \cup f \cup g
  OBVIOUS
<1> QED
  BY <1>1 DEF Divided

\* The buffer is lost.
LEMMA DividedLost ==
  ASSUME NEW st, NEW b, NEW q, NEW f, NEW g, NEW d, Divided(st, b, q, f, g, d)
  PROVE  Divided(st, {}, q, f, g \cup b, d)
<1>1. {} \cup q \cup f \cup (g \cup b) = b \cup q \cup f \cup g
  OBVIOUS
<1> QED
  BY <1>1 DEF Divided

\* New samples go into a buffer: what it had is there, or a new one stands for it.
Renewed(stereo, old, now, new) ==
  /\ new \subseteq now /\ now \subseteq old \cup new
  /\ \A s \in old : s \in now \/ \E t \in new : stereo /\ t.channel = s.channel /\ t.ts = s.ts

LEMMA DividedStore ==
  ASSUME NEW st, NEW b, NEW c, NEW new, NEW q, NEW f, NEW g, NEW d,
         Divided(st, b, q, f, g, d), Renewed(st, b, c, new),
         \A s \in d, t \in new : t.chunk > s.chunk /\ t # s
  PROVE  Divided(st, c, q, f, g, d \cup new)
<1>1. new \cap d = {}
  OBVIOUS
<1>2. /\ c \cup q \cup f \cup g \subseteq d \cup new
      /\ c \cap (q \cup f \cup g) = {} /\ q \cap (f \cup g) = {} /\ f \cap g = {}
  BY <1>1 DEF Divided, Renewed
<1>3. ASSUME NEW s \in d PROVE \E t \in c \cup q \cup f \cup g : StandsIn(st, t, s)
  <2>1. PICK r \in b \cup q \cup f \cup g : StandsIn(st, r, s)
    BY <1>3 DEF Divided
  <2>2. CASE r \in c \cup q \cup f \cup g
    BY <2>1, <2>2
  <2>3. CASE r \in b /\ r \notin c
    <3>1. PICK t \in new : st /\ t.channel = r.channel /\ t.ts = r.ts
      BY <2>3 DEF Renewed
    <3>2. r.channel = s.channel /\ r.ts = s.ts
      BY <2>1 DEF StandsIn
    <3>3. StandsIn(st, t, s)
      BY <1>3, <3>1, <3>2 DEF StandsIn
    <3> QED
      BY <3>3 DEF Renewed
  <2> QED
    BY <2>2, <2>3
<1>4. ASSUME NEW s \in new PROVE \E t \in c \cup q \cup f \cup g : StandsIn(st, t, s)
  BY <1>4 DEF Renewed, StandsIn
<1> QED
  BY <1>2, <1>3, <1>4 DEF Divided

\* Two mixers with the same audio at the same place.
SameAudio(m, x) ==
  SamePlace(m, x) /\ x.buffer = m.buffer /\ x.output = m.output /\ x.error = m.error

\* What SameAudio keeps.
LEMMA SameAudioKeeps ==
  ASSUME NEW m, NEW x, NEW f, NEW d, NEW g, SameAudio(m, x)
  PROVE  /\ UsedSpace(x) = UsedSpace(m) /\ Base(x) = Base(m)
         /\ Tidy(m) => Tidy(x)
         /\ Holds(m, f, d, g) => Holds(x, f, d, g)
         /\ AllAligned(m.output) => AllAligned(x.output)
<1>1. UsedSpace(x) = UsedSpace(m) /\ Base(x) = Base(m) /\ x.output = m.output /\ x.stereo = m.stereo
  BY DEF SameAudio, SamePlace, UsedSpace, Base
<1>2. \A i : Cell(x, i) = Cell(m, i)
  BY DEF SameAudio, SamePlace, Cell
<1>3. \A a, b : Part(x, a, b) = Part(m, a, b)
  BY <1>2 DEF Part
<1> QED
  BY <1>1, <1>2, <1>3 DEF Tidy, Holds

\* Up to the storing of a chunk, no audio is touched.
LEMMA PreparedAudio ==
  ASSUME mixer \in Mixer, NEW c \in AudioChunk
  PROVE  SameAudio(mixer, Prepared(c)) /\ SameAudio(mixer, Realigned(Prepared(c), Arrived(c)))
<1> DEFINE Rest(m, x) == x.buffer = m.buffer /\ x.output = m.output /\ x.error = m.error
<1>1. \A m \in Mixer : Rest(m, WithChannels(m, c))
  BY DEF WithChannels, Mixer
<1>2. \A m \in Mixer : Rest(m, Noted(m, c))
  <2> TAKE m \in Mixer
  <2> DEFINE t == [m.lastTs EXCEPT ![c.channel] = IF IsRogue(m, c) \/ m.lastChunk[c.channel] = Unset THEN c.ts ELSE @]
             l == [m.lastChunk EXCEPT ![c.channel] = Repaired(m, c)]
  <2>1. Noted(m, c) = m \/ Noted(m, c) = [m EXCEPT !.lastTs = t, !.lastChunk = l]
    BY DEF Noted
  <2> HIDE DEF t, l
  <2> QED
    BY <2>1 DEF Mixer
<1>3. \A m \in Mixer : \A a : Rest(m, Synced(m, a))
  BY DEF Synced, Mixer
<1>4. \A m \in Mixer : \A a : Rest(m, Realigned(m, a))
  <2> TAKE m \in Mixer
  <2> TAKE a
  <2> DEFINE l == [m.channelDelta EXCEPT ![a.channel] = a.ts - m.writeTs]
             d == a.ts - m.writeTs
  <2>1. Realigned(m, a) \in {m, [m EXCEPT !.delta = d], [m EXCEPT !.channelDelta = l]}
    BY DEF Realigned
  <2> HIDE DEF l, d
  <2> QED
    BY <2>1 DEF Mixer
<1> DEFINE w == WithChannels(mixer, c)
           n == Noted(w, c)
           p == Synced(n, Arrived(c))
<1>5. SamePlace(mixer, w) /\ w \in Mixer
  BY WithChannelsSame DEF SamePlace
<1>6. SamePlace(w, n) /\ n \in Mixer
  BY <1>5, NotedSame DEF SamePlace
<1>7. SamePlace(mixer, p) /\ Arrived(c).ts \in Timestamps /\ Arrived(c).channel \in Channel /\ p \in Mixer /\ p = Prepared(c)
  BY PreparedSame DEF SamePlace, Prepared
<1>8. Rest(mixer, w) /\ Rest(w, n) /\ Rest(n, p)
  BY <1>1, <1>2, <1>3, <1>5, <1>6
<1> HIDE DEF w, n, p
<1>9. SameAudio(mixer, p)
  BY <1>7, <1>8 DEF SameAudio
<1>10. SamePlace(p, Realigned(p, Arrived(c))) /\ Rest(p, Realigned(p, Arrived(c)))
  BY <1>4, <1>7, RealignedSame
<1>11. SameAudio(mixer, Realigned(p, Arrived(c)))
  BY <1>9, <1>10 DEF SameAudio, SamePlace
<1> QED
  BY <1>7, <1>9, <1>11

-----------------------------------------------------------------------------
(* Storing a chunk in time.                                                  *)

\* Silence is written where nothing is waiting, if it is not more than there is room for.
LEMMA ExtendedTidy ==
  ASSUME NEW m \in Mixer, Tidy(m), NEW n \in Nat \ {0}, NEW ts \in Timestamps, ~Dismissed(m, n, ts),
         NEW v, v = UsedSpace(m) + Silence(m, n, ts), v <= Cap
  PROVE  LET e == Extended(m, n, ts)
         IN  /\ v \in 0..Cap /\ UsedSpace(e) = (IF v < Cap THEN v ELSE 0) /\ e.writeTs - v = Base(m)
             /\ TidyTo(e, v) /\ Part(e, 0, v) = Part(m, 0, UsedSpace(m))
             /\ e.output = m.output /\ e.error = m.error /\ e.stereo = m.stereo
<1> DEFINE k == Silence(m, n, ts)
           e == Extended(m, n, ts)
           u == UsedSpace(m)
<1>1. m.read \in 0..Cap - 1 /\ m.write \in 0..Cap - 1 /\ m.writeTs \in 0..Wrap - 1 /\ m.readTs \in 0..Wrap - 1
  BY DEF Mixer, Position, Timestamps
<1>2. k \in 0..Cap - 1
  BY <1>1, Bounds DEF Silence, Dismissed, Timestamps
<1>3. e = [m EXCEPT !.buffer = Zeroed(m, k), !.write = Ahead(m.write, k), !.writeTs = m.writeTs + k]
  BY DEF Extended
<1>4. /\ e.read = m.read /\ e.buffer = Zeroed(m, k)
      /\ e.write = Ahead(m.write, k) /\ e.writeTs = m.writeTs + k
      /\ e.output = m.output /\ e.error = m.error /\ e.stereo = m.stereo
  BY <1>3 DEF Mixer
<1> HIDE DEF k, e
<1>5. u \in 0..Cap - 1 /\ u = Distance(m.read, m.write)
  BY UsedBound DEF UsedSpace
<1>6. v = u + k /\ v \in 0..Cap
  BY <1>2, <1>5, Bounds DEF k
<1>7. UsedSpace(e) = (IF v < Cap THEN v ELSE 0)
  BY <1>1, <1>2, <1>4, <1>6, Bounds DEF UsedSpace, Distance, Ahead
<1>8. \A i \in 0..Cap - 1 : Ahead(m.read, i) \in Position /\
        Distance(m.write, Ahead(m.read, i)) = (IF i >= u THEN i - u ELSE i - u + Cap)
  BY <1>1, <1>5, Bounds DEF Distance, Ahead, Position
<1>9. \A i \in 0..Cap - 1 :
        Cell(e, i) = IF (IF i >= u THEN i - u ELSE i - u + Cap) < k THEN {} ELSE Cell(m, i)
  BY <1>4, <1>8 DEF Cell, Zeroed
<1>10. Base(m) = m.writeTs - u
  BY DEF Base
<1> HIDE DEF u
<1>11. \A i \in 0..v - 1 : Cell(e, i) = IF i < u THEN Cell(m, i) ELSE {}
  BY <1>2, <1>5, <1>6, <1>9, Bounds
<1>12. e.writeTs - v = Base(m)
  BY <1>1, <1>2, <1>4, <1>5, <1>6, <1>10, Bounds
<1>13. /\ \A i \in 0..v - 1 : i < u => i \in 0..u - 1
       /\ \A i \in 0..u - 1 : i \in 0..v - 1 /\ i < u
  BY <1>2, <1>5, <1>6
<1>14. TidyTo(e, v)
  BY <1>11, <1>12, <1>13 DEF Tidy, TidyTo, u
<1>15. Part(e, 0, v) = Part(m, 0, u)
  BY <1>11, <1>13 DEF Part
<1> QED
  BY <1>4, <1>6, <1>7, <1>12, <1>14, <1>15 DEF e, u

\* The samples of a chunk that starts at ts.
Fresh(c, ts) == {NewSample(c, t) : t \in ts..ts + c.n - 1}

\* How far the cell i places after the pointer r is from the place w before the
\* pointer q, if there are v cells between the pointers.
LEMMA OffsetIs ==
  ASSUME NEW r \in 0..Cap - 1, NEW q \in 0..Cap - 1, NEW w \in 0..Cap - 1,
         NEW v \in 0..Cap, Distance(r, q) = (IF v < Cap THEN v ELSE 0), NEW i \in Nat, i < v
  PROVE  Distance(Behind(q, w), Ahead(r, i)) = IF w >= v - i THEN w - (v - i) ELSE w - (v - i) + Cap
<1>1. CASE q >= r
  BY <1>1, Bounds DEF Distance, Behind, Ahead
<1>2. CASE q < r
  BY <1>2, Bounds DEF Distance, Behind, Ahead
<1> QED
  BY <1>1, <1>2, Bounds

\* Samples go into the cells whose time is theirs.
LEMMA MixedTidy ==
  ASSUME NEW m \in Mixer, NEW v \in 0..Cap, UsedSpace(m) = (IF v < Cap THEN v ELSE 0), TidyTo(m, v),
         NEW c \in AudioChunk, NEW ts \in Timestamps,
         m.writeTs - v <= ts, ts + c.n <= m.writeTs, m.writeTs - ts < Cap
  PROVE  LET x == Mixed(m, c, ts)
         IN  /\ UsedSpace(x) = UsedSpace(m) /\ x.writeTs = m.writeTs /\ TidyTo(x, v)
             /\ x.output = m.output /\ x.error = m.error /\ x.stereo = m.stereo
             /\ Renewed(m.stereo, Part(m, 0, v), Part(x, 0, v), Fresh(c, ts))
<1> DEFINE n == c.n
           Offset(p) == Distance(Place(m, n, ts), p)
           New(t) == NewSample(c, t)
           b == [p \in Position |-> IF Offset(p) < n THEN Heard(m, m.buffer[p], New(ts + Offset(p))) ELSE m.buffer[p]]
           x == Mixed(m, c, ts)
           base == m.writeTs - v
<1>1. /\ m.read \in 0..Cap - 1 /\ m.write \in 0..Cap - 1 /\ m.writeTs \in 0..Wrap - 1
      /\ ts \in Nat /\ n \in Nat \ {0} /\ base \in Int
  BY ChunkType, Bounds DEF Mixer, Position, Timestamps
<1>2. x = [m EXCEPT !.buffer = b]
  BY DEF Mixed, Mixer
<1>3. /\ x.read = m.read /\ x.write = m.write /\ x.writeTs = m.writeTs
      /\ x.output = m.output /\ x.error = m.error /\ x.stereo = m.stereo /\ x.buffer = b
  <2> HIDE DEF b
  <2> QED
    BY <1>2 DEF Mixer
<1>4. UsedSpace(x) = UsedSpace(m)
  BY <1>3 DEF UsedSpace
<1>5. ASSUME NEW i \in 0..v - 1
      PROVE  /\ Ahead(m.read, i) \in Position
             /\ Offset(Ahead(m.read, i)) \in Nat
             /\ Offset(Ahead(m.read, i)) < n <=> ts <= base + i /\ base + i < ts + n
             /\ Offset(Ahead(m.read, i)) < n => ts + Offset(Ahead(m.read, i)) = base + i
  <2> DEFINE w == m.writeTs - ts
  <2>1. w \in 0..Cap - 1 /\ n <= w
    BY <1>1, Bounds
  <2>2. Distance(m.read, m.write) = (IF v < Cap THEN v ELSE 0) /\ i \in 0..Cap - 1 /\ i < v
    BY <1>5, Bounds DEF UsedSpace
  <2>3. Ahead(m.read, i) \in Position
    BY <1>1, <2>2, Bounds DEF Ahead, Position
  <2>4. Offset(Ahead(m.read, i)) = IF w >= v - i THEN w - (v - i) ELSE w - (v - i) + Cap
    <3>1. Place(m, n, ts) = Behind(m.write, w)
      BY DEF Place
    <3> HIDE DEF w
    <3> QED
      BY <1>1, <2>1, <2>2, <3>1, OffsetIs
  <2> HIDE DEF Offset
  <2> QED
    BY <1>1, <1>5, <2>1, <2>3, <2>4, Bounds
<1> HIDE DEF base, n, New, x
<1>6. ASSUME NEW i \in 0..v - 1
      PROVE  Cell(x, i) = IF ts <= base + i /\ base + i < ts + n
                          THEN Heard(m, Cell(m, i), New(base + i)) ELSE Cell(m, i)
  <2>1. PICK p \in Position : p = Ahead(m.read, i)
    BY <1>5, <1>6
  <2>2. /\ Offset(p) \in Nat /\ (Offset(p) < n <=> ts <= base + i /\ base + i < ts + n)
        /\ Offset(p) < n => ts + Offset(p) = base + i
    BY <1>5, <1>6, <2>1
  <2>3. Cell(x, i) = b[p] /\ Cell(m, i) = m.buffer[p]
    BY <1>3, <2>1 DEF Cell
  <2> HIDE DEF Offset
  <2>4. b[p] = IF Offset(p) < n THEN Heard(m, m.buffer[p], New(ts + Offset(p))) ELSE m.buffer[p]
    BY DEF b
  <2> QED
    BY <2>2, <2>3, <2>4
<1> HIDE DEF b, Offset
<1>7. \A t : New(t).ts = t /\ New(t).channel = c.channel
  BY DEF New, NewSample
<1>8. \A i \in 0..v - 1 : \A s \in Cell(m, i) : s.ts = base + i
  BY DEF TidyTo, base
<1>9. ASSUME NEW i \in 0..v - 1, NEW s \in Cell(x, i) PROVE s.ts = base + i
  <2>1. s \in Cell(m, i) \/ s = New(base + i)
    BY <1>6, <1>9, HeardIs
  <2> QED
    BY <1>7, <1>8, <2>1
<1>10. TidyTo(x, v)
  BY <1>3, <1>9 DEF TidyTo, base
<1>11. Part(x, 0, v) \subseteq Part(m, 0, v) \cup Fresh(c, ts)
  <2> SUFFICES ASSUME NEW i \in 0..v - 1, NEW s \in Cell(x, i)
               PROVE  s \in Part(m, 0, v) \cup Fresh(c, ts)
    BY DEF Part
  <2>1. CASE s \in Cell(m, i)
    BY <2>1 DEF Part
  <2>2. CASE s \notin Cell(m, i)
    <3>1. s = New(base + i) /\ ts <= base + i /\ base + i < ts + n
      BY <1>6, <2>2, HeardIs
    <3>2. base + i \in ts..ts + n - 1
      BY <1>1, <3>1
    <3> QED
      BY <3>1, <3>2 DEF Fresh, New, n
  <2> QED
    BY <2>1, <2>2
<1>12. Fresh(c, ts) \subseteq Part(x, 0, v)
  <2> SUFFICES ASSUME NEW t \in ts..ts + n - 1
               PROVE  New(t) \in Part(x, 0, v)
    BY DEF Fresh, New, n
  <2> DEFINE i == t - base
  <2>1. i \in 0..v - 1 /\ base + i = t /\ ts <= t /\ t < ts + n
    BY <1>1, Bounds DEF base, n
  <2> HIDE DEF i
  <2>2. New(t) \in Cell(x, i)
    BY <1>6, <2>1, HeardIs
  <2> QED
    BY <2>1, <2>2 DEF Part
<1>13. ASSUME NEW s \in Part(m, 0, v), s \notin Part(x, 0, v)
       PROVE  \E t \in Fresh(c, ts) : m.stereo /\ t.channel = s.channel /\ t.ts = s.ts
  <2>1. PICK i \in 0..v - 1 : s \in Cell(m, i)
    BY DEF Part
  <2>2. s \notin Cell(x, i)
    BY <1>13 DEF Part
  <2>3. ts <= base + i /\ base + i < ts + n /\ m.stereo /\ s.channel = New(base + i).channel
    BY <1>6, <2>1, <2>2, HeardIs
  <2>4. base + i \in ts..ts + n - 1
    BY <1>1, <2>3
  <2>5. New(base + i) \in Fresh(c, ts)
    BY <2>4 DEF Fresh, New, n
  <2> QED
    BY <1>7, <1>8, <2>1, <2>3, <2>5
<1>14. Renewed(m.stereo, Part(m, 0, v), Part(x, 0, v), Fresh(c, ts))
  BY <1>11, <1>12, <1>13 DEF Renewed
<1> QED
  BY <1>3, <1>4, <1>10, <1>14 DEF x

\* There is room for a chunk: its end is within reach of what is read, and it starts
\* within what is in the buffer.
Roomy(m, n, ts) ==
  /\ ~Dismissed(m, n, ts) => UsedSpace(m) + Silence(m, n, ts) <= Cap
  /\ Mixable(m, n, ts) => Base(m) <= ts

\* What is in the buffer after a chunk is stored; if it was filled, that is all of it.
After(m, c, ts) ==
  LET s == StoreRtpPacket(m, c, ts)
  IN  IF Fills(m, c.n, ts) THEN SamplesOf(s.buffer) ELSE Part(s, 0, UsedSpace(s))

\* The cells, counted from any position, are all of the buffer.
LEMMA AllCells ==
  ASSUME NEW m, NEW x, m.read \in Position, x.read = m.read, DOMAIN x.buffer = Position
  PROVE  SamplesOf(x.buffer) = Part(x, 0, Cap)
<1>1. \A i \in 0..Cap - 1 : Ahead(m.read, i) \in Position
  BY Bounds DEF Ahead, Position
<1>2. \A p \in Position : \E i \in 0..Cap - 1 : p = Ahead(m.read, i)
  <2> TAKE p \in Position
  <2> DEFINE i == IF p >= m.read THEN p - m.read ELSE p - m.read + Cap
  <2>1. i \in 0..Cap - 1 /\ p = Ahead(m.read, i)
    BY Bounds DEF Ahead, Position
  <2> QED
    BY <2>1
<1> QED
  BY <1>1, <1>2 DEF SamplesOf, Part, Cell

\* StoreRtpPacket adds the samples of the chunk to the audio in the buffer, in time: what
\* was there still is, or in a stereo output a new sample is in its place.
LEMMA StoreTidy ==
  ASSUME NEW m \in Mixer, Sound(m), Tidy(m), NEW c \in AudioChunk, NEW ts \in Timestamps,
         chunks + 1 \in 1..MaxChunks, Roomy(m, c.n, ts)
  PROVE  LET s == StoreRtpPacket(m, c, ts)
         IN  /\ Tidy(s) /\ s.output = m.output /\ s.error = m.error /\ s.stereo = m.stereo
             /\ Renewed(m.stereo, Part(m, 0, UsedSpace(m)), After(m, c, ts), Stored(m, c, ts))
             /\ Fills(m, c.n, ts) => UsedSpace(s) = 0
<1> DEFINE n == c.n
           e == Extended(m, n, ts)
           s == StoreRtpPacket(m, c, ts)
           v == UsedSpace(m) + Silence(m, n, ts)
           old == Part(m, 0, UsedSpace(m))
           new == Stored(m, c, ts)
<1>0. n \in Nat \ {0}
  BY ChunkType
<1>1. CASE Dismissed(m, n, ts)
  <2>1. s = m /\ new = {} /\ ~Fills(m, n, ts)
    BY <1>1 DEF StoreRtpPacket, Stored, Mixable, Fills
  <2>2. After(m, c, ts) = old
    BY <2>1 DEF After
  <2> QED
    BY <2>1, <2>2 DEF Renewed
<1>2. CASE ~Dismissed(m, n, ts)
  <2>1. Sound(e) /\ e \in Mixer /\ e.writeTs >= ts + n
    BY <1>0, <1>2, ExtendedSound DEF Sound
  <2>2. v <= Cap /\ (Mixable(m, n, ts) => Base(m) <= ts) /\ (Fills(m, n, ts) <=> v = Cap)
    BY <1>2 DEF Roomy, Fills
  <2>3. /\ v \in 0..Cap /\ UsedSpace(e) = (IF v < Cap THEN v ELSE 0) /\ e.writeTs - v = Base(m)
        /\ TidyTo(e, v) /\ Part(e, 0, v) = old
        /\ e.output = m.output /\ e.error = m.error /\ e.stereo = m.stereo
    <3> HIDE DEF n
    <3> QED
      BY <1>0, <1>2, <2>2, ExtendedTidy
  <2>4. s \in Mixer
    BY StoreSound DEF Sound
  <2> HIDE DEF v, old, e, n
  <2>5. ASSUME UsedSpace(s) = UsedSpace(e), s.writeTs = e.writeTs, s.read = m.read, TidyTo(s, v)
        PROVE  /\ Tidy(s) /\ After(m, c, ts) = Part(s, 0, v)
               /\ Fills(m, n, ts) => UsedSpace(s) = 0
    <3> HIDE DEF s
    <3>1. CASE v < Cap
      <4>1. UsedSpace(s) = v /\ Base(s) = s.writeTs - v /\ ~Fills(m, n, ts)
        BY <2>2, <2>3, <2>5, <3>1, Bounds DEF Base
      <4> QED
        BY <2>5, <4>1 DEF Tidy, TidyTo, After, s, n
    <3>2. CASE v = Cap
      <4>1. UsedSpace(s) = 0 /\ Fills(m, n, ts)
        BY <2>2, <2>3, <2>5, <3>2
      <4>2. m.read \in Position /\ DOMAIN s.buffer = Position
        BY <2>4 DEF Mixer
      <4>3. SamplesOf(s.buffer) = Part(s, 0, Cap)
        BY <2>5, <4>2, AllCells
      <4>4. After(m, c, ts) = Part(s, 0, v)
        BY <3>2, <4>1, <4>3 DEF After, s, n
      <4>5. Tidy(s)
        <5>1. 0..0 - 1 = {}
          OBVIOUS
        <5> QED
          BY <4>1, <5>1 DEF Tidy
      <4> QED
        BY <4>1, <4>4, <4>5
    <3> QED
      BY <2>3, <3>1, <3>2, Bounds
  <2>6. e.read = m.read
    BY DEF e, Extended, Mixer
  <2>mix. CASE Mixable(m, n, ts)
    <3>1. e.writeTs - ts < Cap
      BY <2>mix DEF Mixable, e
    <3>2. e.writeTs \in Int /\ ts \in Int /\ Base(m) <= ts
      BY <2>1, <2>2, <2>mix, MixerNumbers, Bounds DEF Timestamps
    <3>3. s = Mixed(e, c, ts)
      BY <1>2, <2>mix DEF StoreRtpPacket, e, n
    <3>4. new = Fresh(c, ts)
      BY <2>mix DEF Stored, Fresh, n
    <3>5. e.writeTs - v <= ts /\ ts + c.n <= e.writeTs
      BY <1>0, <2>1, <2>3, <3>2 DEF n
    <3>6. Mixed(e, c, ts).read = e.read
      <4> DEFINE b == Mixed(e, c, ts).buffer
      <4>1. Mixed(e, c, ts) = [e EXCEPT !.buffer = b]
        BY <2>1 DEF Mixed, Mixer
      <4> HIDE DEF b
      <4> QED
        BY <2>1, <4>1 DEF Mixer
    <3> HIDE DEF s, new
    <3>7. /\ UsedSpace(s) = UsedSpace(e) /\ s.writeTs = e.writeTs /\ TidyTo(s, v)
          /\ s.output = e.output /\ s.error = e.error /\ s.stereo = e.stereo
          /\ Renewed(e.stereo, Part(e, 0, v), Part(s, 0, v), Fresh(c, ts))
      BY <2>1, <2>3, <3>1, <3>3, <3>5, MixedTidy
    <3>8. /\ Tidy(s) /\ After(m, c, ts) = Part(s, 0, v)
          /\ Fills(m, n, ts) => UsedSpace(s) = 0
      BY <2>5, <2>6, <3>3, <3>6, <3>7
    <3> QED
      BY <2>3, <3>4, <3>7, <3>8 DEF s, new, n, old
  <2>out. CASE ~Mixable(m, n, ts)
    <3>1. s = e /\ new = {}
      BY <1>2, <2>out DEF StoreRtpPacket, Stored, e, n
    <3>2. /\ Tidy(s) /\ After(m, c, ts) = Part(s, 0, v)
          /\ Fills(m, n, ts) => UsedSpace(s) = 0
      BY <2>3, <2>5, <2>6, <3>1
    <3>3. Renewed(m.stereo, old, Part(s, 0, v), {})
      BY <2>3, <3>1 DEF Renewed
    <3> QED
      BY <2>3, <3>1, <3>2, <3>3 DEF n, old
  <2> QED
    BY <2>mix, <2>out
<1> QED
  BY <1>1, <1>2

-----------------------------------------------------------------------------
(* Shipping.                                                                 *)

\* The parts of the used space: they make it up, and share no sample.
LEMMA Parts ==
  ASSUME NEW m \in Mixer, Tidy(m), NEW a \in Nat, NEW b \in Nat, NEW c \in Nat, a <= b, b <= c, c <= UsedSpace(m)
  PROVE  /\ Part(m, a, c) = Part(m, a, b) \cup Part(m, b, c)
         /\ Part(m, a, b) \cap Part(m, b, c) = {}
<1>1. a..c - 1 = (a..b - 1) \cup (b..c - 1)
  OBVIOUS
<1>2. Part(m, a, c) = Part(m, a, b) \cup Part(m, b, c)
  BY <1>1 DEF Part
<1>3. ASSUME NEW s \in Part(m, a, b), s \in Part(m, b, c) PROVE FALSE
  <2>1. PICK i \in a..b - 1 : s \in Cell(m, i)
    BY DEF Part
  <2>2. PICK j \in b..c - 1 : s \in Cell(m, j)
    BY <1>3 DEF Part
  <2>3. UsedSpace(m) \in Nat /\ Base(m) \in Int
    BY MixerNumbers DEF Base
  <2>4. i \in 0..UsedSpace(m) - 1 /\ j \in 0..UsedSpace(m) - 1
    BY <2>1, <2>2, <2>3
  <2>5. s.ts = Base(m) + i /\ s.ts = Base(m) + j
    BY <2>1, <2>2, <2>4 DEF Tidy
  <2> QED
    BY <2>1, <2>2, <2>3, <2>5
<1> QED
  BY <1>2, <1>3

\* A chunk at the end of an output queue.
LEMMA Queues ==
  ASSUME NEW o \in Seq(Seq(SUBSET Sample)), NEW c \in Seq(SUBSET Sample)
  PROVE  LET p == o \o <<c>>
         IN  /\ InChunks(p) = InChunks(o) \cup SamplesOf(c)
             /\ Apart(o) /\ InChunks(o) \cap SamplesOf(c) = {} => Apart(p)
             /\ AllAligned(o) /\ Aligned(c) => AllAligned(p)
<1> DEFINE p == o \o <<c>>
           z == Len(o) + 1
<1>1. /\ DOMAIN p = DOMAIN o \cup {z} /\ z \notin DOMAIN o
      /\ \A k \in DOMAIN o : p[k] = o[k]
      /\ p[z] = c
  <2>1. Len(o) \in Nat /\ DOMAIN o = 1..Len(o) /\ Len(p) = z /\ DOMAIN p = 1..z
    OBVIOUS
  <2>2. \A k \in 1..Len(o) : p[k] = o[k]
    OBVIOUS
  <2>3. p[z] = c
    OBVIOUS
  <2> QED
    BY <2>1, <2>2, <2>3
<1> HIDE DEF p, z
<1>2. InChunks(p) = InChunks(o) \cup SamplesOf(c)
  BY <1>1 DEF InChunks
<1>3. \A k \in DOMAIN o : SamplesOf(o[k]) \subseteq InChunks(o)
  BY DEF InChunks
<1>4. ASSUME Apart(o), InChunks(o) \cap SamplesOf(c) = {} PROVE Apart(p)
  <2> SUFFICES ASSUME NEW k \in DOMAIN p, NEW l \in DOMAIN p, k # l
               PROVE  SamplesOf(p[k]) \cap SamplesOf(p[l]) = {}
    BY DEF Apart
  <2>1. CASE k = z
    BY <1>1, <1>3, <1>4, <2>1
  <2>2. CASE l = z
    BY <1>1, <1>3, <1>4, <2>2
  <2>3. CASE k # z /\ l # z
    BY <1>1, <1>4, <2>3 DEF Apart
  <2> QED
    BY <2>1, <2>2, <2>3
<1>5. AllAligned(o) /\ Aligned(c) => AllAligned(p)
  BY <1>1 DEF AllAligned
<1> QED
  BY <1>2, <1>4, <1>5 DEF p

\* The cells from a position of the buffer on, put in the output queue: if it is the
\* position a places after the read pointer, they are the part from place a on.
LEMMA CellsShipped ==
  ASSUME NEW m \in Mixer, Tidy(m), NEW o \in Seq(Seq(SUBSET Sample)),
         NEW from \in Nat, NEW n \in Nat, from + n <= Cap, NEW a \in Nat, a + n <= UsedSpace(m),
         \A i \in 0..n - 1 : from + i = Ahead(m.read, a + i)
  PROVE  LET p == o \o Cells(m, from, n)
         IN  /\ p \in Seq(Seq(SUBSET Sample))
             /\ InChunks(p) = InChunks(o) \cup Part(m, a, a + n)
             /\ Apart(o) /\ InChunks(o) \cap Part(m, a, a + n) = {} => Apart(p)
             /\ AllAligned(o) => AllAligned(p)
<1> DEFINE c == [i \in 1..n |-> m.buffer[from + i - 1]]
<1>0. Cells(m, from, n) \in Seq(Seq(SUBSET Sample))
  BY CellsType
<1>1. CASE n = 0
  <2>1. Cells(m, from, n) = <<>> /\ o \o <<>> = o
    BY <1>1 DEF Cells
  <2>2. Part(m, a, a + n) = {}
    <3> SUFFICES ASSUME NEW s \in Part(m, a, a + n) PROVE FALSE
      OBVIOUS
    <3>1. PICK i \in a..a + n - 1 : s \in Cell(m, i)
      BY DEF Part
    <3> QED
      BY <1>1, <3>1
  <2> QED
    BY <2>1, <2>2
<1>2. CASE n # 0
  <2>1. Cells(m, from, n) = <<c>>
    BY <1>2 DEF Cells
  <2>2. c \in Seq(SUBSET Sample)
    <3>1. ASSUME NEW i \in 1..n PROVE m.buffer[from + i - 1] \in SUBSET Sample
      BY <3>1, Bounds DEF Mixer, Position
    <3>2. c \in [1..n -> SUBSET Sample]
      BY <3>1
    <3> HIDE DEF c
    <3> QED
      BY <3>2, SeqDef
  <2>3. DOMAIN c = 1..n /\ \A i \in 1..n : c[i] = Cell(m, a + i - 1)
    <3>1. ASSUME NEW i \in 1..n PROVE m.buffer[from + i - 1] = Cell(m, a + i - 1)
      <4>1. i - 1 \in 0..n - 1
        OBVIOUS
      <4>2. from + (i - 1) = Ahead(m.read, a + (i - 1))
        BY <4>1
      <4>3. from + i - 1 = from + (i - 1) /\ a + i - 1 = a + (i - 1)
        OBVIOUS
      <4> QED
        BY <4>2, <4>3 DEF Cell
    <3> QED
      BY <3>1
  <2> HIDE DEF c
  <2>4. SamplesOf(c) = Part(m, a, a + n)
    <3>1. \A i \in 1..n : a + i - 1 \in a..a + n - 1
      OBVIOUS
    <3>2. \A j \in a..a + n - 1 : j - a + 1 \in 1..n /\ a + (j - a + 1) - 1 = j
      OBVIOUS
    <3>3. ASSUME NEW s \in SamplesOf(c) PROVE s \in Part(m, a, a + n)
      <4>1. PICK i \in 1..n : s \in c[i]
        BY <2>3 DEF SamplesOf
      <4> QED
        BY <2>3, <3>1, <4>1 DEF Part
    <3>4. ASSUME NEW s \in Part(m, a, a + n) PROVE s \in SamplesOf(c)
      <4>1. PICK j \in a..a + n - 1 : s \in Cell(m, j)
        BY DEF Part
      <4>2. PICK i \in 1..n : a + i - 1 = j
        BY <3>2
      <4>3. s \in c[i]
        BY <2>3, <4>1, <4>2
      <4> QED
        BY <2>3, <4>3 DEF SamplesOf
    <3> QED
      BY <3>3, <3>4
  <2>5. Aligned(c)
    <3> SUFFICES ASSUME NEW i \in 1..n, NEW j \in 1..n, NEW s \in c[i], NEW t \in c[j]
                 PROVE  s.ts - t.ts = i - j
      BY <2>3 DEF Aligned
    <3>1. UsedSpace(m) \in Nat /\ Base(m) \in Int
      BY MixerNumbers DEF Base
    <3>2. a + i - 1 \in 0..UsedSpace(m) - 1 /\ a + j - 1 \in 0..UsedSpace(m) - 1
      BY <3>1
    <3>3. s.ts = Base(m) + (a + i - 1) /\ t.ts = Base(m) + (a + j - 1)
      BY <2>3, <3>2 DEF Tidy
    <3> QED
      BY <3>1, <3>3
  <2>6. o \o <<c>> \in Seq(Seq(SUBSET Sample))
    BY <1>0, <2>1
  <2> QED
    BY <2>1, <2>2, <2>4, <2>5, <2>6, Queues
<1> QED
  BY <1>1, <1>2

\* Going ahead in two steps, within the buffer.
LEMMA AheadTwice ==
  ASSUME NEW r \in 0..Cap - 1, NEW a \in Nat, NEW i \in Nat, a + i < Cap
  PROVE  Ahead(Ahead(r, a), i) = Ahead(r, a + i)
BY Bounds DEF Ahead

\* CreateShipment moves audio from the buffer to the output queue, in time; by force, all
\* of it.
LEMMA ShipmentTidy ==
  ASSUME NEW m \in Mixer, Sound(m), Tidy(m), NEW force \in BOOLEAN, force \/ Holdoff <= UsedSpace(m),
         NEW r, NEW d, NEW l
  PROVE  LET s == CreateShipment(m, force)
         IN  /\ Tidy(s) /\ s.error = m.error /\ s.stereo = m.stereo
             /\ AllAligned(m.output) => AllAligned(s.output)
             /\ Holds(m, r, d, l) => Holds(s, r, d, l)
             /\ force => UsedSpace(s) = 0
<1> DEFINE stop == ShipmentEnd(m, force)
           f == First(m, stop)
           g == Second(m, stop)
           s == CreateShipment(m, force)
           u == UsedSpace(m)
           o == m.output
           p == o \o Cells(m, m.read, f)
           q == p \o Cells(m, 0, g)
<1>0. o \in Seq(Seq(SUBSET Sample))
  BY DEF Mixer
<1>1. m.read \in 0..Cap - 1 /\ m.write \in 0..Cap - 1 /\ m.writeTs \in 0..Wrap - 1 /\ m.readTs \in 0..Wrap - 1
  BY DEF Mixer, Position, Timestamps
<1>2. stop \in 0..Cap - 1 /\ f + g = Distance(m.read, stop) /\ f + g <= UsedSpace(m)
  BY <1>1, Bounds DEF ShipmentEnd, Behind, First, Second, UsedSpace, Distance
<1>3. f \in Nat /\ f <= Cap - m.read /\ g \in 0..Cap - 1 /\ (g > 0 => m.read + f = Cap)
  BY <1>1, <1>2, Bounds DEF First, Second
<1>4. Ahead(Ahead(m.read, f), g) = stop
  BY <1>1, <1>2, Bounds DEF Ahead, First, Second
<1>5. u \in 0..Cap - 1 /\ u = Distance(m.read, m.write)
  BY UsedBound DEF UsedSpace
<1>6. force => f + g = u
  BY <1>2, <1>5 DEF ShipmentEnd
<1> HIDE DEF f, g, stop
<1>7. s = [m EXCEPT !.output = q, !.read = stop, !.readTs = m.readTs + (f + g)]
  BY <1>4 DEF CreateShipment, TimeShipped, f, g, stop
<1> HIDE DEF p, q, s
<1>8. /\ s.read = stop /\ s.write = m.write /\ s.writeTs = m.writeTs
      /\ s.buffer = m.buffer /\ s.output = q /\ s.error = m.error /\ s.stereo = m.stereo
  BY <1>7 DEF Mixer
<1>9. UsedSpace(s) = u - (f + g)
  <2>1. UsedSpace(s) = Distance(stop, m.write)
    BY <1>8 DEF UsedSpace
  <2>2. Distance(stop, m.write) = Distance(m.read, m.write) - Distance(m.read, stop)
    <3>1. Distance(m.read, stop) <= Distance(m.read, m.write)
      BY <1>2, <1>5
    <3> QED
      BY <1>1, <1>2, <3>1, Bounds DEF Distance
  <2> QED
    BY <1>2, <1>5, <2>1, <2>2
<1>10. f + g \in Nat /\ f + g <= u /\ f <= f + g
  BY <1>2, <1>3, Bounds
<1>11. \A i \in 0..u - (f + g) - 1 : Ahead(stop, i) = Ahead(m.read, (f + g) + i)
  <2>1. ASSUME NEW i \in 0..u - (f + g) - 1 PROVE Ahead(stop, i) = Ahead(m.read, (f + g) + i)
    <3> DEFINE k == f + g
    <3>0. k \in Nat /\ k <= u /\ u \in 0..Cap - 1 /\ i \in 0..u - k - 1
      BY <1>5, <1>10
    <3> HIDE DEF u, k
    <3>1. k \in Nat /\ i \in Nat /\ k + i < Cap
      BY <3>0, Bounds
    <3>2. stop = Ahead(m.read, k)
      BY <1>1, <1>2, Bounds DEF Distance, Ahead, k
    <3> QED
      BY <1>1, <3>1, <3>2, AheadTwice DEF k
  <2> QED
    BY <2>1
<1>12. \A i \in 0..u - (f + g) - 1 : Cell(s, i) = Cell(m, (f + g) + i)
  BY <1>8, <1>11 DEF Cell
<1>13. Base(m) \in Int /\ Base(m) = m.writeTs - u /\ Base(s) = Base(m) + (f + g)
  <2>1. Base(m) = m.writeTs - u
    BY DEF Base
  <2>2. Base(s) = m.writeTs - (u - (f + g))
    BY <1>8, <1>9 DEF Base
  <2> HIDE DEF u
  <2> QED
    BY <1>1, <1>5, <1>10, <2>1, <2>2, Bounds
<1>14. Tidy(s)
  <2> SUFFICES ASSUME NEW i \in 0..u - (f + g) - 1, NEW t \in Cell(m, (f + g) + i)
               PROVE  t.ts = Base(s) + i
    BY <1>9, <1>12 DEF Tidy
  <2> HIDE DEF u
  <2>1. (f + g) + i \in 0..u - 1
    BY <1>5, <1>10
  <2>2. t.ts = Base(m) + ((f + g) + i)
    BY <2>1 DEF Tidy, u
  <2> QED
    BY <1>10, <1>13, <2>2
<1>15. Part(s, 0, UsedSpace(s)) = Part(m, f + g, u)
  <2> HIDE DEF u
  <2>1. ASSUME NEW t \in Part(s, 0, UsedSpace(s)) PROVE t \in Part(m, f + g, u)
    <3>1. PICK i \in 0..u - (f + g) - 1 : t \in Cell(m, (f + g) + i)
      BY <1>9, <1>12 DEF Part
    <3>2. (f + g) + i \in f + g..u - 1
      BY <1>5, <1>10
    <3> QED
      BY <3>1, <3>2 DEF Part
  <2>2. ASSUME NEW t \in Part(m, f + g, u) PROVE t \in Part(s, 0, UsedSpace(s))
    <3>1. PICK j \in f + g..u - 1 : t \in Cell(m, j)
      BY DEF Part
    <3>2. PICK i \in 0..u - (f + g) - 1 : (f + g) + i = j
      <4>1. j - (f + g) \in 0..u - (f + g) - 1 /\ (f + g) + (j - (f + g)) = j
        BY <1>5, <1>10
      <4> QED
        BY <4>1
    <3>3. t \in Cell(s, i)
      BY <1>12, <3>1, <3>2
    <3> QED
      BY <1>9, <3>3 DEF Part
  <2> QED
    BY <2>1, <2>2
<1>16. /\ p \in Seq(Seq(SUBSET Sample))
       /\ InChunks(p) = InChunks(o) \cup Part(m, 0, f)
       /\ Apart(o) /\ InChunks(o) \cap Part(m, 0, f) = {} => Apart(p)
       /\ AllAligned(o) => AllAligned(p)
  <2>1. \A i \in 0..f - 1 : m.read + i = Ahead(m.read, 0 + i)
    BY <1>1, <1>3, Bounds DEF Ahead
  <2>2. m.read \in Nat /\ m.read + f <= Cap /\ 0 \in Nat /\ 0 + f = f /\ f <= u
    BY <1>1, <1>3, <1>5, <1>10, Bounds
  <2>3. 0 + f <= UsedSpace(m)
    BY <2>2
  <2> HIDE DEF o, u
  <2>4. /\ p \in Seq(Seq(SUBSET Sample))
        /\ InChunks(p) = InChunks(o) \cup Part(m, 0, 0 + f)
        /\ Apart(o) /\ InChunks(o) \cap Part(m, 0, 0 + f) = {} => Apart(p)
        /\ AllAligned(o) => AllAligned(p)
    BY <1>0, <1>3, <2>1, <2>2, <2>3, CellsShipped DEF p
  <2>5. 0 + f = f
    BY <1>3
  <2> QED
    BY <2>4, <2>5, Zenon
<1>17. /\ InChunks(q) = InChunks(p) \cup Part(m, f, f + g)
       /\ Apart(p) /\ InChunks(p) \cap Part(m, f, f + g) = {} => Apart(q)
       /\ AllAligned(p) => AllAligned(q)
  <2>1. \A i \in 0..g - 1 : 0 + i = Ahead(m.read, f + i)
    <3>1. ASSUME NEW i \in 0..g - 1 PROVE 0 + i = Ahead(m.read, f + i)
      <4>1. g > 0 /\ i \in Nat
        BY <1>3
      <4>2. m.read + f = Cap
        BY <1>3, <4>1
      <4> QED
        BY <1>1, <1>3, <4>1, <4>2, Bounds DEF Ahead
    <3> QED
      BY <3>1
  <2>2. g \in Nat /\ 0 \in Nat /\ 0 + g <= Cap
    BY <1>3, Bounds
  <2>3. f + g <= UsedSpace(m)
    BY <1>10
  <2> HIDE DEF u, o
  <2> QED
    BY <1>3, <1>16, <2>1, <2>2, <2>3, CellsShipped DEF q
<1>18. AllAligned(o) => AllAligned(s.output)
  BY <1>8, <1>16, <1>17
<1>19. ASSUME Holds(m, r, d, l) PROVE Holds(s, r, d, l)
  <2>1. 0 \in Nat /\ 0 <= f /\ f + g <= u /\ f + g <= UsedSpace(m) /\ u \in Nat /\ u <= UsedSpace(m) /\ 0 <= f + g /\ f <= UsedSpace(m)
    BY <1>3, <1>5, <1>10
  <2> HIDE DEF u
  <2>2. /\ Part(m, 0, f + g) = Part(m, 0, f) \cup Part(m, f, f + g)
        /\ Part(m, 0, f) \cap Part(m, f, f + g) = {}
    BY <1>3, <1>10, <2>1, Parts
  <2>3. /\ Part(m, 0, u) = Part(m, 0, f + g) \cup Part(m, f + g, u)
        /\ Part(m, 0, f + g) \cap Part(m, f + g, u) = {}
    BY <1>10, <2>1, Parts
  <2>4. /\ Divided(m.stereo, Part(m, 0, u), InChunks(o), InChunks(r), l, d)
        /\ Part(m, 0, u) \cap InChunks(o) = {} /\ Apart(o)
    <3>1. Divided(m.stereo, Part(m, 0, u), InChunks(o), InChunks(r), l, d) /\ Apart(o)
      BY <1>19 DEF Holds, u
    <3> QED
      BY <3>1 DEF Divided
  <2>5. Apart(q)
    <3>1. Apart(p)
      BY <1>16, <2>2, <2>3, <2>4
    <3>2. InChunks(p) \cap Part(m, f, f + g) = {}
      BY <1>16, <2>2, <2>3, <2>4
    <3> QED
      BY <1>17, <3>1, <3>2
  <2>6. InChunks(q) = InChunks(o) \cup Part(m, 0, f + g)
    BY <1>16, <1>17, <2>2
  <2>7. Divided(m.stereo, Part(m, f + g, u), InChunks(q), InChunks(r), l, d)
    <3>1. Divided(m.stereo, Part(m, f + g, u), InChunks(o) \cup Part(m, 0, f + g), InChunks(r), l, d)
      <4> HIDE DEF o
      <4> QED
        BY <2>3, <2>4, DividedShip
    <3> QED
      BY <2>6, <3>1
  <2> QED
    BY <1>8, <1>15, <2>5, <2>7 DEF Holds
<1>20. force => UsedSpace(s) = 0
  BY <1>5, <1>6, <1>9
<1> QED
  BY <1>8, <1>14, <1>18, <1>19, <1>20 DEF s

-----------------------------------------------------------------------------
(* The steps, and what they do to the audio.                                 *)

\* An empty buffer is tidy, and holds what the output queue holds.
LEMMA EmptyHolds ==
  ASSUME NEW m, NEW x, UsedSpace(m) = 0, UsedSpace(x) = 0, x.output = m.output, x.stereo = m.stereo,
         NEW f, NEW d, NEW g
  PROVE  Tidy(x) /\ (Holds(m, f, d, g) => Holds(x, f, d, g))
<1>1. Part(m, 0, 0) = {} /\ Part(x, 0, 0) = {}
  <2>1. 0..0 - 1 = {}
    OBVIOUS
  <2> QED
    BY <2>1 DEF Part
<1>2. Tidy(x)
  <2>1. 0..0 - 1 = {}
    OBVIOUS
  <2> QED
    BY <2>1 DEF Tidy
<1> QED
  BY <1>1, <1>2 DEF Holds

\* The mixer that a chunk is stored in has lost no audio.
LEMMA TargetTidy ==
  ASSUME NEW m \in Mixer, Sound(m), Tidy(m), NEW c, NEW ts \in Timestamps, NEW f, NEW d, NEW g
  PROVE  LET t == Target(m, c, ts)
         IN  /\ Tidy(t) /\ t.error = m.error
             /\ AllAligned(m.output) => AllAligned(t.output)
             /\ Holds(m, f, d, g) => Holds(t, f, d, g)
             /\ (t = m /\ InRange(m, c.n, ts)) \/ (UsedSpace(t) = 0 /\ t.writeTs = ts)
<1> DEFINE t == Target(m, c, ts)
<1>1. m.writeTs \in 0..Wrap - 1 /\ m.readTs \in 0..Wrap - 1 /\ UsedSpace(m) \in 0..Cap - 1 /\ ts \in Nat
  <2>1. m.writeTs \in 0..Wrap - 1 /\ m.readTs \in 0..Wrap - 1
    BY DEF Mixer, Timestamps
  <2>2. ts \in Nat
    BY DEF Timestamps
  <2> QED
    BY <2>1, <2>2, UsedBound
<1>2. CASE m.writeTs = 0
  <2>1. t = Opened(m, ts)
    BY <1>2 DEF Target
  <2> HIDE DEF t
  <2>2. /\ t.read = m.read /\ t.write = m.write /\ t.writeTs = ts /\ t.output = m.output
        /\ t.error = m.error /\ t.stereo = m.stereo
    BY <2>1 DEF Opened, Mixer
  <2>3. UsedSpace(m) = 0
    BY <1>1, <1>2, SoundSpan
  <2>4. UsedSpace(t) = 0
    BY <2>2, <2>3 DEF UsedSpace
  <2>5. Tidy(t) /\ (Holds(m, f, d, g) => Holds(t, f, d, g))
    BY <2>2, <2>3, <2>4, EmptyHolds
  <2> QED
    BY <2>2, <2>4, <2>5 DEF t
<1>3. CASE m.writeTs # 0 /\ InRange(m, c.n, ts)
  BY <1>3 DEF Target
<1>4. CASE m.writeTs # 0 /\ ~InRange(m, c.n, ts)
  <2> DEFINE s == CreateShipment(m, TRUE)
             r == Reset(s, ts)
  <2>1. s \in Mixer /\ t = [r EXCEPT !.delta = 0]
    BY <1>4, ShipmentSound DEF Sound, Target, Restarted
  <2>2. /\ Tidy(s) /\ s.error = m.error /\ s.stereo = m.stereo /\ (AllAligned(m.output) => AllAligned(s.output))
        /\ (Holds(m, f, d, g) => Holds(s, f, d, g)) /\ UsedSpace(s) = 0
    BY ShipmentTidy
  <2> HIDE DEF s
  <2>3. r \in Mixer /\ r.output = s.output /\ r.error = s.error /\ r.stereo = s.stereo
    <3>1. 0 \in Position
      BY Bounds DEF Position
    <3>2. r = [s EXCEPT !.write = 0, !.read = 0, !.writeTs = ts, !.readTs = ts]
      BY DEF Reset
    <3> HIDE DEF r
    <3> QED
      BY <2>1, <3>1, <3>2 DEF Mixer
  <2>4. t \in Mixer /\ t.read = 0 /\ t.write = 0 /\ t.readTs = ts /\ t.writeTs = ts
    BY <2>1, ResetEmpty
  <2> HIDE DEF r, t
  <2>5. t.output = s.output /\ t.error = s.error /\ t.stereo = s.stereo
    BY <2>1, <2>3 DEF Mixer
  <2>6. UsedSpace(t) = 0
    BY <2>4 DEF UsedSpace, Distance
  <2>7. Tidy(t) /\ (Holds(s, f, d, g) => Holds(t, f, d, g))
    BY <2>2, <2>5, <2>6, EmptyHolds
  <2> QED
    BY <2>2, <2>4, <2>5, <2>6, <2>7 DEF t
<1> QED
  BY <1>2, <1>3, <1>4

\* A chunk that fits ends within the free space and starts within the used space: the
\* differences of its timestamps are too small to be taken for negative ones.
LEMMA FitsRoomy ==
  ASSUME NEW m \in Mixer, NEW n \in Nat \ {0}, NEW ts \in Timestamps, Fits(m, n, ts)
  PROVE  Roomy(m, n, ts)
<1> DEFINE k == Silence(m, n, ts)
           u == UsedSpace(m)
<1>1. m.writeTs \in 0..Wrap - 1 /\ ts \in 0..Wrap - 1 /\ u \in 0..Cap - 1
  BY UsedBound DEF Mixer, Timestamps
<1>2. Signed(Minus((ts + n) % Wrap, m.writeTs)) <= Cap - u /\ Signed(Minus(m.writeTs, ts)) <= u
  BY DEF Fits, FreeSpace
<1>3. \A a \in Nat : a < Cap => Signed(a) = a
  BY Bounds DEF Signed
<1> HIDE DEF u
<1>4. ASSUME ~Dismissed(m, n, ts) PROVE u + k <= Cap
  <2>1. ts + n < Wrap /\ ts + n - m.writeTs < Cap
    BY <1>1, <1>4, Bounds DEF Dismissed
  <2>2. CASE ts + n > m.writeTs
    <3>1. k = ts + n - m.writeTs /\ k \in Nat /\ k < Cap
      BY <1>1, <2>1, <2>2, Bounds DEF Silence
    <3>2. (ts + n) % Wrap = ts + n
      BY <1>1, <2>1, Bounds
    <3>3. Minus(ts + n, m.writeTs) = k
      BY <1>1, <2>2, <3>1 DEF Minus
    <3>4. Signed(k) = k
      BY <1>3, <3>1
    <3>5. k <= Cap - u
      BY <1>2, <3>2, <3>3, <3>4
    <3> QED
      BY <1>1, <3>1, <3>5, Bounds
  <2>3. CASE ~(ts + n > m.writeTs)
    <3>1. k = 0
      BY <2>3 DEF Silence
    <3> QED
      BY <1>1, <3>1, Bounds
  <2> QED
    BY <2>2, <2>3
<1>5. ASSUME Mixable(m, n, ts) PROVE m.writeTs - u <= ts
  <2>1. Extended(m, n, ts).writeTs = m.writeTs + k
    BY DEF Extended, Mixer
  <2>2. k \in Nat
    BY <1>1, Bounds DEF Silence
  <2>3. m.writeTs - ts < Cap
    BY <1>1, <1>5, <2>1, <2>2, Bounds DEF Mixable
  <2>4. CASE m.writeTs >= ts
    <3>1. PICK a \in Nat : a = m.writeTs - ts
      BY <1>1, <2>4
    <3>2. Minus(m.writeTs, ts) = a /\ a < Cap
      BY <2>3, <2>4, <3>1 DEF Minus
    <3>3. a <= u
      BY <1>2, <1>3, <3>1, <3>2
    <3> QED
      BY <1>1, <3>1, <3>3, Bounds
  <2>5. CASE ~(m.writeTs >= ts)
    BY <1>1, <2>5, Bounds
  <2> QED
    BY <2>4, <2>5
<1> QED
  BY <1>4, <1>5 DEF Roomy, Base, u

\* So does every chunk in an empty buffer that starts where the chunk starts.
LEMMA EmptyRoomy ==
  ASSUME NEW m, NEW n \in Nat \ {0}, NEW ts \in Timestamps, UsedSpace(m) = 0, m.writeTs = ts
  PROVE  Roomy(m, n, ts)
<1>1. ts \in Nat
  BY DEF Timestamps
<1>2. ~Dismissed(m, n, ts) => Silence(m, n, ts) \in Nat /\ Silence(m, n, ts) < Cap
  BY <1>1, Bounds DEF Dismissed, Silence
<1> QED
  BY <1>1, <1>2, Bounds DEF Roomy, Base

\* AudioChunkOut and the write take the first chunk of the output queue to the file.
LEMMA WriteOutHeld ==
  ASSUME NEW m \in Mixer, file \in Seq(Seq(SUBSET Sample)), NEW d, NEW g,
         WriteOut(m), AllAligned(m.output), AllAligned(file)
  PROVE  /\ Tidy(m) => Tidy(mixer')
         /\ OutputAligned'
         /\ Holds(m, file, d, g) => Holds(mixer', file', d, g)
         /\ mixer'.error = m.error /\ UsedSpace(mixer') = UsedSpace(m)
         /\ m.output = <<>> => mixer'.output = <<>>
<1>1. CASE m.output = <<>>
  <2>1. mixer' = m /\ file' = file
    BY <1>1 DEF WriteOut
  <2>2. OutputAligned'
    BY <2>1 DEF OutputAligned
  <2> QED
    BY <2>1, <2>2
<1>2. CASE m.output # <<>>
  <2> DEFINE o == m.output
             p == Tail(m.output)
             h == Head(m.output)
             H == SamplesOf(h)
  <2>0. o \in Seq(Seq(SUBSET Sample)) /\ h \in Seq(SUBSET Sample)
    BY <1>2 DEF Mixer
  <2>1. mixer' = [m EXCEPT !.output = p] /\ file' = file \o <<h>>
    <3>1. mixer' = [m EXCEPT !.output = p] /\ file' = Append(file, h)
      BY <1>2 DEF WriteOut
    <3> HIDE DEF h
    <3>2. Append(file, h) = file \o <<h>>
      BY <2>0
    <3> QED
      BY <3>1, <3>2
  <2>2. /\ h = o[1] /\ 1 \in DOMAIN o
        /\ \A k \in DOMAIN p : k + 1 \in DOMAIN o /\ k + 1 # 1 /\ p[k] = o[k + 1]
        /\ \A l \in DOMAIN o : l # 1 => l - 1 \in DOMAIN p /\ p[l - 1] = o[l]
    <3>2. Len(o) \in Nat \ {0} /\ DOMAIN o = 1..Len(o) /\ DOMAIN p = 1..Len(o) - 1 /\ h = o[1]
      BY <1>2, <2>0
    <3>3. \A k \in 1..Len(o) - 1 : p[k] = o[k + 1]
      BY <1>2, <2>0
    <3> HIDE DEF o, p, h
    <3> QED
      BY <3>2, <3>3
  <2> HIDE DEF p, h
  <2>3. /\ mixer'.output = p /\ mixer'.error = m.error /\ mixer'.buffer = m.buffer /\ mixer'.stereo = m.stereo
        /\ mixer'.read = m.read /\ mixer'.write = m.write /\ mixer'.writeTs = m.writeTs
    BY <2>1 DEF Mixer
  <2>4. UsedSpace(mixer') = UsedSpace(m) /\ Base(mixer') = Base(m)
    BY <2>3 DEF UsedSpace, Base
  <2>5. \A i : Cell(mixer', i) = Cell(m, i)
    BY <2>3 DEF Cell
  <2>6. \A a, b : Part(mixer', a, b) = Part(m, a, b)
    BY <2>5 DEF Part
  <2>7. Tidy(m) => Tidy(mixer')
    BY <2>4, <2>5 DEF Tidy
  <2>8. AllAligned(p)
    BY <2>2 DEF AllAligned
  <2>9. Aligned(h)
    BY <2>2 DEF AllAligned
  <2>10. AllAligned(file') /\ InChunks(file') = InChunks(file) \cup H
    BY <2>0, <2>1, <2>9, Queues
  <2>11. OutputAligned'
    BY <2>3, <2>8, <2>10 DEF OutputAligned
  <2>12. InChunks(o) = H \cup InChunks(p)
    <3>1. ASSUME NEW s \in InChunks(o) PROVE s \in H \cup InChunks(p)
      <4>1. PICK l \in DOMAIN o : s \in SamplesOf(o[l])
        BY DEF InChunks
      <4>2. CASE l = 1
        BY <2>2, <4>1, <4>2
      <4>3. CASE l # 1
        BY <2>2, <4>1, <4>3 DEF InChunks
      <4> QED
        BY <4>2, <4>3
    <3>2. ASSUME NEW s \in H PROVE s \in InChunks(o)
      BY <2>2 DEF InChunks
    <3>3. ASSUME NEW s \in InChunks(p) PROVE s \in InChunks(o)
      BY <2>2 DEF InChunks
    <3> QED
      BY <3>1, <3>2, <3>3
  <2>13. ASSUME Apart(o) PROVE H \cap InChunks(p) = {} /\ Apart(p)
    <3>1. ASSUME NEW k \in DOMAIN p PROVE H \cap SamplesOf(p[k]) = {}
      BY <2>2, <2>13 DEF Apart
    <3>2. ASSUME NEW k \in DOMAIN p, NEW l \in DOMAIN p, k # l
          PROVE  SamplesOf(p[k]) \cap SamplesOf(p[l]) = {}
      <4>1. k + 1 \in DOMAIN o /\ l + 1 \in DOMAIN o /\ p[k] = o[k + 1] /\ p[l] = o[l + 1]
        BY <2>2
      <4>2. DOMAIN p \subseteq Int
        BY <1>2 DEF p, Mixer
      <4>3. k + 1 # l + 1
        BY <3>2, <4>2
      <4> QED
        BY <2>13, <4>1, <4>3 DEF Apart
    <3> QED
      BY <3>1, <3>2 DEF InChunks, Apart
  <2>14. ASSUME Holds(m, file, d, g) PROVE Holds(mixer', file', d, g)
    <3> HIDE DEF H
    <3>1. Divided(m.stereo, Part(m, 0, UsedSpace(m)), InChunks(o), InChunks(file), g, d) /\ Apart(o)
      BY <2>14 DEF Holds
    <3>2. Divided(m.stereo, Part(m, 0, UsedSpace(m)), InChunks(p), InChunks(file) \cup H, g, d) /\ Apart(p)
      BY <2>12, <2>13, <3>1, DividedWrite
    <3> QED
      BY <2>3, <2>4, <2>6, <2>10, <3>2 DEF Holds
  <2> QED
    BY <1>2, <2>3, <2>4, <2>7, <2>11, <2>14
<1> QED
  BY <1>1, <1>2

\* A chunk that is not stored leaves the audio alone.
LEMMA UnstoredHeld ==
  ASSUME MixerInv, TidyInv, HeldInv, NEW x, SamePlace(mixer, x),
         x.buffer = mixer.buffer, x.output = mixer.output, WriteOut(x)
  PROVE  /\ TidyInv' /\ Holds(mixer', file', mixed, lost)
         /\ UsedSpace(mixer') = UsedSpace(mixer) /\ mixer'.error = x.error
         /\ mixer.output = <<>> => mixer'.output = <<>>
<1>1. UsedSpace(x) = UsedSpace(mixer) /\ Base(x) = Base(mixer) /\ x \in Mixer /\ x.stereo = mixer.stereo
  BY DEF SamePlace, UsedSpace, Base
<1>2. \A i : Cell(x, i) = Cell(mixer, i)
  BY DEF SamePlace, Cell
<1>3. \A a, b : Part(x, a, b) = Part(mixer, a, b)
  BY <1>2 DEF Part
<1>4. Tidy(x)
  BY <1>1, <1>2 DEF TidyInv, Tidy
<1>5. Holds(x, file, mixed, lost)
  BY <1>1, <1>3 DEF HeldInv, Holds
<1>6. AllAligned(x.output) /\ AllAligned(file) /\ file \in Seq(Seq(SUBSET Sample))
  BY DEF TidyInv, OutputAligned, MixerInv, TypeOK
<1>7. /\ Tidy(mixer') /\ OutputAligned' /\ Holds(mixer', file', mixed, lost)
      /\ mixer'.error = x.error /\ UsedSpace(mixer') = UsedSpace(x)
      /\ x.output = <<>> => mixer'.output = <<>>
  BY <1>1, <1>4, <1>5, <1>6, WriteOutHeld
<1>8. TidyInv'
  BY <1>7 DEF TidyInv, Tidy
<1> QED
  BY <1>1, <1>7, <1>8

\* A chunk that is stored: its samples are added to the audio, and the shipment it brings
\* about, if any, loses none.
LEMMA StoredHeld ==
  ASSUME MixerInv, TidyInv, HeldInv, NEW c \in AudioChunk, chunks < MaxChunks, AudioChunkIn(c),
         ~mixer.error, ~TooBig(c), IsStored(Prepared(c), c, CorrectedTimestamp(Prepared(c), Arrived(c)))
  PROVE  /\ TidyInv'
         /\ (\A s \in mixed' : s.chunk <= chunks + 1) /\ Holds(mixer', file', mixed', lost')
<1> DEFINE m == Prepared(c)
           ts == CorrectedTimestamp(m, Arrived(c))
           target == Target(m, c, ts)
           stored == StoreRtpPacket(target, c, ts)
           shipped == IF ShipsAfter(m, c, ts, stored) THEN CreateShipment(stored, FALSE) ELSE stored
           new == Stored(target, c, ts)
           after == After(target, c, ts)
           fills == Fills(target, c.n, ts)
<1>1. /\ mixer \in Mixer /\ Sound(mixer) /\ file \in Seq(Seq(SUBSET Sample))
      /\ chunks \in Nat /\ chunks + 1 \in 1..MaxChunks
  BY Bounds DEF MixerInv, TypeOK
<1>2. /\ SamePlace(mixer, m) /\ SameAudio(mixer, m)
      /\ Arrived(c).ts \in Timestamps /\ Arrived(c).channel \in Channel
  BY <1>1, PreparedSame, PreparedAudio
<1>3. /\ m \in Mixer /\ Sound(m)
      /\ Tidy(m) /\ Holds(m, file, mixed, lost) /\ AllAligned(m.output)
  BY <1>1, <1>2, SamePlaceSound, SameAudioKeeps DEF SamePlace, TidyInv, HeldInv, OutputAligned
<1>4. ts \in Timestamps /\ c.n \in Nat \ {0}
  BY <1>2, <1>3, CorrectedType, ChunkType
<1>5. /\ WriteOut(shipped) /\ mixed' = mixed \cup new
      /\ lost' = IF fills THEN lost \cup SamplesOf(stored.buffer) ELSE lost
  BY DEF AudioChunkIn
<1> HIDE DEF m, ts
<1>6. /\ target \in Mixer /\ Sound(target)
      /\ Tidy(target) /\ AllAligned(target.output) /\ Holds(target, file, mixed, lost)
      /\ (target = m /\ InRange(m, c.n, ts)) \/ (UsedSpace(target) = 0 /\ target.writeTs = ts)
  BY <1>3, <1>4, TargetSound, TargetTidy DEF Sound
<1>7. Roomy(target, c.n, ts)
  <2> HIDE DEF target
  <2> QED
    BY <1>3, <1>4, <1>6, FitsRoomy, EmptyRoomy DEF InRange
<1>8. \A s \in new : s.chunk = chunks + 1
  BY DEF Stored, NewSample
<1>9. \A s \in mixed : s.chunk <= chunks /\ s.chunk \in Nat
  BY DEF HeldInv, MixerInv, TypeOK, Sample
<1> HIDE DEF target, new
<1>10. /\ stored \in Mixer /\ Sound(stored)
       /\ Tidy(stored) /\ stored.output = target.output /\ stored.stereo = target.stereo
       /\ Renewed(target.stereo, Part(target, 0, UsedSpace(target)), after, new)
       /\ fills => UsedSpace(stored) = 0
  BY <1>1, <1>4, <1>6, <1>7, StoreSound, StoreTidy DEF Sound, new
<1>11. after = IF fills THEN SamplesOf(stored.buffer) ELSE Part(stored, 0, UsedSpace(stored))
  BY DEF After
<1> HIDE DEF stored, after, fills
<1>12. Holds(stored, file, mixed', lost')
  <2> DEFINE q == InChunks(target.output)
             f == InChunks(file)
             st == target.stereo
  <2>1. Divided(st, Part(target, 0, UsedSpace(target)), q, f, lost, mixed) /\ Apart(target.output)
    BY <1>6 DEF Holds
  <2>2. \A s \in mixed, t \in new : t.chunk > s.chunk /\ t # s
    BY <1>1, <1>8, <1>9
  <2>3. Divided(st, after, q, f, lost, mixed \cup new)
    <3> HIDE DEF st, q, f
    <3> QED
      BY <1>10, <2>1, <2>2, DividedStore DEF st
  <2>4. CASE fills
    <3>1. Part(stored, 0, UsedSpace(stored)) = {}
      <4>1. 0..0 - 1 = {}
        OBVIOUS
      <4> QED
        BY <1>10, <2>4, <4>1 DEF Part
    <3>2. lost' = lost \cup after
      BY <1>5, <1>11, <2>4
    <3>3. Divided(st, {}, q, f, lost \cup after, mixed \cup new)
      BY <2>3, DividedLost
    <3> QED
      BY <1>5, <1>10, <2>1, <3>1, <3>2, <3>3 DEF Holds
  <2>5. CASE ~fills
    BY <1>5, <1>10, <1>11, <2>1, <2>3, <2>5 DEF Holds
  <2> QED
    BY <2>4, <2>5
<1>13. /\ shipped \in Mixer /\ Tidy(shipped) /\ AllAligned(shipped.output)
       /\ Holds(shipped, file, mixed', lost')
  <2>1. CASE ShipsAfter(m, c, ts, stored)
    <3>1. Holdoff <= UsedSpace(stored)
      BY <1>10, <2>1, MixerNumbers, Bounds DEF ShipsAfter
    <3>2. shipped = CreateShipment(stored, FALSE)
      BY <2>1
    <3> HIDE DEF shipped
    <3>3. shipped \in Mixer
      BY <1>10, <3>1, <3>2, ShipmentSound DEF Sound
    <3>4. AllAligned(stored.output)
      BY <1>6, <1>10
    <3> QED
      BY <1>10, <1>12, <3>1, <3>2, <3>3, <3>4, ShipmentTidy
  <2>2. CASE ~ShipsAfter(m, c, ts, stored)
    BY <1>6, <1>10, <1>12, <2>2
  <2> QED
    BY <2>1, <2>2
<1> HIDE DEF shipped
<1>14. Tidy(mixer') /\ OutputAligned' /\ Holds(mixer', file', mixed', lost')
  <2>1. AllAligned(file)
    BY DEF TidyInv, OutputAligned
  <2> QED
    BY <1>1, <1>5, <1>13, <2>1, WriteOutHeld
<1>15. \A s \in mixed' : s.chunk <= chunks + 1
  BY <1>1, <1>5, <1>8, <1>9
<1>16. TidyInv'
  BY <1>14 DEF TidyInv, Tidy
<1> QED
  BY <1>14, <1>15, <1>16

\* The initial mixer holds nothing.
LEMMA InitHeld == Init => TidyInv /\ HeldInv
<1> SUFFICES ASSUME Init PROVE TidyInv /\ HeldInv
  OBVIOUS
<1>1. PICK stereo \in BOOLEAN : mixer = NewMixer(stereo)
  BY DEF Init
<1>2. /\ mixer.read = 0 /\ mixer.write = 0 /\ mixer.output = <<>>
      /\ phase = "mixing" /\ file = <<>> /\ mixed = {} /\ lost = {}
  BY <1>1 DEF NewMixer, Init
<1>3. UsedSpace(mixer) = 0
  BY <1>2 DEF UsedSpace, Distance
<1>4. Tidy(mixer)
  <2>1. 0..0 - 1 = {}
    OBVIOUS
  <2> QED
    BY <1>3, <2>1 DEF Tidy
<1>5. OutputAligned
  BY <1>2 DEF OutputAligned, AllAligned
<1>6. Holds(mixer, file, mixed, lost)
  <2>1. Part(mixer, 0, 0) = {}
    <3>1. 0..0 - 1 = {}
      OBVIOUS
    <3> QED
      BY <3>1 DEF Part
  <2>2. InChunks(<<>>) = {} /\ Apart(<<>>)
    BY DEF InChunks, Apart
  <2> QED
    BY <1>2, <1>3, <2>1, <2>2 DEF Holds, Divided
<1> QED
  BY <1>2, <1>4, <1>5, <1>6 DEF TidyInv, HeldInv

\* Every step of the batch thread keeps the audio, and keeps it in time.
LEMMA StepHeld == MixerInv /\ TidyInv /\ HeldInv /\ [Next]_vars => TidyInv' /\ HeldInv'
<1> SUFFICES ASSUME MixerInv, TidyInv, HeldInv, [Next]_vars PROVE TidyInv' /\ HeldInv'
  OBVIOUS
<1>1. /\ mixer \in Mixer /\ Sound(mixer) /\ chunks \in Nat
      /\ \A s \in mixed : s.chunk \in Nat /\ s.chunk <= chunks
  BY DEF MixerInv, TypeOK, Sample, HeldInv
<1>chunk. ASSUME NEW c \in AudioChunk, Chunk(c) PROVE TidyInv' /\ HeldInv'
  <2> DEFINE stores == IsStored(Prepared(c), c, CorrectedTimestamp(Prepared(c), Arrived(c)))
  <2>1. AudioChunkIn(c) /\ chunks < MaxChunks /\ chunks' = chunks + 1 /\ phase' = "mixing"
    BY <1>chunk DEF Chunk
  <2>2. /\ TidyInv'
        /\ (\A s \in mixed' : s.chunk <= chunks + 1) /\ Holds(mixer', file', mixed', lost')
    <3>old. \A s \in mixed : s.chunk <= chunks + 1
      BY <1>1
    <3>bad. CASE mixer.error \/ TooBig(c)
      <4> DEFINE x == [mixer EXCEPT !.error = TRUE]
      <4>1. SamePlace(mixer, x) /\ x.buffer = mixer.buffer /\ x.output = mixer.output
        BY <1>1 DEF SamePlace, Mixer
      <4>2. WriteOut(x) /\ mixed' = mixed /\ lost' = lost
        BY <2>1, <3>bad DEF AudioChunkIn
      <4> HIDE DEF x
      <4> QED
        BY <3>old, <4>1, <4>2, UnstoredHeld
    <3>kept. CASE ~mixer.error /\ ~TooBig(c) /\ stores
      BY <2>1, <3>kept, StoredHeld
    <3>lost. CASE ~mixer.error /\ ~TooBig(c) /\ ~stores
      <4> DEFINE m == Prepared(c)
                 x == IF m.writeTs = 0 THEN m ELSE Realigned(m, Arrived(c))
      <4>1. SameAudio(mixer, m) /\ SameAudio(mixer, Realigned(m, Arrived(c)))
        BY <1>1, PreparedAudio
      <4>2. WriteOut(x) /\ mixed' = mixed /\ lost' = lost
        BY <2>1, <3>lost DEF AudioChunkIn
      <4> HIDE DEF m
      <4>3. SamePlace(mixer, x) /\ x.buffer = mixer.buffer /\ x.output = mixer.output
        BY <4>1 DEF SameAudio
      <4> HIDE DEF x
      <4> QED
        BY <3>old, <4>2, <4>3, UnstoredHeld
    <3> QED
      BY <3>bad, <3>kept, <3>lost
  <2> QED
    BY <2>1, <2>2 DEF HeldInv, Holds
<1>eos. ASSUME EndOfStream PROVE TidyInv' /\ HeldInv'
  <2>1. mixer' = Flushed(mixer) /\ phase' = "flushing" /\ UNCHANGED <<file, chunks, mixed, lost>>
    BY <1>eos DEF EndOfStream
  <2>2. AllAligned(mixer.output) /\ AllAligned(file)
    BY DEF TidyInv, OutputAligned
  <2>3. /\ Tidy(mixer') /\ AllAligned(mixer'.output)
        /\ Holds(mixer', file, mixed, lost)
        /\ ~mixer'.error => UsedSpace(mixer') = 0
    <3>0. Holds(mixer, file, mixed, lost)
      BY DEF HeldInv
    <3>1. CASE mixer.error
      BY <2>1, <2>2, <3>0, <3>1 DEF Flushed, TidyInv
    <3>2. CASE ~mixer.error
      <4>1. mixer' = CreateShipment(mixer, TRUE)
        BY <2>1, <3>2 DEF Flushed
      <4>2. Tidy(mixer)
        BY DEF TidyInv
      <4> QED
        BY <1>1, <2>2, <3>0, <4>1, <4>2, ShipmentTidy
    <3> QED
      BY <3>1, <3>2
  <2>4. TidyInv'
    BY <2>1, <2>2, <2>3 DEF TidyInv, OutputAligned, Tidy
  <2> QED
    BY <1>1, <2>1, <2>3, <2>4 DEF HeldInv, Holds
<1>drain. ASSUME Drain PROVE TidyInv' /\ HeldInv'
  <2>1. /\ phase = "flushing" /\ WriteOut(mixer) /\ UNCHANGED <<chunks, mixed, lost>>
        /\ phase' = IF mixer.output = <<>> THEN "done" ELSE phase
    BY <1>drain DEF Drain
  <2>2. SamePlace(mixer, mixer)
    BY <1>1 DEF SamePlace
  <2>3. /\ TidyInv' /\ Holds(mixer', file', mixed, lost)
        /\ UsedSpace(mixer') = UsedSpace(mixer) /\ mixer'.error = mixer.error
        /\ mixer.output = <<>> => mixer'.output = <<>>
    BY <2>1, <2>2, UnstoredHeld
  <2>4. /\ \A s \in mixed' : s.chunk <= chunks'
        /\ ~mixer'.error => UsedSpace(mixer') = 0
        /\ phase' = "done" => mixer'.output = <<>>
    BY <1>1, <2>1, <2>3 DEF HeldInv
  <2> QED
    BY <2>1, <2>3, <2>4 DEF HeldInv, Holds, UsedSpace
<1>still. ASSUME UNCHANGED vars PROVE TidyInv' /\ HeldInv'
  <2>1. TidyInv'
    BY <1>still DEF vars, TidyInv, Tidy, OutputAligned
  <2>2. HeldInv'
    BY <1>still DEF vars, HeldInv, Holds
  <2> QED
    BY <2>1, <2>2
<1>done. QED
  BY <1>chunk, <1>eos, <1>drain, <1>still DEF Next

\* TidyInv and HeldInv hold in every run.
THEOREM MixerHeld == Spec => [](MixerInv /\ TidyInv /\ HeldInv)
BY InitSound, InitHeld, StepSound, StepHeld, PTL DEF Spec

\* What was mixed in is in one of the buffer, the output queue and the file, or in a stereo
\* output a later sample of its channel that replaced it is (StoreRtpPacket); CreateShipment
\* ships nothing twice, and a restart (ManageOutOfRangeTimestamp) first ships what there is.
\* All that is lost is what was in a buffer when it was filled to the last sample.
THEOREM AudioAccounted == Spec => []AudioHeld
<1>1. ASSUME HeldInv PROVE AudioHeld
  <2>1. Buffered = Part(mixer, 0, UsedSpace(mixer)) /\ Queued = InChunks(mixer.output) /\ Filed = InChunks(file)
    BY DEF Buffered, Held, Part, Cell, Queued, Filed
  <2>2. \A s, t : StandsIn(mixer.stereo, t, s) <=> StandsFor(t, s)
    BY DEF StandsIn, StandsFor
  <2>3. Divided(mixer.stereo, Buffered, Queued, Filed, lost, mixed)
    BY <1>1, <2>1 DEF HeldInv, Holds
  <2> QED
    BY <2>2, <2>3 DEF AudioHeld, Divided
<1> QED
  BY <1>1, MixerHeld, PTL

\* The samples of every chunk that leaves the mixer lie as far from each other as their
\* corrected timestamps (StoreRtpPacket, CreateShipment), filled buffer or not.
THEOREM MixedInTime == Spec => []OutputAligned
BY MixerHeld, PTL DEF TidyInv

\* At the end of the recording everything that was mixed in, or in a stereo output what
\* replaced it, is in the file or was in a buffer filled to the last sample, unless the
\* mixer is in error (the end-of-stream marker, and the loop that drains AudioChunkOut).
THEOREM RecordingFlushed == Spec => []FlushedAtEnd
<1>1. ASSUME HeldInv PROVE FlushedAtEnd
  <2> SUFFICES ASSUME phase = "done", ~mixer.error, NEW s \in mixed
               PROVE  \E t \in Filed \cup lost : StandsFor(t, s)
    BY DEF FlushedAtEnd
  <2>1. /\ UsedSpace(mixer) = 0 /\ mixer.output = <<>>
        /\ Divided(mixer.stereo, Part(mixer, 0, UsedSpace(mixer)), InChunks(mixer.output), InChunks(file), lost, mixed)
    BY <1>1 DEF HeldInv, Holds
  <2>2. 0..0 - 1 = {}
    OBVIOUS
  <2>3. Part(mixer, 0, 0) = {}
    BY <2>2 DEF Part
  <2>4. InChunks(<<>>) = {}
    BY DEF InChunks
  <2>5. \E t \in {} \cup {} \cup InChunks(file) \cup lost : StandsIn(mixer.stereo, t, s)
    BY <2>1, <2>3, <2>4 DEF Divided
  <2> QED
    BY <2>5 DEF StandsIn, StandsFor, Filed
<1> QED
  BY <1>1, MixerHeld, PTL
=============================================================================
