---------------------------- MODULE CaptureProofs ----------------------------
(***************************************************************************)
(* Proofs about Capture for every set of ports, every number of tapes,     *)
(* chunks and events, and every setting of the configuration flags: types, *)
(* a recording is handled once, a closed recording stays closed, none is   *)
(* orphaned, its work is never lost, and its messages come in order.       *)
(***************************************************************************)
EXTENDS Capture, TLAPS

\* What a step that does not close, write or dispose of a recording leaves
\* as it was: the life of the file behind the tape.
Quiet(a, b) ==
  /\ b.state = a.state /\ b.written = a.written
  /\ b.ready = a.ready /\ b.handed = a.handed /\ b.deleted = a.deleted

\* All tapes are still tapes, and no file was touched.
AllQuiet ==
  /\ tape' \in [Tape -> TapeRecord]
  /\ \A t \in Tape : Quiet(tape[t], tape'[t])

-----------------------------------------------------------------------------
(* What the helpers on the record of one tape return.                       *)

\* The flags and the count of chunks of a tape are not about its file.
LEMMA TapeEdits ==
  ASSUME NEW r \in TapeRecord
  PROVE  /\ \A b \in BOOLEAN : [r EXCEPT !.isQueued = b] \in TapeRecord /\ Quiet(r, [r EXCEPT !.isQueued = b])
         /\ \A b \in BOOLEAN : [r EXCEPT !.shouldStop = b] \in TapeRecord /\ Quiet(r, [r EXCEPT !.shouldStop = b])
         /\ \A b \in BOOLEAN : [r EXCEPT !.held = b] \in TapeRecord /\ Quiet(r, [r EXCEPT !.held = b])
         /\ \A b \in BOOLEAN : [r EXCEPT !.keep = b] \in TapeRecord /\ Quiet(r, [r EXCEPT !.keep = b])
         /\ \A b \in BOOLEAN : [r EXCEPT !.short = b] \in TapeRecord /\ Quiet(r, [r EXCEPT !.short = b])
         /\ \A n \in 0..QueueLimit : [r EXCEPT !.queued = n] \in TapeRecord /\ Quiet(r, [r EXCEPT !.queued = n])
<1>1. ASSUME NEW b \in BOOLEAN
      PROVE  [r EXCEPT !.isQueued = b] \in TapeRecord /\ Quiet(r, [r EXCEPT !.isQueued = b])
  <2>1. [r EXCEPT !.isQueued = b] \in TapeRecord
    BY DEF TapeRecord
  <2>2. Quiet(r, [r EXCEPT !.isQueued = b])
    BY DEF Quiet, TapeRecord
  <2> QED
    BY <2>1, <2>2
<1>2. ASSUME NEW b \in BOOLEAN
      PROVE  [r EXCEPT !.shouldStop = b] \in TapeRecord /\ Quiet(r, [r EXCEPT !.shouldStop = b])
  <2>1. [r EXCEPT !.shouldStop = b] \in TapeRecord
    BY DEF TapeRecord
  <2>2. Quiet(r, [r EXCEPT !.shouldStop = b])
    BY DEF Quiet, TapeRecord
  <2> QED
    BY <2>1, <2>2
<1>3. ASSUME NEW b \in BOOLEAN
      PROVE  [r EXCEPT !.held = b] \in TapeRecord /\ Quiet(r, [r EXCEPT !.held = b])
  <2>1. [r EXCEPT !.held = b] \in TapeRecord
    BY DEF TapeRecord
  <2>2. Quiet(r, [r EXCEPT !.held = b])
    BY DEF Quiet, TapeRecord
  <2> QED
    BY <2>1, <2>2
<1>4. ASSUME NEW b \in BOOLEAN
      PROVE  [r EXCEPT !.keep = b] \in TapeRecord /\ Quiet(r, [r EXCEPT !.keep = b])
  <2>1. [r EXCEPT !.keep = b] \in TapeRecord
    BY DEF TapeRecord
  <2>2. Quiet(r, [r EXCEPT !.keep = b])
    BY DEF Quiet, TapeRecord
  <2> QED
    BY <2>1, <2>2
<1>5. ASSUME NEW b \in BOOLEAN
      PROVE  [r EXCEPT !.short = b] \in TapeRecord /\ Quiet(r, [r EXCEPT !.short = b])
  <2>1. [r EXCEPT !.short = b] \in TapeRecord
    BY DEF TapeRecord
  <2>2. Quiet(r, [r EXCEPT !.short = b])
    BY DEF Quiet, TapeRecord
  <2> QED
    BY <2>1, <2>2
<1>6. ASSUME NEW b \in 0..QueueLimit
      PROVE  [r EXCEPT !.queued = b] \in TapeRecord /\ Quiet(r, [r EXCEPT !.queued = b])
  <2>1. [r EXCEPT !.queued = b] \in TapeRecord
    BY DEF TapeRecord
  <2>2. Quiet(r, [r EXCEPT !.queued = b])
    BY DEF Quiet, TapeRecord
  <2> QED
    BY <2>1, <2>2
<1> QED
  BY <1>1, <1>2, <1>3, <1>4, <1>5, <1>6

LEMMA AnyPortType == AnyPort \in Port
BY CaptureAssumption DEF AnyPort

LEMMA NewTapeType == \A p \in Port : NewTape(p) \in TapeRecord
<1>1. 0 \in 0..QueueLimit /\ <<>> \in Seq(Event) /\ <<>> \in Seq(Stage)
  BY CaptureAssumption
<1>2. QED
  BY <1>1 DEF NewTape, TapeRecord

\* Storing an event to send changes m_toSendEventQueue only.
LEMMA PushedQuiet ==
  ASSUME NEW tp \in TapeRecord, NEW e \in Event
  PROVE  Pushed(tp, e) \in TapeRecord /\ Quiet(tp, Pushed(tp, e))
<1>1. Append(tp.toSend, e) \in Seq(Event)
  BY DEF TapeRecord
<1>2. QED
  BY <1>1 DEF Pushed, TapeRecord, Quiet

\* Sending the next message changes m_toSendEventQueue and the messages only.
LEMMA ReportedQuiet ==
  ASSUME NEW tp \in TapeRecord
  PROVE  Reported(tp) \in TapeRecord /\ Quiet(tp, Reported(tp))
<1>1. tp.toSend \in Seq(Event) /\ tp.msgs \in Seq(Stage)
  BY DEF TapeRecord
<1>2. NextStage(tp) \in Stage
  <2>1. tp.toSend # <<>> => Head(tp.toSend) \in Event
    BY <1>1
  <2>2. QED
    BY <2>1 DEF NextStage, Stage
<1>3. Append(tp.msgs, NextStage(tp)) \in Seq(Stage)
  BY <1>1, <1>2
<1>4. (IF tp.toSend = <<>> THEN tp.toSend ELSE Tail(tp.toSend)) \in Seq(Event)
  BY <1>1
<1>5. QED
  BY <1>3, <1>4 DEF Reported, TapeRecord, Quiet

LEMMA SentQuiet ==
  ASSUME NEW tp \in TapeRecord, NEW e \in Event
  PROVE  Sent(tp, e) \in TapeRecord /\ Quiet(tp, Sent(tp, e))
<1>1. Pushed(tp, e) \in TapeRecord /\ Quiet(tp, Pushed(tp, e))
  BY PushedQuiet
<1>2. Sent(tp, e) \in TapeRecord /\ Quiet(Pushed(tp, e), Sent(tp, e))
  BY <1>1, ReportedQuiet DEF Sent
<1>3. QED
  BY <1>1, <1>2 DEF Quiet

\* One tape replaced by a record that leaves its file alone.
LEMMA UpdateQuiet ==
  ASSUME tape \in [Tape -> TapeRecord], NEW x \in Tape, NEW r \in TapeRecord,
         Quiet(tape[x], r), tape' = [tape EXCEPT ![x] = r]
  PROVE  AllQuiet
BY DEF AllQuiet, Quiet

LEMMA UnchangedQuiet ==
  ASSUME tape \in [Tape -> TapeRecord], tape' = tape
  PROVE  AllQuiet
BY DEF AllQuiet, Quiet

\* ImmediateProcessing::Push of an existing tape.
LEMMA ScheduleQuiet ==
  ASSUME TypeOK, NEW t \in 1..made, Schedule(t)
  PROVE  /\ AllQuiet
         /\ immQueue' \in Seq(Tape) /\ immSem' \in Nat
         /\ (\A i \in DOMAIN immQueue : immQueue[i] \in 1..made)
            => \A i \in DOMAIN immQueue' : immQueue'[i] \in 1..made
         /\ \A u \in Tape : u > made => tape'[u] = tape[u]
<1>1. t \in Tape
  BY CaptureAssumption DEF TypeOK, Tape
<1>2. CASE tape[t].isQueued
  BY <1>2, UnchangedQuiet DEF Schedule, TypeOK
<1>3. CASE ~tape[t].isQueued
  <2>1. immQueue' = Append(immQueue, t) /\ tape' = [tape EXCEPT ![t].isQueued = TRUE]
    BY <1>3 DEF Schedule
  <2>2. [tape[t] EXCEPT !.isQueued = TRUE] \in TapeRecord /\ Quiet(tape[t], [tape[t] EXCEPT !.isQueued = TRUE])
    BY <1>1, TapeEdits DEF TypeOK
  <2>3. AllQuiet
    BY <1>1, <2>1, <2>2, UpdateQuiet DEF TypeOK
  <2>4. immQueue' \in Seq(Tape) /\ immSem' \in Nat
    BY <1>1, <2>1 DEF TypeOK, Schedule
  <2>5. (\A i \in DOMAIN immQueue : immQueue[i] \in 1..made)
         => \A i \in DOMAIN immQueue' : immQueue'[i] \in 1..made
    BY <2>1 DEF TypeOK
  <2>6. \A u \in Tape : u > made => tape'[u] = tape[u]
    BY <2>1 DEF TypeOK, Tape
  <2>7. QED
    BY <2>3, <2>4, <2>5, <2>6
<1>4. QED
  BY <1>2, <1>3

-----------------------------------------------------------------------------
(* What every step of the capture thread, the chain and the daemon keeps:   *)
(* types and references, with no file touched and the immediate thread      *)
(* where it was.                                                            *)

Kept == TypeOK' /\ ReferencesExist' /\ AllQuiet

\* A step that replaces the record of at most one existing tape and leaves
\* the queue, the chain and the immediate thread alone.
LEMMA OneTape ==
  ASSUME TypeOK, ReferencesExist,
         NEW x \in 1..made, NEW r \in TapeRecord, Quiet(tape[x], r),
         tape' = [tape EXCEPT ![x] = r]
  PROVE  AllQuiet /\ \A t \in Tape : t > made => tape'[t] = tape[t]
<1>1. x \in Tape
  BY CaptureAssumption DEF TypeOK, Tape
<1>2. AllQuiet
  BY <1>1, UpdateQuiet DEF TypeOK
<1>3. \A t \in Tape : t > made => tape'[t] = tape[t]
  BY DEF TypeOK, Tape
<1>4. QED
  BY <1>2, <1>3

LEMMA StartKept ==
  ASSUME TypeOK, ReferencesExist, NEW p \in Port, Start(p)
  PROVE  Kept
<1> DEFINE new == made + 1
<1>1. new \in Tape /\ new > made /\ made' = new /\ made \in Nat
  BY CaptureAssumption DEF Start, TypeOK, Tape
<1>2. port[p].tape \in 0..made /\ new # port[p].tape
  BY <1>1 DEF ReferencesExist
<1>3. tape' = [t \in Tape |-> IF t = new THEN Pushed(NewTape(p), "start")
                             ELSE IF t = port[p].tape THEN Superseded(tape[t]) ELSE tape[t]]
  BY DEF Start
<1>4. AllQuiet
  <2>1. Pushed(NewTape(p), "start") \in TapeRecord /\ Quiet(NewTape(p), Pushed(NewTape(p), "start"))
    BY NewTapeType, PushedQuiet DEF Event
  <2>2. tape[new] = NewTape(AnyPort) /\ Quiet(NewTape(AnyPort), NewTape(p))
    BY <1>1 DEF ReferencesExist, Quiet, NewTape
  <2>3. Quiet(tape[new], Pushed(NewTape(p), "start"))
    BY <2>1, <2>2 DEF Quiet
  <2>4. \A t \in Tape : Superseded(tape[t]) \in TapeRecord /\ Quiet(tape[t], Superseded(tape[t]))
    BY TapeEdits DEF TypeOK, Superseded
  <2>5. \A t \in Tape : tape[t] \in TapeRecord /\ Quiet(tape[t], tape[t])
    BY DEF TypeOK, Quiet
  <2>6. \A t \in Tape : tape'[t] \in TapeRecord /\ Quiet(tape[t], tape'[t])
    BY <1>3, <2>1, <2>3, <2>4, <2>5
  <2>7. QED
    BY <1>3, <2>6 DEF AllQuiet
<1>5. /\ port' = [port EXCEPT ![p].capturing = TRUE, ![p].tape = new]
      /\ session' = [session EXCEPT ![p] = "starting"]
      /\ UNCHANGED <<cap, chunks, notes, stopping, immQueue, immSem, imm, chain>>
  BY DEF Start, immVars
<1>6. port' \in [Port -> PortRecord] /\ \A q \in Port : port'[q].tape \in 0..made'
  BY <1>1, <1>5, SMTT(30) DEF TypeOK, ReferencesExist, PortRecord
<1>7. TypeOK'
  <2>1. made' \in 0..MaxTapes
    BY <1>1, CaptureAssumption DEF Tape
  <2>2. session' \in [Port -> {"idle", "starting", "started"}]
    BY <1>5 DEF TypeOK
  <2>3. QED
    BY <1>4, <1>5, <1>6, <2>1, <2>2 DEF TypeOK, AllQuiet
<1>8. ReferencesExist'
  <2>1. \A t \in Tape : t > made' => tape'[t] = NewTape(AnyPort)
    BY <1>1, <1>2, <1>3 DEF ReferencesExist, Tape
  <2>2. \A t \in 1..made : t \in 1..made'
    BY <1>1
  <2>3. QED
    BY <1>5, <1>6, <2>1, <2>2 DEF ReferencesExist
<1>9. QED
  BY <1>4, <1>7, <1>8 DEF Kept

LEMMA EndMetadataKept ==
  ASSUME TypeOK, ReferencesExist, NEW p \in Port, EndMetadata(p)
  PROVE  Kept
<1>1. session' \in [Port -> {"idle", "starting", "started"}]
  BY DEF TypeOK, EndMetadata
<1>2. UNCHANGED <<made, cap, chunks, notes, stopping, immQueue, immSem, imm, chain>>
  BY DEF EndMetadata, immVars
<1>3. CASE port[p].tape = NoTape
  <2>1. UNCHANGED <<tape, port>>
    BY <1>3 DEF EndMetadata
  <2>2. AllQuiet
    BY <2>1, UnchangedQuiet DEF TypeOK
  <2>3. QED
    BY <1>1, <1>2, <2>1, <2>2 DEF Kept, TypeOK, ReferencesExist
<1>4. CASE port[p].tape # NoTape
  <2> DEFINE x == port[p].tape
  <2>1. x \in 1..made /\ tape[x] \in TapeRecord
    BY <1>4, CaptureAssumption DEF TypeOK, ReferencesExist, NoTape, Tape
  <2>2. tape' = [tape EXCEPT ![x] = Reported(tape[x])] /\ port' = [port EXCEPT ![p] = StartReported(port[p])]
    BY <1>4 DEF EndMetadata
  <2>3. AllQuiet /\ \A t \in Tape : t > made => tape'[t] = tape[t]
    BY <2>1, <2>2, ReportedQuiet, OneTape
  <2>4. port' \in [Port -> PortRecord] /\ \A q \in Port : port'[q].tape = port[q].tape
    <3>1. port[p] \in PortRecord
      BY DEF TypeOK
    <3>2. StartReported(port[p]) \in PortRecord /\ StartReported(port[p]).tape = port[p].tape
      BY <3>1 DEF PortRecord, StartReported
    <3>3. QED
      BY <2>2, <3>2 DEF TypeOK
  <2>5. QED
    BY <1>1, <1>2, <2>3, <2>4 DEF Kept, TypeOK, ReferencesExist, AllQuiet
<1>5. QED
  BY <1>3, <1>4

\* Hold, resume, update and "Keep" events send a message or set a flag.
LEMMA NoteKept ==
  ASSUME TypeOK, ReferencesExist, NEW p \in Port,
         \/ Hold(p) \/ Resume(p) \/ Update(p) \/ \E w \in BOOLEAN : Keep(p, w)
  PROVE  Kept
<1> DEFINE x == port[p].tape
<1>1. Note(p)
  BY DEF Hold, Resume, Update, Keep
<1>2. /\ x \in 1..made /\ x \in Tape /\ tape[x] \in TapeRecord
      /\ notes' \in Nat
      /\ UNCHANGED <<port, made, session, cap, chunks, stopping, immQueue, immSem, imm, chain>>
  BY <1>1, CaptureAssumption DEF TypeOK, ReferencesExist, NoTape, Tape, Note, immVars
<1>3. \A tp \in TapeRecord : \A h \in BOOLEAN :
        /\ [tp EXCEPT !.held = h] \in TapeRecord /\ Quiet(tp, [tp EXCEPT !.held = h])
        /\ [tp EXCEPT !.keep = h] \in TapeRecord /\ Quiet(tp, [tp EXCEPT !.keep = h])
  BY TapeEdits
<1>4. \E r \in TapeRecord : Quiet(tape[x], r) /\ tape' = [tape EXCEPT ![x] = r]
  <2>1. CASE Hold(p)
    <3> DEFINE s == IF HoldResumeReportEvents THEN Sent(tape[x], "hold") ELSE tape[x]
    <3>1. s \in TapeRecord /\ Quiet(tape[x], s)
      BY <1>2, SentQuiet DEF Event, Quiet
    <3> HIDE DEF s
    <3>2. [s EXCEPT !.held = TRUE] \in TapeRecord /\ Quiet(tape[x], [s EXCEPT !.held = TRUE])
      BY <1>3, <3>1 DEF Quiet
    <3>3. tape' = [tape EXCEPT ![x] = [s EXCEPT !.held = TRUE]]
      BY <2>1 DEF s, Hold
    <3>4. QED
      BY <3>2, <3>3
  <2>2. CASE Resume(p)
    <3> DEFINE s == IF HoldResumeReportEvents /\ tape[x].held THEN Sent(tape[x], "resume") ELSE tape[x]
    <3>1. s \in TapeRecord /\ Quiet(tape[x], s)
      BY <1>2, SentQuiet DEF Event, Quiet
    <3> HIDE DEF s
    <3>2. [s EXCEPT !.held = FALSE] \in TapeRecord /\ Quiet(tape[x], [s EXCEPT !.held = FALSE])
      BY <1>3, <3>1 DEF Quiet
    <3>3. tape' = [tape EXCEPT ![x] = [s EXCEPT !.held = FALSE]]
      BY <2>2 DEF s, Resume
    <3>4. QED
      BY <3>2, <3>3
  <2>3. CASE Update(p)
    BY <1>2, <2>3, SentQuiet DEF Update, Event
  <2>4. CASE \E w \in BOOLEAN : Keep(p, w)
    BY <1>2, <1>3, <2>4 DEF Keep
  <2>5. QED
    BY <2>1, <2>2, <2>3, <2>4
<1>5. AllQuiet /\ \A t \in Tape : t > made => tape'[t] = tape[t]
  BY <1>2, <1>4, OneTape
<1>6. QED
  BY <1>2, <1>5 DEF Kept, TypeOK, ReferencesExist, AllQuiet
LEMMA ChunkInKept ==
  ASSUME TypeOK, ReferencesExist, NEW p \in Port, ChunkIn(p)
  PROVE  Kept
<1>1. UNCHANGED <<port, tape, made, session, notes, stopping, immQueue, immSem, imm, chain>>
  BY DEF ChunkIn, immVars
<1>2. port[p].tape \in 1..made /\ port[p].tape \in Tape \cup {NoTape}
  BY DEF ChunkIn, TypeOK, ReferencesExist, NoTape, PortRecord
<1>3. /\ cap' \in CapRecord
      /\ cap'.tape = port[p].tape
      /\ chunks' \in Nat
  <2>1. cap \in CapRecord /\ chunks \in Nat
    BY DEF TypeOK
  <2>2. PICK pc \in {"chunk", "schedule"} :
          cap' = [cap EXCEPT !.pc = pc, !.port = p, !.tape = port[p].tape]
    BY DEF ChunkIn
  <2>3. cap' \in CapRecord /\ cap'.tape = port[p].tape
    BY <1>2, <2>1, <2>2 DEF CapRecord
  <2>4. chunks' \in Nat
    BY <2>1 DEF ChunkIn
  <2>5. QED
    BY <2>3, <2>4
<1>4. AllQuiet
  BY <1>1, UnchangedQuiet DEF TypeOK
<1>5. QED
  BY <1>1, <1>2, <1>3, <1>4 DEF Kept, TypeOK, ReferencesExist

\* The steps of a callback that change one field of its tape.
LEMMA ChunkQueueKept ==
  ASSUME TypeOK, ReferencesExist, ChunkQueue
  PROVE  Kept
<1>1. UNCHANGED <<port, made, session, chunks, notes, stopping, immQueue, immSem, imm, chain>>
  BY DEF ChunkQueue, immVars
<1>2. cap.tape \in 1..made /\ tape[cap.tape] \in TapeRecord
  BY CaptureAssumption DEF ChunkQueue, TypeOK, ReferencesExist, Tape
<1>3. /\ cap' \in CapRecord
      /\ cap'.tape = cap.tape
  BY DEF ChunkQueue, TypeOK, CapRecord
<1>4. AllQuiet /\ \A t \in Tape : t > made => tape'[t] = tape[t]
  <2>1. CASE ~Full(tape[cap.tape]) /\ tape' = [tape EXCEPT ![cap.tape].queued = @ + 1]
    <3> DEFINE r == [tape[cap.tape] EXCEPT !.queued = @ + 1]
    <3>1. tape[cap.tape].queued + 1 \in 0..QueueLimit
      <4>1. tape[cap.tape].queued \in 0..QueueLimit
        BY <1>2 DEF TapeRecord
      <4> QED
        BY <2>1, <4>1, CaptureAssumption DEF Full
    <3>2. r \in TapeRecord /\ Quiet(tape[cap.tape], r)
      BY <1>2, <3>1, TapeEdits
    <3>3. tape' = [tape EXCEPT ![cap.tape] = r]
      BY <2>1
    <3>4. QED
      BY <1>2, <3>2, <3>3, OneTape
  <2>2. CASE UNCHANGED tape
    BY <2>2, UnchangedQuiet DEF TypeOK
  <2>3. QED
    BY <2>1, <2>2 DEF ChunkQueue
<1>5. QED
  BY <1>1, <1>2, <1>3, <1>4 DEF Kept, TypeOK, ReferencesExist, AllQuiet

LEMMA StopFlagKept ==
  ASSUME TypeOK, ReferencesExist, NEW p \in Port, NEW f \in BOOLEAN,
         port[p].tape # NoTape, StopFlag(p, f), session' \in [Port -> {"idle", "starting", "started"}]
  PROVE  Kept
<1> DEFINE x == port[p].tape
<1>1. UNCHANGED <<made, chunks, notes, stopping, immQueue, immSem, imm, chain>>
  BY DEF StopFlag, immVars
<1>2. x \in 1..made /\ x \in Tape /\ tape[x] \in TapeRecord
  <2>1. made \in 0..MaxTapes /\ x \in 0..made /\ x # 0
    BY DEF TypeOK, ReferencesExist, NoTape
  <2>2. x \in 1..made /\ x \in Tape
    BY <2>1, CaptureAssumption DEF Tape
  <2>3. QED
    BY <2>2 DEF TypeOK
<1>3. AllQuiet /\ \A t \in Tape : t > made => tape'[t] = tape[t]
  <2> DEFINE r == [tape[x] EXCEPT !.shouldStop = TRUE]
  <2>1. r \in TapeRecord /\ Quiet(tape[x], r)
    BY <1>2, TapeEdits
  <2>2. tape' = [tape EXCEPT ![x] = r]
    BY DEF StopFlag
  <2>3. QED
    BY <1>2, <2>1, <2>2, OneTape
<1>4. port' \in [Port -> PortRecord] /\ \A q \in Port : port'[q].tape = port[q].tape
  BY DEF StopFlag, TypeOK, PortRecord, PortStopped
<1>5. /\ cap' \in CapRecord
      /\ cap'.tape = x
  BY <1>2 DEF StopFlag, CapRecord
<1>6. QED
  BY <1>1, <1>2, <1>3, <1>4, <1>5 DEF Kept, TypeOK, ReferencesExist, AllQuiet

LEMMA StopKept ==
  ASSUME TypeOK, ReferencesExist, NEW p \in Port, Stop(p)
  PROVE  Kept
<1>1. session' \in [Port -> {"idle", "starting", "started"}]
  BY DEF Stop, TypeOK
<1>2. CASE port[p].tape # NoTape
  BY <1>1, <1>2, StopFlagKept DEF Stop
<1>3. CASE port[p].tape = NoTape
  <2>1. UNCHANGED <<port, tape, made, cap, chunks, notes, stopping, immQueue, immSem, imm, chain>>
    BY <1>3 DEF Stop, immVars
  <2>2. AllQuiet
    BY <2>1, UnchangedQuiet DEF TypeOK
  <2>3. QED
    BY <1>1, <2>1, <2>2 DEF Kept, TypeOK, ReferencesExist
<1>4. QED
  BY <1>2, <1>3

\* The later steps of the stop event, and the message Finalize adds.
LEMMA StopRestKept ==
  ASSUME TypeOK, ReferencesExist, StopDuration \/ StopEvent \/ StopMessage \/ Finalize
  PROVE  Kept
<1>1. /\ cap.pc # "idle" /\ cap.tape \in 1..made /\ tape[cap.tape] \in TapeRecord
      /\ UNCHANGED <<made, session, chunks, notes, stopping, immQueue, immSem, imm, chain>>
  BY CaptureAssumption
     DEF StopDuration, StopEvent, StopMessage, Finalize, TypeOK, ReferencesExist, Tape, immVars
<1>2. \E r \in TapeRecord : Quiet(tape[cap.tape], r) /\ tape' = [tape EXCEPT ![cap.tape] = r]
  <2>1. CASE StopDuration
    <3>1. PICK s \in BOOLEAN : tape' = [tape EXCEPT ![cap.tape].short = s]
      BY <2>1 DEF StopDuration
    <3> DEFINE r == [tape[cap.tape] EXCEPT !.short = s]
    <3>2. r \in TapeRecord /\ Quiet(tape[cap.tape], r)
      BY <1>1, TapeEdits
    <3>3. QED
      BY <3>1, <3>2
  <2>2. CASE StopEvent
    BY <1>1, <2>2, PushedQuiet DEF StopEvent, Event
  <2>3. CASE StopMessage
    BY <1>1, <2>3, ReportedQuiet DEF StopMessage
  <2>4. CASE Finalize
    BY <1>1, <2>4, ReportedQuiet DEF Finalize
  <2>5. QED
    BY <2>1, <2>2, <2>3, <2>4
<1>3. AllQuiet /\ \A t \in Tape : t > made => tape'[t] = tape[t]
  BY <1>1, <1>2, OneTape
<1>4. port' \in [Port -> PortRecord] /\ \A q \in Port : port'[q].tape \in 0..made
  <2>1. /\ port \in [Port -> PortRecord] /\ made \in Nat
        /\ \A q \in Port : port[q].tape \in 0..made
    BY DEF TypeOK, ReferencesExist
  <2>2. CASE StopDuration \/ StopEvent
    BY <2>1, <2>2 DEF StopDuration, StopEvent
  <2>3. CASE StopMessage
    BY <2>1, <2>3 DEF StopMessage, PortRecord
  <2>4. CASE Finalize
    <3>1. NewPort \in PortRecord /\ NewPort.tape \in 0..made
      BY <2>1 DEF NewPort, NoTape, PortRecord
    <3>2. QED
      BY <2>1, <2>4, <3>1 DEF Finalize
  <2>5. QED
    BY <2>2, <2>3, <2>4
<1>5. /\ cap' \in CapRecord
      /\ cap'.pc # "idle" => cap'.tape = cap.tape
  <2>1. CASE StopDuration \/ StopEvent \/ StopMessage
    BY <2>1 DEF StopDuration, StopEvent, StopMessage, TypeOK, CapRecord
  <2>2. CASE Finalize
    BY <2>2, AnyPortType DEF Finalize, IdleCap, NoTape, CapRecord
  <2>3. QED
    BY <2>1, <2>2
<1>6. QED
  BY <1>1, <1>3, <1>4, <1>5 DEF Kept, TypeOK, ReferencesExist, AllQuiet

LEMMA CapScheduleKept ==
  ASSUME TypeOK, ReferencesExist, CapSchedule
  PROVE  Kept
<1>1. /\ cap.tape \in 1..made /\ Schedule(cap.tape)
      /\ UNCHANGED <<port, made, session, imm, chain, chunks, notes, stopping>>
  BY DEF CapSchedule, ReferencesExist
<1>2. /\ AllQuiet /\ immQueue' \in Seq(Tape) /\ immSem' \in Nat
      /\ \A i \in DOMAIN immQueue' : immQueue'[i] \in 1..made
      /\ \A t \in Tape : t > made => tape'[t] = tape[t]
  BY <1>1, ScheduleQuiet DEF ReferencesExist
<1>3. /\ cap' \in CapRecord
      /\ cap'.pc # "idle" => cap'.tape = cap.tape
  BY AnyPortType DEF CapSchedule, IdleCap, NoTape, TypeOK, CapRecord
<1>4. QED
  BY <1>1, <1>2, <1>3 DEF Kept, TypeOK, ReferencesExist, AllQuiet
LEMMA ExpireKept ==
  ASSUME TypeOK, ReferencesExist, PortDue, NEW p \in Port, Expire(p)
  PROVE  Kept
<1>1. CASE port[p].needSendStop
  <2>1. port[p].tape # NoTape /\ session' \in [Port -> {"idle", "starting", "started"}]
    BY <1>1 DEF Expire, PortDue, TypeOK
  <2>2. StopFlag(p, TRUE)
    BY <1>1 DEF Expire
  <2>3. QED
    BY <2>1, <2>2, StopFlagKept
<1>2. CASE ~port[p].needSendStop
  <2>1. /\ port' = [port EXCEPT ![p] = NewPort]
        /\ UNCHANGED <<tape, made, session, cap, chunks, notes, stopping, immQueue, immSem, imm, chain>>
    BY <1>2 DEF Expire, immVars
  <2>2. port' \in [Port -> PortRecord] /\ \A q \in Port : port'[q].tape \in 0..made
    <3>1. made \in Nat /\ NewPort \in PortRecord /\ NewPort.tape \in 0..made
      BY DEF TypeOK, NewPort, NoTape, PortRecord
    <3>2. QED
      BY <2>1, <3>1 DEF TypeOK, ReferencesExist
  <2>3. AllQuiet
    BY <2>1, UnchangedQuiet DEF TypeOK
  <2>4. QED
    BY <2>1, <2>2, <2>3 DEF Kept, TypeOK, ReferencesExist
<1>3. QED
  BY <1>1, <1>2

\* The end of the processing chain sends a message or loses the tape.
LEMMA ChainKept ==
  ASSUME TypeOK, ReferencesExist, NEW t \in Tape, ChainReport(t) \/ ChainDrop(t)
  PROVE  Kept
<1>1. /\ t \in 1..made /\ tape[t] \in TapeRecord /\ chain' = chain \ {t}
      /\ UNCHANGED <<port, made, session, cap, chunks, notes, stopping, immQueue, immSem, imm>>
  BY DEF ChainReport, ChainDrop, ReferencesExist, TypeOK, captureVars
<1>2. CASE ChainReport(t)
  <2>1. AllQuiet /\ \A u \in Tape : u > made => tape'[u] = tape[u]
    BY <1>1, <1>2, ReportedQuiet, OneTape DEF ChainReport
  <2>2. QED
    BY <1>1, <2>1 DEF Kept, TypeOK, ReferencesExist, AllQuiet
<1>3. CASE ChainDrop(t)
  <2>1. UNCHANGED tape /\ AllQuiet
    BY <1>3, UnchangedQuiet DEF ChainDrop, TypeOK
  <2>2. QED
    BY <1>1, <2>1 DEF Kept, TypeOK, ReferencesExist
<1>4. QED
  BY <1>2, <1>3

LEMMA DaemonStopKept ==
  ASSUME TypeOK, ReferencesExist, DaemonStop \/ UNCHANGED vars
  PROVE  Kept
<1>1. UNCHANGED <<port, tape, made, session, cap, chunks, notes, immQueue, immSem, imm, chain>>
      /\ stopping' \in BOOLEAN
  BY DEF DaemonStop, immVars, vars, TypeOK
<1>2. AllQuiet
  BY <1>1, UnchangedQuiet DEF TypeOK
<1>3. QED
  BY <1>1, <1>2 DEF Kept, TypeOK, ReferencesExist

LEMMA CaptureSideKept ==
  ASSUME TypeOK, ReferencesExist, PortDue,
         PluginStep \/ CapStep \/ ChainStep \/ DaemonStop \/ UNCHANGED vars
  PROVE  Kept /\ imm' = imm
<1>1. Kept
  BY StartKept, EndMetadataKept, NoteKept, ChunkInKept, ChunkQueueKept, StopKept, StopRestKept,
     CapScheduleKept, ExpireKept, ChainKept, DaemonStopKept
     DEF PluginStep, CapStep, ChainStep
<1>2. imm' = imm
  BY DEF PluginStep, CapStep, ChainStep, Start, Stop, StopFlag, ChunkIn, Expire, Hold, Resume, Update, Keep,
         Note, ChunkQueue, StopDuration, StopEvent, StopMessage, CapSchedule, Finalize, EndMetadata,
         ChainReport, ChainDrop, DaemonStop, immVars, vars
<1>3. QED
  BY <1>1, <1>2

-----------------------------------------------------------------------------
(* The immediate thread.                                                    *)

LEMMA ImmAcquireKept ==
  ASSUME TypeOK, ReferencesExist, ImmAcquire
  PROVE  Kept
<1>1. UNCHANGED <<port, tape, made, session, cap, chunks, notes, stopping, immQueue, chain>>
  BY DEF ImmAcquire, captureVars
<1>2. immSem' \in Nat
  BY DEF ImmAcquire, TypeOK
<1>3. imm' = [imm EXCEPT !.pc = "pop"] /\ imm' \in ImmRecord /\ imm'.pc = "pop"
  BY DEF ImmAcquire, TypeOK, ImmRecord
<1>4. AllQuiet
  BY <1>1, UnchangedQuiet DEF TypeOK
<1>5. QED
  BY <1>1, <1>2, <1>3, <1>4 DEF Kept, TypeOK, ReferencesExist

LEMMA ImmPopKept ==
  ASSUME TypeOK, ReferencesExist, ImmPop
  PROVE  Kept /\ imm'.pc # "disk"
<1>1. UNCHANGED <<port, made, session, cap, chunks, notes, stopping, immSem, chain>>
  BY DEF ImmPop, captureVars
<1>2. CASE /\ immQueue # <<>>
           /\ immQueue' = Tail(immQueue)
           /\ tape' = [tape EXCEPT ![Head(immQueue)].isQueued = FALSE]
           /\ imm' = [pc |-> "write", tape |-> Head(immQueue)]
  <2> DEFINE x == Head(immQueue)
             r == [tape[x] EXCEPT !.isQueued = FALSE]
  <2>1. /\ x \in 1..made /\ x \in Tape
        /\ immQueue' \in Seq(Tape)
        /\ \A i \in DOMAIN immQueue' : immQueue'[i] \in 1..made
    BY <1>2 DEF TypeOK, ReferencesExist
  <2>2. r \in TapeRecord /\ Quiet(tape[x], r)
    BY <2>1, TapeEdits DEF TypeOK
  <2>3. tape' = [tape EXCEPT ![x] = r]
    BY <1>2
  <2>4. AllQuiet /\ \A t \in Tape : t > made => tape'[t] = tape[t]
    BY <2>1, <2>2, <2>3, OneTape
  <2>5. imm' \in ImmRecord /\ imm'.tape = x /\ imm'.pc = "write"
    BY <1>2, <2>1 DEF ImmRecord
  <2>6. QED
    BY <1>1, <2>1, <2>4, <2>5 DEF Kept, TypeOK, ReferencesExist, AllQuiet
<1>3. CASE /\ immQueue = <<>>
           /\ imm' = [imm EXCEPT !.pc = IF stopping THEN "exited" ELSE "acquire"]
           /\ UNCHANGED <<tape, immQueue>>
  <2>1. AllQuiet
    BY <1>3, UnchangedQuiet DEF TypeOK
  <2>2. imm' \in ImmRecord /\ imm'.pc \in {"exited", "acquire"}
    <3>1. imm \in ImmRecord
      BY DEF TypeOK
    <3>2. \E pc \in {"exited", "acquire"} : imm' = [imm EXCEPT !.pc = pc]
      BY <1>3
    <3>3. QED
      BY <3>1, <3>2 DEF ImmRecord
  <2>3. QED
    BY <1>1, <1>3, <2>1, <2>2 DEF Kept, TypeOK, ReferencesExist
<1>4. QED
  BY <1>2, <1>3 DEF ImmPop

\* The chunk the immediate thread takes leaves the queue of a tape that is
\* not closed.
LEMMA WritePopKept ==
  ASSUME TypeOK, ReferencesExist, WritePop
  PROVE  Kept /\ (imm'.pc = "disk" => tape'[imm'.tape].state # "Stopped")
<1> DEFINE x == imm.tape
           r == [tape[x] EXCEPT !.queued = @ - 1]
<1>1. UNCHANGED <<port, made, session, cap, chunks, notes, stopping, immQueue, immSem, chain>>
  BY DEF WritePop, captureVars
<1>2. x \in 1..made /\ x \in Tape /\ tape[x] \in TapeRecord
  BY CaptureAssumption DEF WritePop, TypeOK, ReferencesExist, Tape
<1>3. imm' \in ImmRecord /\ imm'.tape = x /\ imm'.pc \in {"disk", "close"}
  BY DEF WritePop, TypeOK, ImmRecord
<1>4. CASE Writable(tape[x]) /\ tape' = [tape EXCEPT ![x].queued = @ - 1] /\ imm' = [imm EXCEPT !.pc = "disk"]
  <2>1. tape[x].queued - 1 \in 0..QueueLimit
    <3>1. tape[x].queued \in 0..QueueLimit
      BY <1>2 DEF TapeRecord
    <3> QED
      BY <1>4, <3>1, CaptureAssumption DEF Writable
  <2>2. r \in TapeRecord /\ Quiet(tape[x], r)
    BY <1>2, <2>1, TapeEdits
  <2>3. tape' = [tape EXCEPT ![x] = r]
    BY <1>4
  <2>4. AllQuiet /\ \A t \in Tape : t > made => tape'[t] = tape[t]
    BY <1>2, <2>2, <2>3, OneTape
  <2>5. tape'[x].state # "Stopped"
    BY <1>2, <1>4, <2>4 DEF AllQuiet, Quiet, Writable
  <2>6. QED
    BY <1>1, <1>2, <1>3, <2>4, <2>5 DEF Kept, TypeOK, ReferencesExist, AllQuiet
<1>5. CASE imm' = [imm EXCEPT !.pc = "close"] /\ UNCHANGED tape
  <2>1. AllQuiet /\ imm'.pc = "close"
    BY <1>5, UnchangedQuiet DEF TypeOK, ImmRecord
  <2>2. QED
    BY <1>1, <1>2, <1>3, <1>5, <2>1 DEF Kept, TypeOK, ReferencesExist
<1>6. QED
  BY <1>4, <1>5 DEF WritePop
\* A write to disk touches the one tape the immediate thread has in hand,
\* which is not closed.
LEMMA WriteDiskStep ==
  ASSUME IInv, WriteDisk
  PROVE  /\ TypeOK' /\ ReferencesExist' /\ HandledAfterClose' /\ HandledOnce'
         /\ \A t \in Tape : tape[t].state = "Stopped" => tape'[t] = tape[t]
<1> DEFINE x == imm.tape
<1> USE DEF IInv
<1>1. UNCHANGED <<port, made, session, cap, chunks, notes, stopping, immQueue, immSem, chain>>
  BY DEF WriteDisk, captureVars
<1>2. x \in 1..made /\ x \in Tape /\ tape[x] \in TapeRecord /\ tape[x].state # "Stopped"
  BY CaptureAssumption DEF WriteDisk, TypeOK, ReferencesExist, HandledAfterClose, Tape
<1>3. imm' \in ImmRecord /\ imm'.tape = x /\ imm'.pc = "write"
  BY DEF WriteDisk, TypeOK, ImmRecord
<1>4. PICK r \in TapeRecord :
        /\ tape' = [tape EXCEPT ![x] = r] /\ r.state = "Active"
        /\ r.ready = tape[x].ready /\ r.handed = tape[x].handed /\ r.deleted = tape[x].deleted
  <2> DEFINE tp == [tape[x] EXCEPT !.state = "Active", !.file = TRUE]
             wr == [tp EXCEPT !.written = @ + 1]
  <2>1. /\ tp \in TapeRecord /\ tp.state = "Active"
        /\ tp.ready = tape[x].ready /\ tp.handed = tape[x].handed /\ tp.deleted = tape[x].deleted
    BY <1>2 DEF TapeRecord
  <2> HIDE DEF tp
  <2>2. /\ wr \in TapeRecord /\ wr.state = "Active"
        /\ wr.ready = tape[x].ready /\ wr.handed = tape[x].handed /\ wr.deleted = tape[x].deleted
    BY <2>1, SMTT(30) DEF TapeRecord
  <2>3. tape' = [tape EXCEPT ![x] = wr] \/ tape' = [tape EXCEPT ![x] = tp]
    BY DEF WriteDisk, tp
  <2> HIDE DEF wr
  <2>4. QED
    BY <2>1, <2>2, <2>3
<1>5. tape' \in [Tape -> TapeRecord] /\ tape'[x] = r /\ \A t \in Tape : t # x => tape'[t] = tape[t]
  BY <1>2, <1>4 DEF TypeOK
<1>6. TypeOK'
  BY <1>1, <1>3, <1>5 DEF TypeOK
<1>7. ReferencesExist'
  BY <1>1, <1>2, <1>3, <1>5 DEF TypeOK, ReferencesExist, Tape
<1>8. HandledAfterClose' /\ HandledOnce'
  BY <1>2, <1>3, <1>4, <1>5 DEF HandledAfterClose, HandledOnce
<1>9. QED
  BY <1>2, <1>5, <1>6, <1>7, <1>8

LEMMA WriteCloseStep ==
  ASSUME IInv, WriteClose
  PROVE  /\ TypeOK' /\ ReferencesExist' /\ HandledAfterClose' /\ HandledOnce'
         /\ \A t \in Tape : tape[t].state = "Stopped" => tape'[t] = tape[t]
<1> DEFINE x == imm.tape
<1> USE DEF IInv
<1>1. UNCHANGED <<port, made, session, cap, chunks, notes, stopping, immQueue, immSem, chain>>
  BY DEF WriteClose, captureVars
<1>2. x \in 1..made /\ x \in Tape /\ tape[x] \in TapeRecord
  BY CaptureAssumption DEF WriteClose, TypeOK, ReferencesExist, Tape
<1>3. imm' \in ImmRecord /\ imm'.tape = x /\ imm'.pc = "dispatch"
  BY DEF WriteClose, TypeOK, ImmRecord
<1>4. CASE tape[x].shouldStop /\ tape[x].state # "Stopped"
  <2> DEFINE r == [tape[x] EXCEPT !.state = "Stopped",
                                  !.ready = @ \/ (tape[x].file /\ tape[x].written > 0)]
  <2>1. /\ r \in TapeRecord /\ r.state = "Stopped"
        /\ r.handed = tape[x].handed /\ r.deleted = tape[x].deleted
    BY <1>2 DEF TapeRecord
  <2>2. tape' = [tape EXCEPT ![x] = r]
    BY <1>4 DEF WriteClose
  <2> HIDE DEF r
  <2>3. tape' \in [Tape -> TapeRecord] /\ tape'[x] = r /\ \A t \in Tape : t # x => tape'[t] = tape[t]
    BY <1>2, <2>1, <2>2 DEF TypeOK
  <2>4. TypeOK'
    BY <1>1, <1>3, <2>3 DEF TypeOK
  <2>5. ReferencesExist'
    BY <1>1, <1>2, <1>3, <2>3 DEF TypeOK, ReferencesExist, Tape
  <2>6. HandledAfterClose' /\ HandledOnce'
    BY <1>2, <1>3, <1>4, <2>1, <2>3 DEF HandledAfterClose, HandledOnce
  <2>7. QED
    BY <1>4, <2>3, <2>4, <2>5, <2>6
<1>5. CASE ~(tape[x].shouldStop /\ tape[x].state # "Stopped")
  <2>1. tape' = tape
    BY <1>2, <1>5 DEF WriteClose, TypeOK
  <2>2. QED
    BY <1>1, <1>2, <1>3, <2>1 DEF TypeOK, ReferencesExist, HandledAfterClose, HandledOnce
<1>6. QED
  BY <1>4, <1>5

\* A tape not handled before is handled once, whichever way.
LEMMA HandledOnceMore ==
  ASSUME NEW tp \in TapeRecord, tp.handed = 0, tp.deleted = 0
  PROVE  /\ Handled(tp) \in TapeRecord /\ Handled(tp).state = tp.state
         /\ Handled(tp).written = tp.written /\ Handled(tp).ready = FALSE
         /\ Handled(tp).handed + Handled(tp).deleted <= 1
<1> DEFINE del == [tp EXCEPT !.ready = FALSE, !.deleted = 1]
           giv == [tp EXCEPT !.ready = FALSE, !.handed = 1]
<1>1. /\ del \in TapeRecord /\ del.state = tp.state /\ del.written = tp.written /\ del.ready = FALSE
      /\ del.handed = 0 /\ del.deleted = 1
  BY DEF TapeRecord
<1>2. /\ giv \in TapeRecord /\ giv.state = tp.state /\ giv.written = tp.written /\ giv.ready = FALSE
      /\ giv.handed = 1 /\ giv.deleted = 0
  BY DEF TapeRecord
<1>3. Handled(tp) = del \/ Handled(tp) = giv
  <2>1. tp.deleted + 1 = 1 /\ tp.handed + 1 = 1
    OBVIOUS
  <2>2. QED
    BY <2>1 DEF Handled
<1> HIDE DEF del, giv
<1>4. QED
  BY <1>1, <1>2, <1>3

\* Only a ready tape is handled, it is not ready any more afterwards, and it
\* was not handled before.
LEMMA DispatchStep ==
  ASSUME IInv, Dispatch
  PROVE  /\ TypeOK' /\ ReferencesExist' /\ HandledAfterClose' /\ HandledOnce'
         /\ \A t \in Tape : tape'[t].state = tape[t].state /\ tape'[t].written = tape[t].written
<1> DEFINE x == imm.tape
<1> USE DEF IInv
<1>1. UNCHANGED <<port, made, session, cap, chunks, notes, stopping, immQueue, immSem>>
  BY DEF Dispatch, captureVars
<1>2. x \in 1..made /\ x \in Tape /\ tape[x] \in TapeRecord
  BY CaptureAssumption DEF Dispatch, TypeOK, ReferencesExist, Tape
<1>3. imm' \in ImmRecord /\ imm'.pc = "acquire"
  BY DEF Dispatch, ImmRecord
<1>4. chain' \in SUBSET Tape /\ chain' \subseteq 1..made
  BY <1>2 DEF Dispatch, TypeOK, ReferencesExist
<1>5. CASE tape[x].ready
  <2> DEFINE r == Handled(tape[x])
  <2>1. tape[x].handed = 0 /\ tape[x].deleted = 0 /\ tape[x].state = "Stopped"
    BY <1>2, <1>5 DEF HandledAfterClose
  <2>2. /\ r \in TapeRecord /\ r.state = tape[x].state /\ r.written = tape[x].written
        /\ r.ready = FALSE /\ r.handed + r.deleted <= 1
    BY <1>2, <2>1, HandledOnceMore
  <2>3. tape' = [tape EXCEPT ![x] = r]
    BY <1>5 DEF Dispatch
  <2> HIDE DEF r
  <2>4. tape' \in [Tape -> TapeRecord] /\ tape'[x] = r /\ \A t \in Tape : t # x => tape'[t] = tape[t]
    BY <1>2, <2>2, <2>3 DEF TypeOK
  <2>5. TypeOK'
    BY <1>1, <1>3, <1>4, <2>4 DEF TypeOK
  <2>6. ReferencesExist'
    BY <1>1, <1>2, <1>3, <1>4, <2>4 DEF TypeOK, ReferencesExist, Tape
  <2>7. HandledAfterClose' /\ HandledOnce'
    BY <1>3, <2>1, <2>2, <2>4 DEF HandledAfterClose, HandledOnce
  <2>8. QED
    BY <2>2, <2>4, <2>5, <2>6, <2>7
<1>6. CASE ~tape[x].ready
  <2>1. tape' = tape
    BY <1>2, <1>6 DEF Dispatch, TypeOK
  <2>2. QED
    BY <1>1, <1>3, <1>4, <2>1 DEF TypeOK, ReferencesExist, HandledAfterClose, HandledOnce
<1>7. QED
  BY <1>5, <1>6
-----------------------------------------------------------------------------
(* The invariant and the theorems.                                          *)

LEMMA InitIInv == Init => IInv
<1> SUFFICES ASSUME Init PROVE IInv
  OBVIOUS
<1>1. TypeOK
  <2>1. NewPort \in PortRecord /\ IdleCap \in CapRecord /\ [pc |-> "acquire", tape |-> NoTape] \in ImmRecord
    BY AnyPortType DEF NewPort, IdleCap, PortRecord, CapRecord, ImmRecord, NoTape
  <2>2. NewTape(AnyPort) \in TapeRecord /\ 0 \in 0..MaxTapes
    BY AnyPortType, NewTapeType, CaptureAssumption
  <2>3. port \in [Port -> PortRecord] /\ tape \in [Tape -> TapeRecord]
    BY <2>1, <2>2 DEF Init
  <2>4. session \in [Port -> {"idle", "starting", "started"}]
    BY DEF Init
  <2>5. immQueue \in Seq(Tape) /\ immSem \in Nat /\ chunks \in Nat /\ notes \in Nat
    BY DEF Init
  <2> QED
    BY <2>1, <2>2, <2>3, <2>4, <2>5 DEF Init, TypeOK
<1>2. ReferencesExist /\ PortDue /\ HandledAfterClose /\ HandledOnce
  BY DEF Init, NewPort, IdleCap, NoTape, NewTape, ReferencesExist, PortDue, HandledAfterClose, HandledOnce
<1>3. QED
  BY <1>1, <1>2 DEF IInv

\* A step that touches no file keeps the record of what was handled.
LEMMA QuietHandled ==
  ASSUME IInv, Kept, imm'.pc = "disk" => imm' = imm \/ tape'[imm'.tape].state # "Stopped"
  PROVE  HandledAfterClose' /\ HandledOnce'
<1>1. imm'.pc = "disk" => tape'[imm'.tape].state # "Stopped"
  <2>1. CASE imm'.pc = "disk" /\ imm' = imm
    <3>1. imm.tape \in Tape /\ tape[imm.tape].state # "Stopped"
      BY <2>1, CaptureAssumption DEF IInv, TypeOK, ReferencesExist, HandledAfterClose, Tape
    <3>2. QED
      BY <2>1, <3>1 DEF Kept, AllQuiet, Quiet
  <2>2. QED
    BY <2>1
<1>2. QED
  BY <1>1 DEF IInv, Kept, AllQuiet, Quiet, HandledAfterClose, HandledOnce

\* The stop message stays due only for a port that keeps its tape.
LEMMA PortDueKept ==
  ASSUME IInv, [Next]_vars
  PROVE  PortDue'
<1>1. CASE \E p \in Port : Start(p)
  <2>1. PICK p \in Port : Start(p)
    BY <1>1
  <2>2. made + 1 # NoTape
    BY DEF IInv, TypeOK, NoTape
  <2>3. QED
    BY <2>1, <2>2 DEF IInv, TypeOK, PortRecord, PortDue, Start
<1>2. CASE \E p \in Port : EndMetadata(p)
  BY <1>2 DEF IInv, TypeOK, PortRecord, PortDue, EndMetadata, StartReported
<1>3. CASE \E p \in Port : \E f \in BOOLEAN : StopFlag(p, f)
  BY <1>3 DEF IInv, TypeOK, PortRecord, PortDue, StopFlag, PortStopped
<1>4. CASE StopMessage
  BY <1>4 DEF IInv, TypeOK, PortRecord, PortDue, StopMessage
<1>5. CASE \E p \in Port : port' = [port EXCEPT ![p] = NewPort]
  BY <1>5 DEF IInv, TypeOK, PortRecord, PortDue, NewPort
<1>6. CASE port' = port
  BY <1>6 DEF IInv, PortDue
<1>7. \/ \E p \in Port : Start(p) \/ EndMetadata(p) \/ \E f \in BOOLEAN : StopFlag(p, f)
      \/ StopMessage
      \/ \E p \in Port : port' = [port EXCEPT ![p] = NewPort]
      \/ port' = port
  <2>1. CASE PluginStep
    BY <2>1 DEF PluginStep, Stop, ChunkIn, Expire, Hold, Resume, Update, Keep, Note
  <2>2. CASE CapStep
    <3>1. Finalize => \E p \in Port : port' = [port EXCEPT ![p] = NewPort]
      BY DEF Finalize, IInv, TypeOK, CapRecord
    <3>2. QED
      BY <2>2, <3>1 DEF CapStep, ChunkQueue, StopDuration, StopEvent, CapSchedule
  <2>3. CASE ImmStep \/ ChainStep \/ DaemonStop \/ UNCHANGED vars
    BY <2>3 DEF ImmStep, ImmAcquire, ImmPop, WritePop, WriteDisk, WriteClose, Dispatch, captureVars,
                ChainStep, ChainReport, ChainDrop, DaemonStop, vars
  <2>4. QED
    BY <2>1, <2>2, <2>3 DEF Next
<1>8. QED
  BY <1>1, <1>2, <1>3, <1>4, <1>5, <1>6, <1>7

LEMMA NextIInv ==
  ASSUME IInv, [Next]_vars
  PROVE  /\ IInv'
         /\ \A t \in Tape : tape[t].state = "Stopped" =>
              tape'[t].state = "Stopped" /\ tape'[t].written = tape[t].written
<1>1. PortDue'
  BY PortDueKept
<1>2. CASE PluginStep \/ CapStep \/ ChainStep \/ DaemonStop \/ UNCHANGED vars
  <2>1. Kept /\ imm' = imm
    BY <1>2, CaptureSideKept DEF IInv
  <2>2. QED
    BY <1>1, <2>1, QuietHandled DEF IInv, Kept, AllQuiet, Quiet
<1>3. CASE ImmAcquire \/ ImmPop \/ WritePop
  <2>1. Kept /\ (imm'.pc = "disk" => tape'[imm'.tape].state # "Stopped")
    <3>1. ImmAcquire => imm'.pc = "pop"
      BY DEF ImmAcquire, IInv, TypeOK, ImmRecord
    <3>2. QED
      BY <1>3, <3>1, ImmAcquireKept, ImmPopKept, WritePopKept DEF IInv
  <2>2. QED
    BY <1>1, <2>1, QuietHandled DEF IInv, Kept, AllQuiet, Quiet
<1>4. CASE WriteDisk
  BY <1>1, <1>4, WriteDiskStep DEF IInv
<1>5. CASE WriteClose
  BY <1>1, <1>5, WriteCloseStep DEF IInv
<1>6. CASE Dispatch
  BY <1>1, <1>6, DispatchStep DEF IInv
<1>7. QED
  BY <1>2, <1>3, <1>4, <1>5, <1>6 DEF Next, ImmStep

\* Types, references and the record of what was handled are right in every
\* state the capture, the immediate thread and the chain can reach.
THEOREM CaptureInvariant == Spec => []IInv
<1>1. IInv /\ [Next]_vars => IInv'
  BY NextIInv
<1>2. QED
  BY <1>1, InitIInv, PTL DEF Spec

\* Every variable keeps its type: in particular no tape ever queues more
\* chunks than AddAudioChunk's limit, and none is dequeued that is not there.
THEOREM TypeCorrect == Spec => []TypeOK
<1>1. IInv => TypeOK
  BY DEF IInv
<1>2. QED
  BY <1>1, CaptureInvariant, PTL

\* A recording goes to the processing chain or is deleted at most once,
\* however often its tape is scheduled, stopped and written.
THEOREM AtMostOnce == Spec => []HandledOnce
<1>1. IInv => HandledOnce
  BY DEF IInv
<1>2. QED
  BY <1>1, CaptureInvariant, PTL

\* AudioTape::Write never writes to, or reopens, a recording it has closed.
THEOREM NeverReopened == Spec => ClosedStaysClosed
<1>1. IInv /\ [Next]_vars =>
        [\A t \in Tape : tape[t].state = "Stopped" =>
           tape'[t].state = "Stopped" /\ tape'[t].written = tape[t].written]_vars
  BY NextIInv
<1>2. QED
  BY <1>1, CaptureInvariant, PTL DEF Spec, ClosedStaysClosed

-----------------------------------------------------------------------------
(* The callbacks of the capture plugin and the immediate thread together:   *)
(* ports, their sessions and the stop requests on their tapes agree, work   *)
(* on a tape is never lost, and what is told about a tape is told in order. *)

\* Somebody is in the middle of the stop event of port p.
Stopping(p) == cap.port = p /\ (cap.pc \in {"duration", "event", "message"} \/ cap.final)

\* Where a callback is: StopTape's caller holds the port's tape until it has sent the
\* stop message, and Finalize comes last.
CallbackShape ==
  /\ cap.pc \in {"idle", "chunk"} => ~cap.final
  /\ cap.pc = "final" => cap.final
  /\ \A p \in Port : Stopping(p) => cap.tape = port[p].tape /\ cap.tape # NoTape
  /\ cap.pc \in {"duration", "event", "message"} /\ ~cap.final => session[cap.port] = "idle"
  /\ idle => cap.tape = NoTape

\* m_audioTapeRef of a port is a tape that StartCapture made for that port.
PortOwns == \A p \in Port : port[p].tape # NoTape => tape[port[p].tape].port = p

\* The tape of a port is asked to stop exactly from the moment its session stops.
SessionAgrees ==
  \A p \in Port : port[p].tape # NoTape =>
    (tape[port[p].tape].shouldStop <=> session[p] = "idle" \/ Stopping(p))

\* m_needSendStop is set while a started session records, and for no idle one.
DueAgrees ==
  \A p \in Port : ~Stopping(p) =>
    /\ session[p] = "started" /\ port[p].tape # NoTape => port[p].needSendStop
    /\ port[p].needSendStop => session[p] # "idle"

\* An expired port whose plugin ends no start's metadata forgets a tape that nobody
\* asked to stop (Expire); where that cannot be, every recording can be ended.
Forgetful == MayExpire /\ ~SendsEndMetadata
Endable == Forgetful \/ NoOrphanRecording

\* The ports, their sessions and the flags on their tapes agree.
ProtocolInv == CallbackShape /\ PortOwns /\ SessionAgrees /\ DueAgrees /\ PortConsistent /\ Endable

\* A closed recording was asked to stop, one that is ready has audio in it, and the
\* processing chain gets closed recordings only.
KeptWritten ==
  /\ \A t \in Tape : tape[t].state = "Stopped" => tape[t].shouldStop
  /\ \A t \in Tape : tape[t].ready => tape[t].written > 0
  /\ \A t \in chain : tape[t].state = "Stopped"

-----------------------------------------------------------------------------
\* No tape changes its port or its stop request.
SameCalls == \A t \in Tape : tape'[t].port = tape[t].port /\ tape'[t].shouldStop = tape[t].shouldStop

\* What a step that sends or stores a message leaves as it was.
SameButMessages(a, b) ==
  /\ b.port = a.port /\ b.shouldStop = a.shouldStop /\ b.keep = a.keep
  /\ b.queued = a.queued /\ b.isQueued = a.isQueued

\* What the callbacks have said of a tape: everything but the work of the
\* immediate thread on it.
SameTold(a, b) ==
  /\ b.port = a.port /\ b.shouldStop = a.shouldStop /\ b.keep = a.keep
  /\ b.toSend = a.toSend /\ b.msgs = a.msgs

\* AddAudioTape's messages change m_toSendEventQueue and what was reported, only.
LEMMA MessageOnly ==
  ASSUME NEW tp \in TapeRecord, NEW e \in Event
  PROVE  /\ SameButMessages(tp, Pushed(tp, e))
         /\ SameButMessages(tp, Reported(tp))
         /\ SameButMessages(tp, Sent(tp, e))
<1>1. \A a \in TapeRecord : SameButMessages(a, Pushed(a, e)) /\ SameButMessages(a, Reported(a))
  BY DEF TapeRecord, SameButMessages, Pushed, Reported
<1>2. Pushed(tp, e) \in TapeRecord
  BY PushedQuiet
<1>3. QED
  BY <1>1, <1>2 DEF Sent, SameButMessages

\* A step that changes no port, no session and no stop request keeps them agreeing.
LEMMA FrameProtocol ==
  ASSUME IInv, ProtocolInv, UNCHANGED <<port, session, made, cap>>, SameCalls
  PROVE  ProtocolInv'
<1>1. CallbackShape' /\ PortOwns' /\ SessionAgrees' /\ DueAgrees'
  BY DEF IInv, TypeOK, PortRecord, ProtocolInv, CallbackShape, PortOwns, SessionAgrees, DueAgrees, Stopping, idle, SameCalls, NoTape
<1>2. PortConsistent' /\ Endable'
  <2>1. \A t \in 1..made : t \in Tape
    BY CaptureAssumption DEF IInv, TypeOK, Tape
  <2> QED
    BY <2>1 DEF IInv, TypeOK, PortRecord, ProtocolInv, PortConsistent, PortDue, Endable, NoOrphanRecording, SameCalls, NoTape
<1> QED
  BY <1>1, <1>2 DEF ProtocolInv

\* StartCapture stops the port's old tape and makes its new one current.
LEMMA StartProtocol ==
  ASSUME IInv, IInv', ProtocolInv, NEW p \in Port, Start(p)
  PROVE  ProtocolInv'
<1> DEFINE new == made + 1
           old == port[p].tape
<1>1. /\ new \in Tape /\ made' = new /\ made \in Nat /\ new # NoTape
      /\ port' = [port EXCEPT ![p].capturing = TRUE, ![p].tape = new]
      /\ session' = [session EXCEPT ![p] = "starting"]
      /\ cap' = cap /\ idle
  BY CaptureAssumption DEF Start, IInv, TypeOK, Tape, NoTape
<1>2. /\ tape'[new].port = p /\ tape'[new].shouldStop = FALSE
      /\ \A t \in Tape : t # new => tape'[t].port = tape[t].port
      /\ \A t \in Tape : t # new /\ t # old => tape'[t].shouldStop = tape[t].shouldStop
      /\ old \in Tape => tape'[old].shouldStop
  <2>1. old # new
    BY <1>1 DEF IInv, ReferencesExist
  <2>2. Pushed(NewTape(p), "start").port = p /\ Pushed(NewTape(p), "start").shouldStop = FALSE
    BY DEF Pushed, NewTape
  <2>3. \A t \in Tape : Superseded(tape[t]).port = tape[t].port /\ Superseded(tape[t]).shouldStop
    BY DEF Superseded, IInv, TypeOK, TapeRecord
  <2>4. tape' = [t \in Tape |-> IF t = new THEN Pushed(NewTape(p), "start")
                               ELSE IF t = old THEN Superseded(tape[t]) ELSE tape[t]]
    BY DEF Start
  <2> QED
    BY <1>1, <2>1, <2>2, <2>3, <2>4
<1>3. \A q \in Port : port[q].tape # new /\ port[q].tape \in Tape \cup {NoTape}
  BY <1>1 DEF IInv, TypeOK, ReferencesExist, PortRecord
<1>4. /\ port'[p].tape = new /\ port'[p].capturing /\ port'[p].needSendStop = port[p].needSendStop
      /\ session'[p] = "starting"
      /\ \A q \in Port : q # p => port'[q] = port[q] /\ session'[q] = session[q]
  BY <1>1 DEF IInv, TypeOK, PortRecord
<1> HIDE DEF new, old
<1>5. \A q \in Port : q # p => port[q].tape # old \/ port[q].tape = NoTape
  BY DEF old, ProtocolInv, PortOwns
<1>6. \A q \in Port : ~Stopping(q) /\ ~Stopping(q)'
  BY <1>1 DEF ProtocolInv, CallbackShape, Stopping, idle
<1>7. CallbackShape'
  BY <1>1, <1>6 DEF ProtocolInv, CallbackShape, idle
<1>8. PortOwns'
  BY <1>2, <1>3, <1>4 DEF ProtocolInv, PortOwns
<1>9. SessionAgrees'
  BY <1>2, <1>3, <1>4, <1>5, <1>6 DEF ProtocolInv, SessionAgrees
<1>10. DueAgrees'
  BY <1>4, <1>6 DEF ProtocolInv, DueAgrees
<1>11. PortConsistent'
  <2>1. PortDue'
    BY DEF IInv
  <2>2. port'[p].tape # NoTape /\ ~tape'[port'[p].tape].shouldStop
    BY <1>1, <1>2, <1>4
  <2>3. ASSUME NEW q \in Port, q # p, port'[q].capturing
        PROVE  port'[q].tape # NoTape /\ ~tape'[port'[q].tape].shouldStop
    <3>1. port'[q] = port[q] /\ port[q].capturing
      BY <1>4, <2>3
    <3>2. port[q].tape # NoTape /\ ~tape[port[q].tape].shouldStop
      BY <3>1 DEF ProtocolInv, PortConsistent
    <3> QED
      BY <1>2, <1>3, <1>5, <2>3, <3>1, <3>2
  <2> QED
    BY <2>1, <2>2, <2>3 DEF PortConsistent
<1>12. Endable'
  <2> SUFFICES ASSUME ~Forgetful, NEW t \in 1..made', ~tape'[t].shouldStop
               PROVE  port'[tape'[t].port].tape = t
    BY DEF Endable, Forgetful, NoOrphanRecording
  <2>1. CASE t = new
    BY <2>1, <1>2, <1>4
  <2>2. CASE t # new
    <3>1. t \in 1..made /\ t \in Tape /\ t # old /\ ~tape[t].shouldStop
      BY <2>2, <1>1, <1>2, CaptureAssumption, SMTT(30) DEF new, IInv, TypeOK, Tape
    <3>2. port[tape[t].port].tape = t
      BY <3>1 DEF ProtocolInv, Endable, NoOrphanRecording
    <3>3. tape[t].port \in Port /\ tape'[t].port = tape[t].port
      BY <2>2, <3>1, <1>2 DEF IInv, TypeOK, TapeRecord
    <3>4. tape[t].port # p
      BY <3>1, <3>2 DEF old
    <3> QED
      BY <3>2, <3>3, <3>4, <1>4
  <2> QED
    BY <2>1, <2>2
<1> QED
  BY <1>7, <1>8, <1>9, <1>10, <1>11, <1>12 DEF ProtocolInv

\* The "EndMetadata" event sends the start message of the port's tape.
LEMMA EndMetadataProtocol ==
  ASSUME IInv, IInv', ProtocolInv, NEW p \in Port, EndMetadata(p), SameCalls
  PROVE  ProtocolInv'
<1>1. /\ cap' = cap /\ made' = made /\ idle
      /\ session[p] = "starting" /\ session' = [session EXCEPT ![p] = "started"]
  BY DEF EndMetadata, immVars
<1>2. /\ \A q \in Port : q # p => port'[q] = port[q] /\ session'[q] = session[q]
      /\ session'[p] = "started"
      /\ port'[p].tape = port[p].tape /\ port'[p].capturing = port[p].capturing
      /\ port'[p].tape # NoTape => port'[p].needSendStop
  BY DEF EndMetadata, StartReported, IInv, TypeOK, PortRecord
<1>3. \A q \in Port : ~Stopping(q) /\ ~Stopping(q)'
  BY <1>1 DEF ProtocolInv, CallbackShape, Stopping, idle
<1>4. CallbackShape'
  BY <1>1, <1>3 DEF ProtocolInv, CallbackShape, idle
<1>5. \A q \in Port : port'[q].tape = port[q].tape
                      /\ (port[q].tape # NoTape => port[q].tape \in Tape)
  BY <1>2 DEF IInv, TypeOK, PortRecord
<1>6. PortOwns' /\ SessionAgrees'
  BY <1>1, <1>2, <1>3, <1>5 DEF ProtocolInv, PortOwns, SessionAgrees, SameCalls
<1>7. DueAgrees'
  BY <1>1, <1>2, <1>3 DEF ProtocolInv, DueAgrees
<1>8. PortConsistent'
  BY <1>2, <1>5 DEF ProtocolInv, PortConsistent, PortDue, IInv, SameCalls
<1>9. Endable'
  <2>1. \A t \in 1..made : t \in Tape /\ tape[t].port \in Port
    BY CaptureAssumption DEF IInv, TypeOK, TapeRecord, Tape
  <2> QED
    BY <1>1, <1>5, <2>1 DEF ProtocolInv, Endable, NoOrphanRecording, SameCalls
<1> QED
  BY <1>4, <1>6, <1>7, <1>8, <1>9 DEF ProtocolInv

\* AddAudioChunk queues on the port's tape or drops the chunk.
LEMMA ChunkProtocol ==
  ASSUME IInv, IInv', ProtocolInv, (\E p \in Port : ChunkIn(p)) \/ ChunkQueue, SameCalls
  PROVE  ProtocolInv'
<1>1. /\ UNCHANGED <<port, session, made>>
      /\ cap.pc \in {"idle", "chunk"} /\ cap.final = FALSE
      /\ cap'.pc \in {"chunk", "schedule"} /\ cap'.final = FALSE
  <2>1. UNCHANGED <<port, session, made>>
    BY DEF ChunkIn, ChunkQueue
  <2>2. cap.pc \in {"idle", "chunk"}
    BY DEF ChunkIn, ChunkQueue, idle
  <2>3. cap.final = FALSE
    BY <2>2 DEF ProtocolInv, CallbackShape, IInv, TypeOK, CapRecord
  <2>4. cap'.pc \in {"chunk", "schedule"} /\ cap'.final = cap.final
    BY DEF ChunkIn, ChunkQueue, IInv, TypeOK, CapRecord
  <2> QED
    BY <2>1, <2>2, <2>3, <2>4
<1>2. \A q \in Port : ~Stopping(q) /\ ~Stopping(q)'
  BY <1>1 DEF Stopping
<1>3. CallbackShape'
  BY <1>1, <1>2 DEF CallbackShape, idle
<1>4. PortOwns' /\ SessionAgrees' /\ DueAgrees'
  BY <1>1, <1>2 DEF ProtocolInv, PortOwns, SessionAgrees, DueAgrees, SameCalls, IInv, TypeOK, PortRecord
<1>5. PortConsistent' /\ Endable'
  <2>1. \A t \in 1..made : t \in Tape
    BY CaptureAssumption DEF IInv, TypeOK, Tape
  <2> QED
    BY <1>1, <2>1 DEF IInv, TypeOK, PortRecord, ProtocolInv, PortConsistent, PortDue, Endable, NoOrphanRecording, SameCalls
<1> QED
  BY <1>3, <1>4, <1>5 DEF ProtocolInv

\* Both ways into the stop event: of a running session, and of an expired port.
LEMMA StopFlagProtocol ==
  ASSUME IInv, IInv', ProtocolInv, NEW p \in Port, NEW f \in BOOLEAN, idle,
         port[p].tape # NoTape, StopFlag(p, f),
         \A q \in Port : q # p => session'[q] = session[q],
         f \/ session'[p] = "idle"
  PROVE  ProtocolInv'
<1> DEFINE t == port[p].tape
<1>1. /\ t \in Tape /\ made' = made
      /\ cap' = [pc |-> "duration", port |-> p, tape |-> t, final |-> f]
      /\ \A q \in Port : q # p => port'[q] = port[q]
      /\ port'[p].tape = t /\ port'[p].capturing = FALSE /\ port'[p].needSendStop = port[p].needSendStop
  BY DEF StopFlag, PortStopped, IInv, TypeOK, PortRecord
<1>2. /\ \A u \in Tape : tape'[u].port = tape[u].port
      /\ tape'[t].shouldStop
      /\ \A u \in Tape : u # t => tape'[u].shouldStop = tape[u].shouldStop
  <2>1. tape' = [tape EXCEPT ![t].shouldStop = TRUE] /\ tape \in [Tape -> TapeRecord]
    BY <1>1 DEF StopFlag, IInv, TypeOK
  <2>2. \A u \in Tape : u # t => tape'[u] = tape[u]
    BY <2>1
  <2>3. tape'[t] = [tape[t] EXCEPT !.shouldStop = TRUE] /\ tape[t] \in TapeRecord
    BY <1>1, <2>1
  <2>4. tape'[t].shouldStop /\ tape'[t].port = tape[t].port
    BY <2>3 DEF TapeRecord
  <2> QED
    BY <2>2, <2>4
<1>3. \A q \in Port : port[q].tape # NoTape => port[q].tape \in Tape
  BY DEF IInv, TypeOK, PortRecord
<1>4. \A q \in Port : q # p => port[q].tape # t
  BY DEF ProtocolInv, PortOwns
<1> HIDE DEF t
<1>5. Stopping(p)' /\ \A q \in Port : ~Stopping(q) /\ (q # p => ~Stopping(q)')
  BY <1>1 DEF ProtocolInv, CallbackShape, Stopping, idle
<1>6. t # NoTape
  BY DEF t
<1>7. CallbackShape'
  BY <1>1, <1>5, <1>6 DEF CallbackShape, idle
<1>8. PortOwns' /\ SessionAgrees'
  BY <1>1, <1>2, <1>3, <1>4, <1>5, <1>6 DEF ProtocolInv, PortOwns, SessionAgrees, t
<1>9. DueAgrees'
  BY <1>1, <1>5 DEF ProtocolInv, DueAgrees
<1>10. PortConsistent'
  BY <1>1, <1>2, <1>3, <1>4, <1>6 DEF ProtocolInv, PortConsistent, PortDue, IInv
<1>11. Endable'
  <2>1. \A u \in 1..made : u \in Tape /\ tape[u].port \in Port
    BY CaptureAssumption DEF IInv, TypeOK, TapeRecord, Tape
  <2>2. \A q \in Port : port'[q].tape = port[q].tape
    BY <1>1 DEF t
  <2> QED
    BY <1>1, <1>2, <2>1, <2>2 DEF ProtocolInv, Endable, NoOrphanRecording
<1> QED
  BY <1>7, <1>8, <1>9, <1>10, <1>11 DEF ProtocolInv

\* StopCapture ends the session and asks its tape to stop.
LEMMA StopProtocol ==
  ASSUME IInv, IInv', ProtocolInv, NEW p \in Port, Stop(p)
  PROVE  ProtocolInv'
<1>1. /\ idle /\ session' = [session EXCEPT ![p] = "idle"]
      /\ session'[p] = "idle" /\ \A q \in Port : q # p => session'[q] = session[q]
  BY DEF Stop, IInv, TypeOK
<1>2. CASE port[p].tape # NoTape
  BY <1>1, <1>2, StopFlagProtocol DEF Stop
<1>3. CASE port[p].tape = NoTape
  <2>1. UNCHANGED <<port, tape, made, cap>>
    BY <1>3 DEF Stop
  <2>2. \A q \in Port : ~Stopping(q) /\ ~Stopping(q)'
    BY <1>1, <2>1 DEF ProtocolInv, CallbackShape, Stopping, idle
  <2>3. CallbackShape' /\ PortOwns' /\ PortConsistent' /\ Endable'
    BY <1>1, <2>1, <2>2 DEF ProtocolInv, CallbackShape, idle, PortOwns, PortConsistent, PortDue, Endable, NoOrphanRecording
  <2>4. SessionAgrees'
    BY <1>1, <1>3, <2>1, <2>2 DEF ProtocolInv, SessionAgrees
  <2>5. DueAgrees'
    BY <1>1, <1>3, <2>1, <2>2 DEF ProtocolInv, DueAgrees, IInv, PortDue
  <2> QED
    BY <2>3, <2>4, <2>5 DEF ProtocolInv
<1> QED
  BY <1>2, <1>3

\* The port Hoover forgets at once has no recording that is going on.
LEMMA ForgetProtocol ==
  ASSUME IInv, IInv', ProtocolInv, NEW p \in Port, UNCHANGED made, SameCalls,
         port' = [port EXCEPT ![p] = NewPort],
         Forgetful \/ (port[p].tape # NoTape => tape[port[p].tape].shouldStop),
         \A q \in Port : q # p => session'[q] = session[q],
         cap'.pc = "idle", cap'.final = FALSE, cap'.tape = NoTape,
         \A q \in Port : q # p => ~Stopping(q)
  PROVE  ProtocolInv'
<1>1. /\ port'[p].tape = NoTape /\ port'[p].capturing = FALSE /\ port'[p].needSendStop = FALSE
      /\ \A q \in Port : q # p => port'[q] = port[q]
  BY DEF IInv, TypeOK, NewPort
<1>2. \A q \in Port : ~Stopping(q)'
  BY DEF Stopping
<1>3. \A q \in Port : port[q].tape # NoTape => port[q].tape \in Tape
  BY DEF IInv, TypeOK, PortRecord
<1>4. CallbackShape'
  BY <1>2 DEF CallbackShape, idle
<1>5. PortOwns' /\ SessionAgrees' /\ DueAgrees'
  BY <1>1, <1>2, <1>3 DEF ProtocolInv, PortOwns, SessionAgrees, DueAgrees, SameCalls
<1>6. PortConsistent'
  BY <1>1, <1>3 DEF ProtocolInv, PortConsistent, PortDue, SameCalls
<1>7. Endable'
  <2> SUFFICES ASSUME ~Forgetful PROVE NoOrphanRecording'
    BY DEF Endable, Forgetful
  <2>1. \A u \in 1..made : u \in Tape /\ tape[u].port \in Port
    BY CaptureAssumption DEF IInv, TypeOK, TapeRecord, Tape
  <2>2. \A u \in 1..made : ~tape[u].shouldStop => port[tape[u].port].tape = u /\ u # NoTape
    BY DEF ProtocolInv, Endable, NoOrphanRecording, NoTape
  <2>3. \A u \in 1..made : ~tape[u].shouldStop => tape[u].port # p
    BY <2>2
  <2> QED
    BY <1>1, <2>1, <2>2, <2>3 DEF NoOrphanRecording, SameCalls
<1> QED
  BY <1>4, <1>5, <1>6, <1>7 DEF ProtocolInv

\* Hoover expires a port: the same stop event, then Finalize.
LEMMA ExpireProtocol ==
  ASSUME IInv, IInv', ProtocolInv, NEW p \in Port, Expire(p)
  PROVE  ProtocolInv'
<1>1. idle /\ session' = session /\ MayExpire /\ (SendsEndMetadata => session[p] # "starting")
  BY DEF Expire, NoneStarting
<1>2. \A q \in Port : ~Stopping(q)
  BY <1>1 DEF ProtocolInv, CallbackShape, Stopping, idle
<1>3. CASE port[p].needSendStop
  <2>1. port[p].tape # NoTape /\ StopFlag(p, TRUE)
    BY <1>3 DEF Expire, IInv, PortDue
  <2> QED
    BY <1>1, <2>1, StopFlagProtocol
<1>4. CASE ~port[p].needSendStop
  <2>1. port' = [port EXCEPT ![p] = NewPort] /\ UNCHANGED <<tape, made, cap>>
    BY <1>4 DEF Expire
  <2>2. Forgetful \/ (port[p].tape # NoTape => tape[port[p].tape].shouldStop)
    BY <1>1, <1>2, <1>4 DEF Forgetful, ProtocolInv, DueAgrees, SessionAgrees, IInv, TypeOK
  <2>3. cap.pc = "idle" /\ cap.final = FALSE /\ cap.tape = NoTape
    BY <1>1 DEF ProtocolInv, CallbackShape, idle, IInv, TypeOK, CapRecord
  <2>4. SameCalls
    BY <2>1 DEF SameCalls
  <2> QED
    BY <1>1, <1>2, <2>1, <2>2, <2>3, <2>4, ForgetProtocol
<1> QED
  BY <1>3, <1>4

\* Finalize forgets the tape, which has been asked to stop by then.
LEMMA FinalizeProtocol ==
  ASSUME IInv, IInv', ProtocolInv, Finalize, SameCalls
  PROVE  ProtocolInv'
<1> DEFINE p == cap.port
<1>1. /\ cap.pc = "final" /\ cap.final /\ p \in Port
      /\ port' = [port EXCEPT ![p] = NewPort] /\ session' = session /\ made' = made
      /\ cap'.pc = "idle" /\ cap'.final = FALSE /\ cap'.tape = NoTape
  BY DEF Finalize, IdleCap, ProtocolInv, CallbackShape, IInv, TypeOK, CapRecord
<1>2. Stopping(p) /\ \A q \in Port : q # p => ~Stopping(q)
  BY <1>1 DEF Stopping
<1>3. port[p].tape # NoTape => tape[port[p].tape].shouldStop
  BY <1>1, <1>2 DEF ProtocolInv, SessionAgrees
<1> QED
  BY <1>1, <1>2, <1>3, ForgetProtocol

\* The later steps of the stop event, its message left aside.
LEMMA StopStepProtocol ==
  ASSUME IInv, IInv', ProtocolInv, StopDuration \/ StopEvent, SameCalls
  PROVE  ProtocolInv'
<1>1. /\ UNCHANGED <<port, session, made>>
      /\ cap.pc \in {"duration", "event"} /\ cap'.pc \in {"event", "message"}
      /\ cap'.port = cap.port /\ cap'.tape = cap.tape /\ cap'.final = cap.final
  BY DEF StopDuration, StopEvent, IInv, TypeOK, CapRecord
<1>2. \A q \in Port : Stopping(q)' <=> Stopping(q)
  BY <1>1 DEF Stopping
<1>3. CallbackShape'
  BY <1>1, <1>2 DEF ProtocolInv, CallbackShape, idle
<1>4. PortOwns' /\ SessionAgrees' /\ DueAgrees'
  BY <1>1, <1>2, ZenonT(40) DEF ProtocolInv, PortOwns, SessionAgrees, DueAgrees, SameCalls, IInv, TypeOK, PortRecord
<1>5. PortConsistent' /\ Endable'
  <2>1. \A t \in 1..made : t \in Tape
    BY CaptureAssumption DEF IInv, TypeOK, Tape
  <2> QED
    BY <1>1, <2>1 DEF IInv, TypeOK, PortRecord, ProtocolInv, PortConsistent, PortDue, Endable, NoOrphanRecording, SameCalls
<1> QED
  BY <1>3, <1>4, <1>5 DEF ProtocolInv

\* The stop message is the last thing the stop event does with its tape.
LEMMA StopMessageProtocol ==
  ASSUME IInv, IInv', ProtocolInv, StopMessage, SameCalls
  PROVE  ProtocolInv'
<1> DEFINE p == cap.port
<1>1. /\ UNCHANGED <<session, made>> /\ p \in Port
      /\ cap.pc = "message" /\ cap'.pc = "schedule"
      /\ cap'.port = p /\ cap'.tape = cap.tape /\ cap'.final = cap.final /\ cap.final \in BOOLEAN
      /\ \A q \in Port : q # p => port'[q] = port[q]
      /\ port'[p].tape = port[p].tape /\ port'[p].capturing = port[p].capturing
      /\ port'[p].needSendStop = FALSE
  BY DEF StopMessage, IInv, TypeOK, CapRecord, PortRecord
<1>2. /\ Stopping(p) /\ (Stopping(p)' <=> cap.final)
      /\ \A q \in Port : q # p => ~Stopping(q) /\ ~Stopping(q)'
  BY <1>1 DEF Stopping
<1>3. ~cap.final => session[p] = "idle"
  BY <1>1 DEF ProtocolInv, CallbackShape
<1>4. \A q \in Port : port'[q].tape = port[q].tape /\ port'[q].capturing = port[q].capturing
                      /\ (port[q].tape # NoTape => port[q].tape \in Tape)
  BY <1>1 DEF IInv, TypeOK, PortRecord
<1>5. CallbackShape'
  BY <1>1, <1>2, <1>4 DEF ProtocolInv, CallbackShape, idle
<1>6. PortOwns' /\ SessionAgrees'
  BY <1>1, <1>2, <1>3, <1>4 DEF ProtocolInv, PortOwns, SessionAgrees, SameCalls
<1>7. DueAgrees'
  BY <1>1, <1>2, <1>3 DEF ProtocolInv, DueAgrees
<1>8. PortConsistent'
  BY <1>1, <1>4 DEF ProtocolInv, PortConsistent, PortDue, IInv, SameCalls
<1>9. Endable'
  <2>1. \A t \in 1..made : t \in Tape /\ tape[t].port \in Port
    BY CaptureAssumption DEF IInv, TypeOK, TapeRecord, Tape
  <2> QED
    BY <1>1, <1>4, <2>1 DEF ProtocolInv, Endable, NoOrphanRecording, SameCalls
<1> QED
  BY <1>5, <1>6, <1>7, <1>8, <1>9 DEF ProtocolInv

\* Scheduling ends the callback and touches neither port nor session.
LEMMA CapScheduleProtocol ==
  ASSUME IInv, IInv', ProtocolInv, CapSchedule, SameCalls
  PROVE  ProtocolInv'
<1>1. /\ UNCHANGED <<port, session, made>> /\ cap.pc = "schedule"
      /\ cap.final \in BOOLEAN
      /\ cap.final => cap'.pc = "final" /\ cap'.port = cap.port /\ cap'.tape = cap.tape /\ cap'.final
      /\ ~cap.final => cap'.pc = "idle" /\ cap'.tape = NoTape /\ cap'.final = FALSE
  BY DEF CapSchedule, IdleCap, IInv, TypeOK, CapRecord
<1>2. \A q \in Port : Stopping(q)' <=> Stopping(q)
  BY <1>1 DEF Stopping
<1>3. CallbackShape'
  BY <1>1, <1>2 DEF ProtocolInv, CallbackShape, Stopping, idle
<1>4. PortOwns' /\ SessionAgrees' /\ DueAgrees'
  BY <1>1, <1>2 DEF ProtocolInv, PortOwns, SessionAgrees, DueAgrees, SameCalls, IInv, TypeOK, PortRecord
<1>5. PortConsistent' /\ Endable'
  <2>1. \A t \in 1..made : t \in Tape
    BY CaptureAssumption DEF IInv, TypeOK, Tape
  <2> QED
    BY <1>1, <2>1 DEF IInv, TypeOK, PortRecord, ProtocolInv, PortConsistent, PortDue, Endable, NoOrphanRecording, SameCalls
<1> QED
  BY <1>3, <1>4, <1>5 DEF ProtocolInv

-----------------------------------------------------------------------------
\* What the scheduling of a tape looks at.
SameWork(a, b) ==
  /\ b.port = a.port /\ b.shouldStop = a.shouldStop
  /\ b.queued = a.queued /\ b.isQueued = a.isQueued /\ b.state = a.state

\* The steps that only send messages of a tape, or store events to send.
MessageStep ==
  \/ StopEvent \/ StopMessage \/ Finalize
  \/ \E p \in Port : EndMetadata(p) \/ Hold(p) \/ Resume(p) \/ Update(p)
  \/ \E t \in Tape : ChainReport(t)

\* Messages leave queue, files and flags of every tape alone.
LEMMA MessageStepEffect ==
  ASSUME IInv, MessageStep
  PROVE  \A t \in Tape : SameButMessages(tape[t], tape'[t])
<1>1. \A t \in Tape : SameButMessages(tape[t], tape[t]) /\ tape[t] \in TapeRecord
  BY DEF SameButMessages, IInv, TypeOK
<1>2. ASSUME NEW x \in Tape, NEW r, SameButMessages(tape[x], r), tape' = [tape EXCEPT ![x] = r]
      PROVE  \A t \in Tape : SameButMessages(tape[t], tape'[t])
  BY <1>1, <1>2 DEF IInv, TypeOK
<1>3. \/ \E x \in Tape : \E r : SameButMessages(tape[x], r) /\ tape' = [tape EXCEPT ![x] = r]
      \/ tape' = tape
  <2>1. cap.pc # "idle" => cap.tape \in Tape
    BY CaptureAssumption DEF IInv, TypeOK, ReferencesExist, Tape
  <2>2. \A p \in Port : port[p].tape # NoTape => port[p].tape \in Tape
    BY DEF IInv, TypeOK, PortRecord
  <2>3. CASE StopEvent
    BY <1>1, <2>1, <2>3, MessageOnly DEF StopEvent, Event
  <2>4. CASE StopMessage \/ Finalize
    BY <1>1, <2>1, <2>4, MessageOnly DEF StopMessage, Finalize, Event
  <2>5. ASSUME NEW p \in Port, EndMetadata(p), tape' # tape
        PROVE  \E x \in Tape : \E r : SameButMessages(tape[x], r) /\ tape' = [tape EXCEPT ![x] = r]
    <3>1. port[p].tape # NoTape /\ tape' = [tape EXCEPT ![port[p].tape] = Reported(tape[port[p].tape])]
      BY <2>5 DEF EndMetadata
    <3> QED
      BY <1>1, <2>2, <3>1, MessageOnly DEF Event
  <2>6. ASSUME NEW p \in Port, Hold(p)
        PROVE  \E x \in Tape : \E r : SameButMessages(tape[x], r) /\ tape' = [tape EXCEPT ![x] = r]
    <3> DEFINE x == port[p].tape
               s == IF HoldResumeReportEvents THEN Sent(tape[x], "hold") ELSE tape[x]
    <3>1. x \in Tape
      BY <2>2, <2>6 DEF Hold, Note
    <3>2. s \in TapeRecord /\ SameButMessages(tape[x], s)
      BY <1>1, <3>1, MessageOnly, SentQuiet DEF Event
    <3> HIDE DEF s
    <3>3. SameButMessages(tape[x], [s EXCEPT !.held = TRUE])
      BY <3>2 DEF SameButMessages, TapeRecord
    <3>4. tape' = [tape EXCEPT ![x] = [s EXCEPT !.held = TRUE]]
      BY <2>6 DEF s, Hold
    <3> QED
      BY <3>1, <3>3, <3>4
  <2>7. ASSUME NEW p \in Port, Resume(p)
        PROVE  \E x \in Tape : \E r : SameButMessages(tape[x], r) /\ tape' = [tape EXCEPT ![x] = r]
    <3> DEFINE x == port[p].tape
               s == IF HoldResumeReportEvents /\ tape[x].held THEN Sent(tape[x], "resume") ELSE tape[x]
    <3>1. x \in Tape
      BY <2>2, <2>7 DEF Resume, Note
    <3>2. s \in TapeRecord /\ SameButMessages(tape[x], s)
      BY <1>1, <3>1, MessageOnly, SentQuiet DEF Event
    <3> HIDE DEF s
    <3>3. SameButMessages(tape[x], [s EXCEPT !.held = FALSE])
      BY <3>2 DEF SameButMessages, TapeRecord
    <3>4. tape' = [tape EXCEPT ![x] = [s EXCEPT !.held = FALSE]]
      BY <2>7 DEF s, Resume
    <3> QED
      BY <3>1, <3>3, <3>4
  <2>8. ASSUME NEW p \in Port, Update(p)
        PROVE  \E x \in Tape : \E r : SameButMessages(tape[x], r) /\ tape' = [tape EXCEPT ![x] = r]
    BY <1>1, <2>2, <2>8, MessageOnly DEF Update, Note, Event
  <2>9. ASSUME NEW t \in Tape, ChainReport(t)
        PROVE  \E x \in Tape : \E r : SameButMessages(tape[x], r) /\ tape' = [tape EXCEPT ![x] = r]
    BY <1>1, <2>9, MessageOnly DEF ChainReport, Event
  <2> QED
    BY <2>3, <2>4, <2>5, <2>6, <2>7, <2>8, <2>9, CaptureAssumption DEF MessageStep
<1> QED
  BY <1>1, <1>2, <1>3

\* The steps that touch no tape at all.
LEMMA UntouchedTape ==
  ASSUME \/ \E p \in Port : ChunkIn(p)
         \/ \E p \in Port : Stop(p) /\ port[p].tape = NoTape
         \/ \E p \in Port : Expire(p) /\ ~port[p].needSendStop
         \/ \E t \in Tape : ChainDrop(t)
         \/ DaemonStop \/ ImmAcquire \/ UNCHANGED vars
  PROVE  tape' = tape
BY DEF ChunkIn, Stop, Expire, ChainDrop, DaemonStop, ImmAcquire, vars

\* A "Keep" event changes what becomes of the recording, and nothing else.
LEMMA KeepEffect ==
  ASSUME IInv, NEW p \in Port, NEW w \in BOOLEAN, Keep(p, w)
  PROVE  /\ port[p].tape \in Tape
         /\ \A t \in Tape : SameWork(tape[t], tape'[t])
         /\ \A t \in Tape : t # port[p].tape => tape'[t].keep = tape[t].keep
         /\ \A t \in Tape : tape'[t].msgs = tape[t].msgs /\ tape'[t].toSend = tape[t].toSend
<1>1. port[p].tape \in Tape
  BY DEF IInv, TypeOK, PortRecord, Keep, Note
<1>2. tape' = [tape EXCEPT ![port[p].tape].keep = w]
  BY DEF Keep
<1>3. PICK x \in Tape : x = port[p].tape
  BY <1>1
<1>4. \A t \in Tape : tape[t] \in TapeRecord
  BY DEF IInv, TypeOK
<1>5. \A t \in Tape : t # x => tape'[t] = tape[t]
  BY <1>2, <1>3 DEF IInv, TypeOK
<1>6. tape'[x] = [tape[x] EXCEPT !.keep = w]
  BY <1>2, <1>3 DEF IInv, TypeOK
<1>7. PICK r : r = tape[x]
  OBVIOUS
<1>8. SameWork(r, [r EXCEPT !.keep = w])
  BY <1>4, <1>7 DEF TapeRecord, SameWork
<1>9. [r EXCEPT !.keep = w].msgs = r.msgs /\ [r EXCEPT !.keep = w].toSend = r.toSend
  BY <1>4, <1>7 DEF TapeRecord
<1> QED
  BY <1>1, <1>3, <1>5, <1>6, <1>7, <1>8, <1>9 DEF SameWork

\* The stop event takes the duration of the recording from the tape, no more.
LEMMA StopDurationEffect ==
  ASSUME IInv, StopDuration
  PROVE  \A t \in Tape : SameWork(tape[t], tape'[t]) /\ SameButMessages(tape[t], tape'[t])
                         /\ tape'[t].msgs = tape[t].msgs /\ tape'[t].toSend = tape[t].toSend
<1>1. cap.tape \in Tape
  BY CaptureAssumption DEF StopDuration, IInv, TypeOK, ReferencesExist, Tape
<1>2. PICK s \in BOOLEAN : tape' = [tape EXCEPT ![cap.tape].short = s]
  BY DEF StopDuration
<1> QED
  BY <1>1, <1>2, SMTT(30) DEF IInv, TypeOK, TapeRecord, SameWork, SameButMessages

\* A chunk goes into the queue of one tape.
LEMMA ChunkQueueEffect ==
  ASSUME IInv, ChunkQueue
  PROVE  /\ cap.tape \in Tape
         /\ \A t \in Tape : SameTold(tape[t], tape'[t]) /\ tape'[t].isQueued = tape[t].isQueued
         /\ \A t \in Tape : t # cap.tape => tape'[t] = tape[t]
<1>1. cap.tape \in Tape
  BY CaptureAssumption DEF ChunkQueue, IInv, TypeOK, ReferencesExist, Tape
<1>2. CASE tape' = tape
  BY <1>1, <1>2 DEF SameTold
<1>3. CASE tape' = [tape EXCEPT ![cap.tape].queued = @ + 1]
  BY <1>1, <1>3, SMTT(30) DEF IInv, TypeOK, TapeRecord, SameTold
<1> QED
  BY <1>2, <1>3 DEF ChunkQueue

\* StopFlag and Superseded set m_shouldStop, of one tape.
LEMMA StopFlagEffect ==
  ASSUME IInv, NEW p \in Port, NEW f \in BOOLEAN, port[p].tape # NoTape, StopFlag(p, f)
  PROVE  /\ port[p].tape \in Tape
         /\ \A t \in Tape : t # port[p].tape => tape'[t] = tape[t]
         /\ tape'[port[p].tape].keep = tape[port[p].tape].keep
         /\ tape'[port[p].tape].shouldStop
         /\ tape'[port[p].tape].port = tape[port[p].tape].port
         /\ tape'[port[p].tape].msgs = tape[port[p].tape].msgs
         /\ tape'[port[p].tape].toSend = tape[port[p].tape].toSend
         /\ tape'[port[p].tape].isQueued = tape[port[p].tape].isQueued
BY DEF StopFlag, IInv, TypeOK, PortRecord, TapeRecord

\* Scheduling a tape marks it queued, if it was not, and nothing else.
LEMMA CapScheduleEffect ==
  ASSUME IInv, CapSchedule
  PROVE  /\ cap.tape \in Tape
         /\ \A t \in Tape : SameTold(tape[t], tape'[t]) /\ tape'[t].queued = tape[t].queued
         /\ \A t \in Tape : t # cap.tape => tape'[t] = tape[t]
         /\ tape'[cap.tape].isQueued
<1>1. cap.tape \in Tape
  BY CaptureAssumption DEF CapSchedule, IInv, TypeOK, ReferencesExist, Tape
<1>2. CASE tape' = tape /\ tape[cap.tape].isQueued
  BY <1>1, <1>2 DEF SameTold
<1>3. CASE tape' = [tape EXCEPT ![cap.tape].isQueued = TRUE]
  BY <1>1, <1>3, SMTT(30) DEF IInv, TypeOK, TapeRecord, SameTold
<1> QED
  BY <1>2, <1>3 DEF CapSchedule, Schedule

\* The immediate thread leaves what was told to the tape as it is.
LEMMA ImmStepEffect ==
  ASSUME IInv, ImmStep
  PROVE  \A t \in Tape : SameTold(tape[t], tape'[t])
<1>1. \A t \in Tape : SameTold(tape[t], tape[t]) /\ tape[t] \in TapeRecord
  BY DEF SameTold, IInv, TypeOK
<1>2. ASSUME NEW x \in Tape, NEW r, SameTold(tape[x], r), tape' = [tape EXCEPT ![x] = r]
      PROVE  \A t \in Tape : SameTold(tape[t], tape'[t])
  BY <1>1, <1>2 DEF IInv, TypeOK
<1>3. imm.pc \in {"write", "disk", "close", "dispatch"} => imm.tape \in Tape
  BY CaptureAssumption DEF IInv, TypeOK, ReferencesExist, Tape
<1>4. CASE ImmAcquire
  BY <1>1, <1>4 DEF ImmAcquire
<1>5. CASE ImmPop
  <2>1. CASE immQueue = <<>>
    BY <1>1, <1>5, <2>1 DEF ImmPop
  <2>2. CASE immQueue # <<>>
    <3> DEFINE x == Head(immQueue)
    <3>1. x \in Tape
      BY <2>2 DEF IInv, TypeOK
    <3>2. tape' = [tape EXCEPT ![x].isQueued = FALSE]
      BY <1>5, <2>2 DEF ImmPop
    <3>3. SameTold(tape[x], [tape[x] EXCEPT !.isQueued = FALSE])
      BY <1>1, <3>1 DEF SameTold, TapeRecord
    <3>4. tape' = [tape EXCEPT ![x] = [tape[x] EXCEPT !.isQueued = FALSE]]
      BY <3>2
    <3> QED
      BY <1>2, <3>1, <3>3, <3>4
  <2> QED
    BY <2>1, <2>2
<1>6. CASE WritePop
  <2>1. tape' = tape \/ tape' = [tape EXCEPT ![imm.tape] = [tape[imm.tape] EXCEPT !.queued = @ - 1]]
    BY <1>6 DEF WritePop
  <2>2. imm.tape \in Tape
    BY <1>3, <1>6 DEF WritePop
  <2>3. SameTold(tape[imm.tape], [tape[imm.tape] EXCEPT !.queued = @ - 1])
    BY <1>1, <2>2 DEF SameTold, TapeRecord
  <2> QED
    BY <1>1, <1>2, <2>1, <2>2, <2>3
<1>7. CASE WriteDisk
  <2> DEFINE tp == [tape[imm.tape] EXCEPT !.state = "Active", !.file = TRUE]
  <2>1. imm.tape \in Tape
    BY <1>3, <1>7 DEF WriteDisk
  <2>2. SameTold(tape[imm.tape], tp) /\ SameTold(tape[imm.tape], [tp EXCEPT !.written = @ + 1])
    BY <1>1, <2>1 DEF SameTold, TapeRecord
  <2>3. tape' = [tape EXCEPT ![imm.tape] = tp] \/ tape' = [tape EXCEPT ![imm.tape] = [tp EXCEPT !.written = @ + 1]]
    BY <1>7 DEF WriteDisk
  <2> HIDE DEF tp
  <2> QED
    BY <1>2, <2>1, <2>2, <2>3
<1>8. CASE WriteClose
  <2> DEFINE tp == tape[imm.tape]
             r == [tp EXCEPT !.state = "Stopped", !.ready = @ \/ (tp.file /\ tp.written > 0)]
  <2>1. imm.tape \in Tape
    BY <1>3, <1>8 DEF WriteClose
  <2>2. SameTold(tp, r) /\ SameTold(tp, tp)
    BY <1>1, <2>1 DEF SameTold, TapeRecord
  <2>3. tape' = [tape EXCEPT ![imm.tape] = r] \/ tape' = [tape EXCEPT ![imm.tape] = tp]
    BY <1>8 DEF WriteClose
  <2> HIDE DEF r
  <2> QED
    BY <1>2, <2>1, <2>2, <2>3
<1>9. CASE Dispatch
  <2> DEFINE tp == tape[imm.tape]
  <2>1. imm.tape \in Tape
    BY <1>3, <1>9 DEF Dispatch
  <2>2. SameTold(tp, Handled(tp)) /\ SameTold(tp, tp)
    BY <1>1, <2>1 DEF SameTold, TapeRecord, Handled
  <2>3. tape' = [tape EXCEPT ![imm.tape] = Handled(tp)] \/ tape' = [tape EXCEPT ![imm.tape] = tp]
    BY <1>9 DEF Dispatch
  <2> HIDE DEF tp
  <2> QED
    BY <1>2, <2>1, <2>2, <2>3 DEF tp
<1> QED
  BY <1>4, <1>5, <1>6, <1>7, <1>8, <1>9 DEF ImmStep

\* Handling a recording changes neither its queue nor its state.
LEMMA HandledWork ==
  ASSUME NEW tp \in TapeRecord
  PROVE  SameWork(tp, Handled(tp))
BY DEF TapeRecord, Handled, SameWork

\* AudioTape::Write leaves every other tape in the immediate queue as it was.
LEMMA WriteKeepsQueued ==
  ASSUME IInv, WritePop \/ WriteDisk \/ WriteClose \/ Dispatch, imm.tape \in Tape
  PROVE  tape'[imm.tape].isQueued = tape[imm.tape].isQueued
<1> DEFINE tp == tape[imm.tape]
<1>1. tp \in TapeRecord /\ tape \in [Tape -> TapeRecord]
  BY DEF IInv, TypeOK
<1>2. PICK r : tape' = [tape EXCEPT ![imm.tape] = r] /\ r.isQueued = tp.isQueued
  <2>1. CASE WritePop
    BY <1>1, <2>1 DEF WritePop, TapeRecord
  <2>2. CASE WriteDisk
    <3> DEFINE a == [tp EXCEPT !.state = "Active", !.file = TRUE]
    <3>1. a.isQueued = tp.isQueued /\ [a EXCEPT !.written = @ + 1].isQueued = tp.isQueued
      BY <1>1 DEF TapeRecord
    <3>2. tape' = [tape EXCEPT ![imm.tape] = a] \/ tape' = [tape EXCEPT ![imm.tape] = [a EXCEPT !.written = @ + 1]]
      BY <2>2 DEF WriteDisk
    <3> HIDE DEF a, tp
    <3> QED
      BY <3>1, <3>2
  <2>3. CASE WriteClose
    <3> DEFINE a == [tp EXCEPT !.state = "Stopped", !.ready = @ \/ (tp.file /\ tp.written > 0)]
    <3>1. a.isQueued = tp.isQueued
      BY <1>1 DEF TapeRecord
    <3>2. tape' = [tape EXCEPT ![imm.tape] = a] \/ tape' = [tape EXCEPT ![imm.tape] = tp]
      BY <2>3 DEF WriteClose
    <3> HIDE DEF a, tp
    <3> QED
      BY <3>1, <3>2
  <2>4. CASE Dispatch
    <3>1. Handled(tp).isQueued = tp.isQueued
      BY <1>1, HandledWork DEF SameWork
    <3>2. tape' = [tape EXCEPT ![imm.tape] = Handled(tp)] \/ tape' = [tape EXCEPT ![imm.tape] = tp]
      BY <2>4 DEF Dispatch
    <3> HIDE DEF tp
    <3> QED
      BY <3>1, <3>2
  <2> QED
    BY <2>1, <2>2, <2>3, <2>4
<1> QED
  BY <1>1, <1>2

\* Every step keeps ports, sessions and stop requests in agreement.
LEMMA NextProtocol ==
  ASSUME IInv, IInv', ProtocolInv, [Next]_vars
  PROVE  ProtocolInv'
<1>1. ASSUME MessageStep
      PROVE  SameCalls
  BY <1>1, MessageStepEffect DEF SameButMessages, SameCalls
<1>2. CASE PluginStep
  <2>1. ASSUME NEW p \in Port, Hold(p) \/ Resume(p) \/ Update(p) \/ \E w \in BOOLEAN : Keep(p, w)
        PROVE  ProtocolInv'
    <3>1. UNCHANGED <<port, session, made, cap>>
      BY <2>1 DEF Hold, Resume, Update, Keep, Note
    <3>2. SameCalls
      BY <1>1, <2>1, KeepEffect DEF MessageStep, SameCalls, SameWork
    <3> QED
      BY <3>1, <3>2, FrameProtocol
  <2>2. ASSUME NEW p \in Port, ChunkIn(p)
        PROVE  ProtocolInv'
    BY <2>2, ChunkProtocol, UntouchedTape DEF SameCalls
  <2> QED
    BY <1>2, <2>1, <2>2, StartProtocol, StopProtocol, ExpireProtocol DEF PluginStep
<1>3. CASE CapStep
  <2>1. CASE ChunkQueue
    BY <2>1, ChunkProtocol, ChunkQueueEffect DEF SameCalls, SameTold
  <2>2. CASE StopDuration
    BY <2>2, StopStepProtocol, StopDurationEffect DEF SameCalls, SameWork
  <2>3. CASE CapSchedule
    BY <2>3, CapScheduleProtocol, CapScheduleEffect DEF SameCalls, SameTold
  <2>4. CASE StopEvent \/ StopMessage \/ Finalize
    BY <2>4, <1>1, StopStepProtocol, StopMessageProtocol, FinalizeProtocol DEF MessageStep
  <2>5. ASSUME NEW p \in Port, EndMetadata(p)
        PROVE  ProtocolInv'
    BY <2>5, <1>1, EndMetadataProtocol DEF MessageStep
  <2> QED
    BY <1>3, <2>1, <2>2, <2>3, <2>4, <2>5 DEF CapStep
<1>4. CASE ImmStep
  <2>1. SameCalls
    BY <1>4, ImmStepEffect DEF SameCalls, SameTold
  <2>2. UNCHANGED <<port, session, made, cap>>
    BY <1>4 DEF ImmStep, ImmAcquire, ImmPop, WritePop, WriteDisk, WriteClose, Dispatch, captureVars
  <2> QED
    BY <2>1, <2>2, FrameProtocol
<1>5. CASE ChainStep \/ DaemonStop \/ UNCHANGED vars
  <2>1. UNCHANGED <<port, session, made, cap>>
    BY <1>5 DEF ChainStep, ChainReport, ChainDrop, DaemonStop, captureVars, vars
  <2>2. SameCalls
    BY <1>1, <1>5, UntouchedTape DEF ChainStep, MessageStep, SameCalls
  <2> QED
    BY <2>1, <2>2, FrameProtocol
<1> QED
  BY <1>2, <1>3, <1>4, <1>5 DEF Next

-----------------------------------------------------------------------------
(* No wake-up is lost.                                                      *)

\* The queue of the immediate thread, and what must be in it.  A tape whose
\* callback is under way may wait for the end of it, but for the one message
\* that Finalize sends after the tape was scheduled.
Settling(t) == cap.tape = t /\ cap.pc # "final"
QueuedWork == \A t \in Tape : Unfinished(t) /\ ~Settling(t) => tape[t].isQueued \/ InHand(t) \/ Closing(t)
WorkInv == ImmQueueConsistent /\ QueuedWork

\* A step that leaves queue, semaphore, immediate thread and the work on every
\* tape alone, and gives no port an older tape.
LEMMA WorkFrame ==
  ASSUME IInv, WorkInv, UNCHANGED <<immQueue, immSem, imm>>,
         \A t \in Tape : SameWork(tape[t], tape'[t]),
         \A t \in Tape : port'[tape[t].port].tape = t => port[tape[t].port].tape = t,
         \A t \in Tape : Settling(t) => Settling(t)'
  PROVE  WorkInv'
<1>1. ImmQueueConsistent'
  BY DEF WorkInv, ImmQueueConsistent, SameWork
<1>2. ASSUME NEW t \in Tape
      PROVE  /\ Unfinished(t)' => Unfinished(t)
             /\ InHand(t) => InHand(t)'
             /\ Closing(t) => Closing(t)'
             /\ tape'[t].isQueued = tape[t].isQueued
  BY DEF SameWork, Unfinished, InHand, Closing
<1>3. QueuedWork'
  BY <1>2 DEF WorkInv, QueuedWork
<1> QED
  BY <1>1, <1>3 DEF WorkInv

\* Starting a session supersedes the port's tape: nothing of the port has to
\* end it any more, and what it still has to write was scheduled before.
LEMMA StartWork ==
  ASSUME IInv, ProtocolInv, WorkInv, NEW p \in Port, Start(p)
  PROVE  WorkInv'
<1> DEFINE new == made + 1
           old == port[p].tape
<1>1. /\ new \in Tape /\ idle /\ new # old
      /\ port' = [port EXCEPT ![p].capturing = TRUE, ![p].tape = new]
      /\ UNCHANGED <<cap, immQueue, immSem, imm>>
      /\ \A q \in Port : q # p => port'[q] = port[q]
      /\ port'[p].tape = new
  BY CaptureAssumption DEF Start, immVars, IInv, TypeOK, ReferencesExist, PortRecord, Tape
<1>2. /\ tape' = [t \in Tape |-> IF t = new THEN Pushed(NewTape(p), "start")
                                ELSE IF t = old THEN Superseded(tape[t]) ELSE tape[t]]
  BY DEF Start
<1>3. /\ tape[new] = NewTape(AnyPort)
      /\ tape'[new].queued = 0 /\ tape'[new].shouldStop = FALSE /\ tape'[new].isQueued = FALSE
  <2>1. tape[new] = NewTape(AnyPort)
    BY <1>1 DEF IInv, ReferencesExist, TypeOK
  <2>2. tape'[new] = Pushed(NewTape(p), "start")
    BY <1>1, <1>2
  <2> QED
    BY <2>1, <2>2 DEF Pushed, NewTape
<1>4. \A t \in Tape : /\ t # new => tape'[t].queued = tape[t].queued /\ tape'[t].isQueued = tape[t].isQueued
                                    /\ tape'[t].state = tape[t].state /\ tape'[t].port = tape[t].port
                      /\ t # new /\ t # old => tape'[t] = tape[t]
                      /\ t # new => (tape[t].shouldStop => tape'[t].shouldStop)
  BY <1>2 DEF IInv, TypeOK, TapeRecord, Superseded
<1>5. \A t \in Tape : tape'[t].isQueued <=> tape[t].isQueued
  BY <1>3, <1>4 DEF NewTape
<1> HIDE DEF new, old
<1>6. \A t \in Tape : ~Settling(t)
  BY <1>1 DEF ProtocolInv, CallbackShape, Settling, idle, Tape, NoTape
<1>7. ImmQueueConsistent'
  BY <1>1, <1>5 DEF WorkInv, ImmQueueConsistent
<1>8. ASSUME NEW t \in Tape, Unfinished(t)'
      PROVE  Unfinished(t) /\ t # new
  <2>1. t # new
    BY <1>3, <1>8 DEF Unfinished
  <2>2. CASE tape'[t].queued > 0 /\ tape'[t].state # "Stopped"
    BY <1>4, <2>1, <2>2 DEF Unfinished
  <2>3. CASE tape'[t].shouldStop /\ tape'[t].state # "Stopped" /\ port'[tape'[t].port].tape = t
    <3>1. tape[t].port \in Port /\ tape'[t].port = tape[t].port
      BY <1>4, <2>1 DEF IInv, TypeOK, TapeRecord
    <3>2. tape[t].port # p /\ port[tape[t].port].tape = t
      BY <1>1, <2>1, <2>3, <3>1
    <3>3. t # old
      BY <3>1, <3>2 DEF old, ProtocolInv, PortOwns, Tape, NoTape
    <3> QED
      BY <1>4, <2>1, <2>3, <3>2, <3>3 DEF Unfinished
  <2> QED
    BY <1>8, <2>1, <2>2, <2>3 DEF Unfinished
<1>9. \A t \in Tape : t # new => (InHand(t) => InHand(t)') /\ (Closing(t) => Closing(t)')
  BY <1>1, <1>4 DEF InHand, Closing
<1>10. QueuedWork'
  BY <1>5, <1>6, <1>8, <1>9 DEF WorkInv, QueuedWork
<1> QED
  BY <1>7, <1>10 DEF WorkInv

\* Chunks and stop requests wait for the end of their callback.
LEMMA CallbackWork ==
  ASSUME IInv, WorkInv, NEW x \in Tape, UNCHANGED <<immQueue, immSem, imm>>,
         \A t \in Tape : t # x => tape'[t] = tape[t] /\ ~Settling(t),
         tape'[x].isQueued = tape[x].isQueued,
         \A t \in Tape : t # x => (port'[tape[t].port].tape = t => port[tape[t].port].tape = t),
         Settling(x)'
  PROVE  WorkInv'
<1>1. ImmQueueConsistent'
  BY DEF WorkInv, ImmQueueConsistent
<1>2. ASSUME NEW t \in Tape, t # x
      PROVE  /\ Unfinished(t)' => Unfinished(t)
             /\ InHand(t) => InHand(t)'
             /\ Closing(t) => Closing(t)'
             /\ tape'[t].isQueued = tape[t].isQueued
  BY <1>2 DEF Unfinished, InHand, Closing
<1>3. QueuedWork'
  BY <1>2 DEF WorkInv, QueuedWork
<1> QED
  BY <1>1, <1>3 DEF WorkInv

\* The last call of the callback schedules the tape.
LEMMA CapScheduleWork ==
  ASSUME IInv, WorkInv, CapSchedule
  PROVE  WorkInv'
<1> DEFINE x == cap.tape
<1>1. /\ x \in Tape /\ UNCHANGED <<port, imm>> /\ immSem' = immSem + 1
      /\ tape'[x].isQueued
      /\ \A t \in Tape : t # x => tape'[t] = tape[t]
      /\ cap.pc = "schedule"
  BY CapScheduleEffect DEF CapSchedule, Schedule
<1>2. immSem \in Nat /\ immQueue \in Seq(Tape)
  BY DEF IInv, TypeOK
<1>3. ImmQueueConsistent'
  <2>1. CASE tape[x].isQueued
    <3>1. immQueue' = immQueue /\ tape' = tape
      BY <2>1 DEF CapSchedule, Schedule
    <3> QED
      BY <1>1, <1>2, <3>1 DEF WorkInv, ImmQueueConsistent
  <2>2. CASE ~tape[x].isQueued
    <3> DEFINE n == Len(immQueue)
    <3>1. immQueue' = Append(immQueue, x)
      BY <2>2 DEF CapSchedule, Schedule
    <3>2. /\ n \in Nat /\ DOMAIN immQueue = 1..n /\ DOMAIN immQueue' = 1..(n + 1)
          /\ immQueue'[n + 1] = x /\ \A i \in 1..n : immQueue'[i] = immQueue[i]
          /\ Len(immQueue') = n + 1
      BY <1>1, <1>2, <3>1
    <3> HIDE DEF n
    <3>3. \A i \in 1..n : immQueue[i] # x
      BY <1>1, <2>2, <3>2 DEF WorkInv, ImmQueueConsistent
    <3>4. \A t \in Tape : tape'[t].isQueued <=> \E i \in DOMAIN immQueue' : immQueue'[i] = t
      <4> SUFFICES ASSUME NEW t \in Tape
                   PROVE  tape'[t].isQueued <=> \E i \in DOMAIN immQueue' : immQueue'[i] = t
        OBVIOUS
      <4>1. CASE t = x
        BY <1>1, <3>2, <4>1
      <4>2. CASE t # x
        <5>1. tape[t].isQueued <=> \E i \in 1..n : immQueue[i] = t
          BY <3>2 DEF WorkInv, ImmQueueConsistent
        <5> QED
          BY <1>1, <3>2, <4>2, <5>1
      <4> QED
        BY <4>1, <4>2
    <3>5. \A i, j \in DOMAIN immQueue' : immQueue'[i] = immQueue'[j] => i = j
      BY <3>2, <3>3 DEF WorkInv, ImmQueueConsistent
    <3>6. Len(immQueue') <= immSem' + (IF imm'.pc = "pop" THEN 1 ELSE 0)
      <4>1. n <= immSem + (IF imm.pc = "pop" THEN 1 ELSE 0)
        BY DEF n, WorkInv, ImmQueueConsistent
      <4> QED
        BY <1>1, <1>2, <3>2, <4>1
    <3> QED
      BY <3>4, <3>5, <3>6 DEF ImmQueueConsistent
  <2> QED
    BY <2>1, <2>2
<1>4. QueuedWork'
  <2>1. ASSUME NEW t \in Tape, t # x
        PROVE  /\ Unfinished(t)' => Unfinished(t)
               /\ InHand(t) => InHand(t)'
               /\ Closing(t) => Closing(t)'
               /\ tape'[t].isQueued = tape[t].isQueued /\ ~Settling(t)
    BY <1>1, <2>1 DEF Unfinished, InHand, Closing, Settling
  <2> QED
    BY <1>1, <2>1 DEF WorkInv, QueuedWork
<1> QED
  BY <1>3, <1>4 DEF WorkInv

\* Pop takes the front tape out of the queue and into the thread's hands.
LEMMA ImmPopWork ==
  ASSUME IInv, WorkInv, ImmPop
  PROVE  WorkInv'
<1>0. /\ imm.pc = "pop" /\ UNCHANGED <<immSem, port, cap>>
      /\ immSem \in Nat /\ immQueue \in Seq(Tape) /\ \A t \in Tape : ~InHand(t) /\ ~Closing(t)
  BY DEF ImmPop, captureVars, IInv, TypeOK, InHand, Closing
<1>1. CASE immQueue = <<>>
  <2>1. UNCHANGED <<tape, immQueue>> /\ Len(immQueue) = 0
    BY <1>1 DEF ImmPop
  <2>2. ImmQueueConsistent'
    BY <1>0, <2>1 DEF WorkInv, ImmQueueConsistent
  <2>3. QueuedWork'
    BY <1>0, <2>1 DEF WorkInv, QueuedWork, Unfinished, Settling
  <2> QED
    BY <2>2, <2>3 DEF WorkInv
<1>2. CASE immQueue # <<>>
  <2> DEFINE n == Len(immQueue)
  <2>0. PICK x \in Tape : x = Head(immQueue)
    BY <1>0, <1>2
  <2>1. /\ n \in Nat /\ n > 0 /\ x = immQueue[1]
        /\ DOMAIN immQueue = 1..n /\ immQueue' = Tail(immQueue)
        /\ DOMAIN immQueue' = 1..(n - 1) /\ Len(immQueue') = n - 1
        /\ \A i \in 1..(n - 1) : immQueue'[i] = immQueue[i + 1]
    BY <1>0, <1>2, <2>0 DEF ImmPop
  <2>2. /\ tape' = [tape EXCEPT ![x].isQueued = FALSE]
        /\ imm' = [pc |-> "write", tape |-> x]
    BY <1>2, <2>0 DEF ImmPop
  <2>3. /\ \A t \in Tape : t # x => tape'[t] = tape[t]
        /\ tape'[x].isQueued = FALSE
    BY <2>1, <2>2 DEF IInv, TypeOK, TapeRecord
  <2>4. \A i \in 1..n : immQueue[i] = x => i = 1
    BY <2>1 DEF WorkInv, ImmQueueConsistent
  <2>9. n <= immSem + 1
    BY <1>0 DEF WorkInv, ImmQueueConsistent
  <2> HIDE DEF n
  <2>5. \A t \in Tape : tape'[t].isQueued <=> \E i \in DOMAIN immQueue' : immQueue'[i] = t
    <3> SUFFICES ASSUME NEW t \in Tape
                 PROVE  tape'[t].isQueued <=> \E i \in DOMAIN immQueue' : immQueue'[i] = t
      OBVIOUS
    <3>1. CASE t = x
      <4>1. \A i \in 1..(n - 1) : i + 1 \in 1..n /\ i + 1 # 1
        BY <2>1
      <4> QED
        BY <2>1, <2>3, <2>4, <3>1, <4>1
    <3>2. CASE t # x
      <4>1. tape[t].isQueued <=> \E i \in 1..n : immQueue[i] = t
        BY <2>1 DEF WorkInv, ImmQueueConsistent
      <4>2. (\E i \in 1..n : immQueue[i] = t) <=> \E i \in 1..(n - 1) : immQueue[i + 1] = t
        <5>1. \A i \in 1..n : immQueue[i] = t => i - 1 \in 1..(n - 1) /\ immQueue[(i - 1) + 1] = t
          BY <2>1, <3>2
        <5>2. \A i \in 1..(n - 1) : i + 1 \in 1..n
          BY <2>1
        <5> QED
          BY <5>1, <5>2
      <4>3. (\E i \in DOMAIN immQueue' : immQueue'[i] = t) <=> \E i \in 1..(n - 1) : immQueue[i + 1] = t
        BY <2>1
      <4>4. tape'[t] = tape[t]
        BY <2>3, <3>2
      <4> QED
        BY <4>1, <4>2, <4>3, <4>4
    <3> QED
      BY <3>1, <3>2
  <2>6. \A i, j \in DOMAIN immQueue' : immQueue'[i] = immQueue'[j] => i = j
    <3>1. \A i \in 1..(n - 1) : i + 1 \in 1..n
      BY <2>1
    <3>2. \A i, j \in 1..n : immQueue[i] = immQueue[j] => i = j
      BY <2>1 DEF WorkInv, ImmQueueConsistent
    <3> QED
      BY <2>1, <3>1, <3>2
  <2>7. ImmQueueConsistent'
    BY <1>0, <2>1, <2>2, <2>5, <2>6, <2>9 DEF ImmQueueConsistent
  <2>8. QueuedWork'
    <3>1. InHand(x)'
      BY <2>2 DEF InHand
    <3>2. ASSUME NEW t \in Tape, t # x
          PROVE  /\ Unfinished(t)' => Unfinished(t)
                 /\ tape'[t].isQueued = tape[t].isQueued /\ (Settling(t)' <=> Settling(t))
      BY <1>0, <2>3, <3>2 DEF Unfinished, Settling
    <3> QED
      BY <1>0, <2>3, <3>1, <3>2 DEF WorkInv, QueuedWork
  <2> QED
    BY <2>7, <2>8 DEF WorkInv
<1> QED
  BY <1>1, <1>2

\* The immediate thread takes the tape's mutex: the work stays in its hands.
LEMMA ImmAcquireWork ==
  ASSUME IInv, WorkInv, ImmAcquire
  PROVE  WorkInv'
<1>1. /\ UNCHANGED <<port, cap, tape, immQueue>> /\ imm.pc = "acquire" /\ imm'.pc = "pop"
      /\ immSem \in Nat /\ immSem > 0 /\ immSem' = immSem - 1
  BY DEF ImmAcquire, captureVars, IInv, TypeOK, ImmRecord
<1>2. ImmQueueConsistent'
  <2>1. Len(immQueue) <= immSem /\ Len(immQueue) \in Nat
    BY <1>1 DEF WorkInv, ImmQueueConsistent, IInv, TypeOK
  <2>2. Len(immQueue') <= immSem' + (IF imm'.pc = "pop" THEN 1 ELSE 0)
    BY <1>1, <2>1
  <2> QED
    BY <1>1, <2>2 DEF WorkInv, ImmQueueConsistent
<1>3. QueuedWork'
  BY <1>1 DEF WorkInv, QueuedWork, Unfinished, InHand, Closing, Settling
<1> QED
  BY <1>2, <1>3 DEF WorkInv

\* Writing: the tape in hand is looked at until nothing is left to write, and
\* closed if it was asked to stop; a chunk or a stop request that comes later
\* schedules it again.
LEMMA WriteWork ==
  ASSUME IInv, WorkInv, WritePop \/ WriteDisk \/ WriteClose \/ Dispatch
  PROVE  WorkInv'
<1>0. PICK x \in Tape : x = imm.tape
  BY CaptureAssumption DEF WritePop, WriteDisk, WriteClose, Dispatch, IInv, TypeOK, ReferencesExist, Tape
<1>1. /\ imm.tape = x /\ UNCHANGED <<port, cap, immQueue, immSem>>
      /\ imm.pc # "pop"
  BY <1>0 DEF WritePop, WriteDisk, WriteClose, Dispatch, captureVars
<1>2. /\ \A t \in Tape : t # x => tape'[t] = tape[t]
      /\ tape'[x].isQueued = tape[x].isQueued
      /\ tape'[x].shouldStop = tape[x].shouldStop /\ tape'[x].port = tape[x].port
  <2>1. \E r : tape' = [tape EXCEPT ![x] = r]
    BY <1>1 DEF WritePop, WriteDisk, WriteClose, Dispatch, IInv, TypeOK
  <2>2. \A t \in Tape : t # x => tape'[t] = tape[t]
    BY <1>1, <2>1 DEF IInv, TypeOK
  <2>3. ImmStep
    BY DEF ImmStep
  <2>4. SameTold(tape[x], tape'[x])
    BY <1>1, <2>3, ImmStepEffect
  <2>5. tape'[x].isQueued = tape[x].isQueued
    BY <1>1, WriteKeepsQueued
  <2> QED
    BY <2>2, <2>4, <2>5 DEF SameTold
<1>3. imm'.pc # "pop" /\ (imm'.tape = x \/ imm'.tape = NoTape)
  BY <1>1 DEF WritePop, WriteDisk, WriteClose, Dispatch, IInv, TypeOK, ImmRecord
<1>4. ImmQueueConsistent'
  BY <1>1, <1>2, <1>3 DEF WorkInv, ImmQueueConsistent
<1>5. \A t \in Tape : t # x => ~InHand(t) /\ ~Closing(t) /\ (Unfinished(t)' <=> Unfinished(t))
                              /\ tape'[t].isQueued = tape[t].isQueued
  BY <1>1, <1>2 DEF InHand, Closing, Unfinished
<1>6. Unfinished(x)' /\ ~Settling(x) => tape'[x].isQueued \/ InHand(x)' \/ Closing(x)'
  <2>1. CASE WritePop
    <3>1. CASE Writable(tape[x])
      <4>1. InHand(x)'
        BY <1>1, <2>1, <3>1 DEF WritePop, InHand, IInv, TypeOK, ImmRecord
      <4> QED
        BY <4>1
    <3>2. CASE ~Writable(tape[x])
      <4>1. tape' = tape /\ imm'.pc = "close" /\ imm'.tape = x
        BY <1>1, <2>1, <3>2 DEF WritePop, IInv, TypeOK, ImmRecord
      <4>2. Unfinished(x)' => tape[x].shouldStop
        BY <3>2, <4>1 DEF Writable, Unfinished
      <4> QED
        BY <4>1, <4>2 DEF Closing
    <3> QED
      BY <3>1, <3>2
  <2>2. CASE WriteDisk
    <3>1. InHand(x)'
      BY <1>1, <2>2 DEF WriteDisk, InHand, IInv, TypeOK, ImmRecord
    <3> QED
      BY <3>1
  <2>3. CASE WriteClose
    <3>1. CASE tape[x].shouldStop /\ tape[x].state # "Stopped"
      <4>1. tape'[x].state = "Stopped"
        BY <1>1, <2>3, <3>1 DEF WriteClose, IInv, TypeOK, TapeRecord
      <4> QED
        BY <4>1 DEF Unfinished
    <3>2. CASE ~(tape[x].shouldStop /\ tape[x].state # "Stopped")
      <4>1. tape' = tape
        BY <1>1, <2>3, <3>2 DEF WriteClose, IInv, TypeOK
      <4>2. Unfinished(x) => ~tape[x].shouldStop
        BY <3>2 DEF Unfinished
      <4>3. ~InHand(x)
        BY <2>3 DEF WriteClose, InHand
      <4>4. Unfinished(x)' => Unfinished(x)
        BY <1>1, <4>1 DEF Unfinished
      <4> QED
        BY <1>1, <4>1, <4>2, <4>3, <4>4 DEF WorkInv, QueuedWork, Closing
    <3> QED
      BY <3>1, <3>2
  <2>4. CASE Dispatch
    <3>1. ~InHand(x) /\ ~Closing(x)
      BY <2>4 DEF Dispatch, InHand, Closing
    <3>2. tape'[x].queued = tape[x].queued /\ tape'[x].state = tape[x].state
      BY <1>1, <2>4, HandledWork DEF Dispatch, IInv, TypeOK, SameWork
    <3>3. Unfinished(x)' => Unfinished(x)
      BY <1>1, <1>2, <3>2 DEF Unfinished
    <3> QED
      BY <1>1, <1>2, <3>1, <3>3 DEF WorkInv, QueuedWork
  <2> QED
    BY <2>1, <2>2, <2>3, <2>4
<1>7. QueuedWork'
  <2>1. \A t \in Tape : Settling(t)' <=> Settling(t)
    BY <1>1 DEF Settling
  <2> QED
    BY <1>1, <1>2, <1>5, <1>6, <2>1 DEF WorkInv, QueuedWork
<1> QED
  BY <1>4, <1>7 DEF WorkInv

\* What every step does to the work on the tapes.
LEMMA NextWork ==
  ASSUME IInv, ProtocolInv, WorkInv, [Next]_vars
  PROVE  WorkInv'
<1>1. /\ \A p \in Port : port[p].tape # NoTape => port[p].tape \in Tape
      /\ \A t \in Tape : tape[t].port \in Port /\ t # NoTape
      /\ idle => \A t \in Tape : ~Settling(t)
  <2>1. \A p \in Port : port[p].tape # NoTape => port[p].tape \in Tape
    BY DEF IInv, TypeOK, PortRecord
  <2>2. \A t \in Tape : tape[t].port \in Port
    BY DEF IInv, TypeOK, TapeRecord
  <2>3. \A t \in Tape : t # NoTape
    BY CaptureAssumption DEF Tape, NoTape
  <2>4. idle => \A t \in Tape : ~Settling(t)
    BY <2>3 DEF ProtocolInv, CallbackShape, Settling
  <2> QED
    BY <2>1, <2>2, <2>3, <2>4
<1>2. ASSUME MessageStep \/ tape' = tape
      PROVE  \A t \in Tape : SameWork(tape[t], tape'[t])
  <2>1. CASE tape' = tape
    BY <2>1 DEF SameWork
  <2>2. CASE MessageStep
    <3>1. AllQuiet
      BY <2>2, CaptureSideKept DEF MessageStep, PluginStep, CapStep, ChainStep, IInv, Kept
    <3> QED
      BY <2>2, <3>1, MessageStepEffect DEF AllQuiet, Quiet, SameButMessages, SameWork
  <2> QED
    BY <1>2, <2>1, <2>2
<1>3. CASE PluginStep
  <2>1. ASSUME NEW p \in Port, Hold(p) \/ Resume(p) \/ Update(p) \/ \E w \in BOOLEAN : Keep(p, w)
        PROVE  WorkInv'
    <3>1. UNCHANGED <<port, cap, immQueue, immSem, imm>>
      BY <2>1 DEF Hold, Resume, Update, Keep, Note, immVars
    <3>2. \A t \in Tape : SameWork(tape[t], tape'[t])
      BY <1>2, <2>1, KeepEffect DEF MessageStep
    <3> QED
      BY <3>1, <3>2, WorkFrame DEF Settling
  <2>2. ASSUME NEW p \in Port, ChunkIn(p)
        PROVE  WorkInv'
    <3>1. idle /\ UNCHANGED <<port, tape, immQueue, immSem, imm>>
      BY <2>2 DEF ChunkIn, immVars
    <3> QED
      BY <1>1, <1>2, <3>1, WorkFrame
  <2>3. ASSUME NEW p \in Port, NEW f \in BOOLEAN, idle, port[p].tape # NoTape, StopFlag(p, f)
        PROVE  WorkInv'
    <3>1. PICK x \in Tape : x = port[p].tape
      BY <1>1, <2>3
    <3>2. /\ UNCHANGED <<immQueue, immSem, imm>>
          /\ Settling(x)'
          /\ \A q \in Port : port'[q].tape = port[q].tape
      BY <2>3, <3>1 DEF StopFlag, immVars, Settling, PortStopped, IInv, TypeOK, PortRecord
    <3> QED
      BY <1>1, <2>3, <3>1, <3>2, StopFlagEffect, CallbackWork
  <2>4. ASSUME NEW p \in Port, Stop(p)
        PROVE  WorkInv'
    <3>1. CASE port[p].tape # NoTape
      BY <2>3, <2>4, <3>1 DEF Stop
    <3>2. CASE port[p].tape = NoTape
      <4>1. UNCHANGED <<port, tape, cap, immQueue, immSem, imm>>
        BY <2>4, <3>2 DEF Stop, immVars
      <4> QED
        BY <1>2, <4>1, WorkFrame DEF Settling
    <3> QED
      BY <3>1, <3>2
  <2>5. ASSUME NEW p \in Port, Expire(p)
        PROVE  WorkInv'
    <3>1. CASE port[p].needSendStop
      BY <2>3, <2>5, <3>1 DEF Expire, IInv, PortDue
    <3>2. CASE ~port[p].needSendStop
      <4>1. UNCHANGED <<tape, cap, immQueue, immSem, imm>> /\ port' = [port EXCEPT ![p] = NewPort]
        BY <2>5, <3>2 DEF Expire, immVars
      <4>2. \A t \in Tape : port'[tape[t].port].tape = t => port[tape[t].port].tape = t
        BY <1>1, <4>1 DEF NewPort, IInv, TypeOK
      <4> QED
        BY <1>2, <4>1, <4>2, WorkFrame DEF Settling
    <3> QED
      BY <3>1, <3>2
  <2> QED
    BY <1>3, <2>1, <2>2, <2>4, <2>5, StartWork DEF PluginStep
<1>4. CASE CapStep
  <2>1. CASE ChunkQueue
    <3>1. PICK x \in Tape : x = cap.tape
      BY <2>1, ChunkQueueEffect
    <3>2. /\ UNCHANGED <<port, immQueue, immSem, imm>>
          /\ Settling(x)' /\ \A t \in Tape : t # x => ~Settling(t)
      BY <2>1, <3>1 DEF ChunkQueue, immVars, Settling, IInv, TypeOK, CapRecord
    <3>3. tape'[x].isQueued = tape[x].isQueued
      BY <2>1, <3>1, ChunkQueueEffect
    <3> QED
      BY <2>1, <3>1, <3>2, <3>3, ChunkQueueEffect, CallbackWork
  <2>2. CASE StopDuration \/ StopEvent \/ StopMessage \/ Finalize
    <3>1. /\ UNCHANGED <<immQueue, immSem, imm>>
          /\ \A t \in Tape : Settling(t) => Settling(t)'
      BY <2>2 DEF StopDuration, StopEvent, StopMessage, Finalize, immVars, Settling, IInv, TypeOK, CapRecord
    <3>2. \A t \in Tape : port'[tape[t].port].tape = t => port[tape[t].port].tape = t
      <4>1. port \in [Port -> PortRecord] /\ cap.port \in Port
        BY DEF IInv, TypeOK, CapRecord
      <4>2. \A q \in Port : port'[q].tape \in {port[q].tape, NoTape}
        <5>1. CASE StopDuration \/ StopEvent
          BY <5>1 DEF StopDuration, StopEvent
        <5>2. CASE StopMessage
          BY <4>1, <5>2 DEF StopMessage, PortRecord
        <5>3. CASE Finalize
          BY <4>1, <5>3 DEF Finalize, NewPort
        <5> QED
          BY <2>2, <5>1, <5>2, <5>3
      <4> QED
        BY <1>1, <4>2
    <3>3. \A t \in Tape : SameWork(tape[t], tape'[t])
      BY <1>2, <2>2, StopDurationEffect DEF MessageStep
    <3> QED
      BY <3>1, <3>2, <3>3, WorkFrame
  <2>3. ASSUME NEW p \in Port, EndMetadata(p)
        PROVE  WorkInv'
    <3>1. /\ UNCHANGED <<cap, immQueue, immSem, imm>>
          /\ \A q \in Port : port'[q].tape = port[q].tape
      BY <2>3 DEF EndMetadata, StartReported, immVars, IInv, TypeOK, PortRecord
    <3> QED
      BY <1>1, <1>2, <2>3, <3>1, WorkFrame DEF MessageStep, Settling
  <2> QED
    BY <1>4, <2>1, <2>2, <2>3, CapScheduleWork DEF CapStep
<1>5. CASE ImmStep
  BY <1>5, ImmAcquireWork, ImmPopWork, WriteWork DEF ImmStep
<1>6. CASE ChainStep \/ DaemonStop \/ UNCHANGED vars
  <2>1. UNCHANGED <<port, cap, immQueue, immSem, imm>>
    BY <1>6 DEF ChainStep, ChainReport, ChainDrop, DaemonStop, captureVars, immVars, vars
  <2>2. \A t \in Tape : SameWork(tape[t], tape'[t])
    BY <1>2, <1>6, UntouchedTape DEF ChainStep, MessageStep
  <2> QED
    BY <2>1, <2>2, WorkFrame DEF Settling
<1> QED
  BY <1>3, <1>4, <1>5, <1>6 DEF Next

-----------------------------------------------------------------------------
(* The decision on a recording is not overtaken by a later event.           *)

\* What was closed was wanted, and the decision about it stands.
FateInv == KeptWritten /\ OnlyWantedHandled

\* A step that does not touch the files, nor the wish to keep one that is closed.
LEMMA FateFrame ==
  ASSUME FateInv, AllQuiet, chain' \subseteq chain, chain \subseteq Tape,
         \A t \in Tape : tape[t].shouldStop => tape'[t].shouldStop,
         \A t \in Tape : tape[t].state = "Stopped" => tape'[t].keep = tape[t].keep
  PROVE  FateInv'
<1>1. KeptWritten'
  BY DEF FateInv, KeptWritten, AllQuiet, Quiet
<1>2. OnlyWantedHandled'
  BY DEF FateInv, OnlyWantedHandled, AllQuiet, Quiet
<1> QED
  BY <1>1, <1>2 DEF FateInv

\* Keep events come while the session runs, and then the port's tape is not
\* closed: it was not even asked to stop.
LEMMA RunningNotStopped ==
  ASSUME IInv, ProtocolInv, NEW p \in Port, idle, session[p] # "idle", port[p].tape # NoTape
  PROVE  ~tape[port[p].tape].shouldStop
BY DEF ProtocolInv, SessionAgrees, CallbackShape, Stopping, idle

\* Every step keeps the decisions already taken; only AudioTape::Write takes new ones.
LEMMA NextFate ==
  ASSUME IInv, ProtocolInv, FateInv, [Next]_vars
  PROVE  FateInv'
<1>1. chain \subseteq Tape /\ \A t \in Tape : tape[t] \in TapeRecord
  BY DEF IInv, TypeOK
<1>2. CASE PluginStep \/ CapStep \/ ChainStep \/ DaemonStop \/ UNCHANGED vars
  <2>1. AllQuiet
    BY <1>2, CaptureSideKept DEF IInv, Kept
  <2>2. chain' \subseteq chain
    BY <1>2 DEF PluginStep, CapStep, ChainStep, Start, Stop, StopFlag, ChunkIn, Expire, Hold, Resume, Update, Keep,
         Note, ChunkQueue, StopDuration, StopEvent, StopMessage, CapSchedule, Finalize, EndMetadata,
         ChainReport, ChainDrop, DaemonStop, immVars, vars
  <2>3. \A t \in Tape : /\ tape[t].shouldStop => tape'[t].shouldStop
                        /\ tape[t].state = "Stopped" => tape'[t].keep = tape[t].keep
    <3>1. ASSUME MessageStep \/ tape' = tape
          PROVE  \A t \in Tape : (tape[t].shouldStop => tape'[t].shouldStop) /\ tape'[t].keep = tape[t].keep
      BY <3>1, MessageStepEffect DEF SameButMessages
    <3>2. ASSUME NEW p \in Port, Start(p)
          PROVE  \A t \in Tape : /\ tape[t].shouldStop => tape'[t].shouldStop
                                 /\ tape[t].state = "Stopped" => tape'[t].keep = tape[t].keep
      <4>1. tape' = [t \in Tape |-> IF t = made + 1 THEN Pushed(NewTape(p), "start")
                                   ELSE IF t = port[p].tape THEN Superseded(tape[t]) ELSE tape[t]]
        BY <3>2 DEF Start
      <4>2. tape[made + 1] = NewTape(AnyPort)
        <5>1. made + 1 \in Tape /\ made + 1 > made
          BY <3>2, CaptureAssumption DEF Start, Tape, IInv, TypeOK
        <5> QED
          BY <5>1 DEF IInv, ReferencesExist
      <4>3. \A t \in Tape : Superseded(tape[t]).shouldStop /\ Superseded(tape[t]).keep = tape[t].keep
        BY <1>1 DEF Superseded, TapeRecord
      <4> QED
        BY <4>1, <4>2, <4>3 DEF NewTape
    <3>3. ASSUME NEW p \in Port, NEW w \in BOOLEAN, Keep(p, w)
          PROVE  \A t \in Tape : /\ tape[t].shouldStop => tape'[t].shouldStop
                                 /\ tape[t].state = "Stopped" => tape'[t].keep = tape[t].keep
      <4>1. idle /\ session[p] # "idle" /\ port[p].tape # NoTape
        BY <3>3 DEF Keep, Note, Running
      <4>2. tape[port[p].tape].state # "Stopped"
        BY <3>3, <4>1, KeepEffect, RunningNotStopped DEF FateInv, KeptWritten
      <4> QED
        BY <3>3, <4>2, KeepEffect DEF SameWork
    <3>4. ASSUME NEW p \in Port, NEW f \in BOOLEAN, port[p].tape # NoTape, StopFlag(p, f)
          PROVE  \A t \in Tape : (tape[t].shouldStop => tape'[t].shouldStop) /\ tape'[t].keep = tape[t].keep
      BY <3>4, StopFlagEffect
    <3>5. ASSUME ChunkQueue \/ CapSchedule \/ StopDuration
          PROVE  \A t \in Tape : (tape[t].shouldStop => tape'[t].shouldStop) /\ tape'[t].keep = tape[t].keep
      BY <3>5, ChunkQueueEffect, CapScheduleEffect, StopDurationEffect DEF SameTold, SameButMessages
    <3>6. CASE PluginStep
      <4>1. ASSUME NEW p \in Port, Stop(p)
            PROVE  tape' = tape \/ (port[p].tape # NoTape /\ StopFlag(p, FALSE))
        BY <4>1 DEF Stop
      <4>2. ASSUME NEW p \in Port, Expire(p)
            PROVE  tape' = tape \/ (port[p].tape # NoTape /\ StopFlag(p, TRUE))
        BY <4>2 DEF Expire, IInv, PortDue
      <4>3. ASSUME NEW p \in Port, ChunkIn(p)
            PROVE  tape' = tape
        BY <4>3 DEF ChunkIn
      <4> QED
        BY <3>1, <3>2, <3>3, <3>4, <3>6, <4>1, <4>2, <4>3 DEF PluginStep, MessageStep
    <3>7. CASE CapStep
      BY <3>1, <3>5, <3>7 DEF CapStep, MessageStep
    <3>8. CASE ChainStep \/ DaemonStop \/ UNCHANGED vars
      BY <3>1, <3>8, UntouchedTape DEF ChainStep, MessageStep
    <3> QED
      BY <1>2, <3>6, <3>7, <3>8
  <2> QED
    BY <1>1, <2>1, <2>2, <2>3, FateFrame
<1>3. CASE ImmAcquire \/ ImmPop \/ WritePop
  <2>1. AllQuiet
    BY <1>3, ImmAcquireKept, ImmPopKept, WritePopKept DEF IInv, Kept
  <2>2. chain' = chain
    BY <1>3 DEF ImmAcquire, ImmPop, WritePop
  <2>3. \A t \in Tape : SameTold(tape[t], tape'[t])
    BY <1>3, ImmStepEffect DEF ImmStep
  <2> QED
    BY <1>1, <2>1, <2>2, <2>3, FateFrame DEF SameTold
<1>4. CASE WriteDisk
  <2>1. /\ imm.tape \in Tape /\ chain' = chain /\ tape[imm.tape].state # "Stopped"
        /\ tape[imm.tape].handed = 0 /\ ~tape[imm.tape].ready
    <3>1. imm.tape \in Tape /\ chain' = chain
      BY <1>4, CaptureAssumption DEF WriteDisk, IInv, TypeOK, ReferencesExist, Tape
    <3> QED
      BY <1>4, <3>1 DEF WriteDisk, IInv, HandledAfterClose
  <2>2. PICK r : /\ tape' = [tape EXCEPT ![imm.tape] = r] /\ r.state = "Active"
                 /\ ~r.ready /\ r.handed = 0
    <3> DEFINE tp == [tape[imm.tape] EXCEPT !.state = "Active", !.file = TRUE]
    <3>1. tp.state = "Active" /\ ~tp.ready /\ tp.handed = 0
      BY <1>1, <2>1 DEF TapeRecord
    <3>2. /\ [tp EXCEPT !.written = @ + 1].state = "Active" /\ ~[tp EXCEPT !.written = @ + 1].ready
          /\ [tp EXCEPT !.written = @ + 1].handed = 0
      BY <1>1, <2>1 DEF TapeRecord
    <3>3. tape' = [tape EXCEPT ![imm.tape] = tp] \/ tape' = [tape EXCEPT ![imm.tape] = [tp EXCEPT !.written = @ + 1]]
      BY <1>4 DEF WriteDisk
    <3> HIDE DEF tp
    <3> QED
      BY <3>1, <3>2, <3>3
  <2>3. tape'[imm.tape] = r /\ \A t \in Tape : t # imm.tape => tape'[t] = tape[t]
    BY <2>1, <2>2 DEF IInv, TypeOK
  <2>4. KeptWritten'
    BY <1>1, <2>1, <2>2, <2>3 DEF FateInv, KeptWritten
  <2>5. OnlyWantedHandled'
    BY <2>1, <2>2, <2>3 DEF FateInv, OnlyWantedHandled
  <2> QED
    BY <2>4, <2>5 DEF FateInv
<1>5. CASE WriteClose
  <2>1. imm.tape \in Tape /\ chain' = chain
    BY <1>5, CaptureAssumption DEF WriteClose, IInv, TypeOK, ReferencesExist, Tape
  <2>2. CASE tape' = tape
    BY <1>1, <2>1, <2>2 DEF FateInv, KeptWritten, OnlyWantedHandled
  <2>3. CASE tape' # tape
    <3> DEFINE tp == tape[imm.tape]
               r == [tp EXCEPT !.state = "Stopped", !.ready = @ \/ (tp.file /\ tp.written > 0)]
    <3>1. tape' = [tape EXCEPT ![imm.tape] = r] /\ tp.shouldStop /\ tp.state # "Stopped"
      BY <1>5, <2>1, <2>3 DEF WriteClose, IInv, TypeOK
    <3>2. tp.handed = 0 /\ ~tp.ready
      BY <2>1, <3>1 DEF IInv, HandledAfterClose
    <3>3. /\ r.shouldStop /\ r.written = tp.written /\ r.handed = tp.handed /\ r.state = "Stopped"
          /\ r.ready => tp.written > 0
      BY <1>1, <2>1, <3>1, <3>2 DEF TapeRecord
    <3> HIDE DEF r
    <3>4. tape'[imm.tape] = r /\ \A t \in Tape : t # imm.tape => tape'[t] = tape[t]
      BY <2>1, <3>1 DEF IInv, TypeOK
    <3>5. KeptWritten'
      BY <1>1, <2>1, <3>3, <3>4 DEF FateInv, KeptWritten
    <3>6. OnlyWantedHandled'
      BY <2>1, <3>2, <3>3, <3>4 DEF FateInv, OnlyWantedHandled
    <3> QED
      BY <3>5, <3>6 DEF FateInv
  <2> QED
    BY <2>2, <2>3
<1>6. CASE Dispatch
  <2> DEFINE tp == tape[imm.tape]
  <2>1. imm.tape \in Tape
    BY <1>6, CaptureAssumption DEF Dispatch, IInv, TypeOK, ReferencesExist, Tape
  <2>2. CASE ~tp.ready
    <3>1. tape' = tape /\ chain' = chain
      BY <1>6, <2>1, <2>2 DEF Dispatch, IInv, TypeOK
    <3> QED
      BY <1>1, <3>1 DEF FateInv, KeptWritten, OnlyWantedHandled
  <2>3. CASE tp.ready
    <3>1. /\ tape' = [tape EXCEPT ![imm.tape] = Handled(tp)]
          /\ chain' \subseteq chain \cup {imm.tape}
      BY <1>6, <2>3 DEF Dispatch
    <3>2. tp.state = "Stopped" /\ tp.written > 0 /\ tp.shouldStop /\ tp.handed = 0
      BY <2>1, <2>3 DEF IInv, HandledAfterClose, FateInv, KeptWritten
    <3>3. /\ Handled(tp).state = "Stopped" /\ Handled(tp).written = tp.written
          /\ Handled(tp).shouldStop /\ ~Handled(tp).ready
          /\ Handled(tp).handed > 0 => Handled(tp).keep
      BY <1>1, <2>1, <3>2 DEF TapeRecord, Handled, Discarded
    <3>4. tape'[imm.tape] = Handled(tp) /\ \A t \in Tape : t # imm.tape => tape'[t] = tape[t]
      BY <2>1, <3>1 DEF IInv, TypeOK
    <3> HIDE DEF tp
    <3>5. KeptWritten'
      BY <1>1, <2>1, <3>1, <3>2, <3>3, <3>4 DEF FateInv, KeptWritten
    <3>6. OnlyWantedHandled'
      BY <2>1, <3>2, <3>3, <3>4 DEF FateInv, OnlyWantedHandled
    <3> QED
      BY <3>5, <3>6 DEF FateInv
  <2> QED
    BY <2>2, <2>3
<1> QED
  BY <1>2, <1>3, <1>4, <1>5, <1>6 DEF Next, ImmStep

-----------------------------------------------------------------------------
(* The order of the messages of a tape.                                     *)

\* Message m is not among s; nothing but ready and blank reports follows a stop; a start
\* message comes first, if at all.
HasNo(s, m) == \A i \in DOMAIN s : s[i] # m
NothingAfterStop(s) == \A i, j \in DOMAIN s : s[i] = "stop" /\ i < j => s[j] \in {"ready", "blank"}
Begun(s) == s # <<>> /\ \A i \in DOMAIN s : s[i] = "start" => i = 1

\* The life of a tape's messages: its start event is stored; it was sent and
\* there is no stop event yet; that is stored; it was sent.
Fresh(tp) == tp.toSend = <<"start">> /\ tp.msgs = <<>>
Talking(tp) == tp.toSend = <<>> /\ Begun(tp.msgs) /\ HasNo(tp.msgs, "stop")
Ending(tp) == tp.toSend = <<"stop">> /\ Begun(tp.msgs) /\ HasNo(tp.msgs, "stop")
Ended(tp) == tp.toSend = <<>> /\ Begun(tp.msgs) /\ NothingAfterStop(tp.msgs)

\* Who may have brought a tape where it is: the stop event is stored between
\* StopEvent and StopMessage, when the chain's threads may take it from there.
Told(t) ==
  \/ Talking(tape[t])
  \/ Ending(tape[t]) /\ tape[t].shouldStop /\ cap.tape = t /\ cap.pc = "message"
  \/ Ended(tape[t]) /\ tape[t].shouldStop /\ (cap.tape = t => cap.pc \notin {"duration", "event"})

\* Every tape is in one of the four stages, and the one the callback or the chain
\* needs it in.
MessagesInv ==
  /\ \A t \in 1..made :
       \/ /\ Fresh(tape[t]) /\ ~tape[t].shouldStop
          /\ session[tape[t].port] = "starting" /\ port[tape[t].port].tape = t
       \/ Told(t)
  /\ \A p \in Port : session[p] = "starting" => port[p].tape \in 1..made /\ Fresh(tape[port[p].tape])

\* The last message is the one appended; the others stay where they were.
LEMMA AppendMsg ==
  ASSUME NEW s \in Seq(Stage), NEW m \in Stage
  PROVE  /\ DOMAIN Append(s, m) = 1..(Len(s) + 1) /\ DOMAIN s = 1..Len(s) /\ Len(s) \in Nat
         /\ Append(s, m)[Len(s) + 1] = m /\ \A i \in DOMAIN s : Append(s, m)[i] = s[i]
         /\ Append(s, m) # <<>>
OBVIOUS

\* What GetMessage and AddMessage make of it.
LEMMA ReportedStages ==
  ASSUME NEW tp \in TapeRecord
  PROVE  /\ Fresh(tp) => Talking(Reported(tp))
         /\ Talking(tp) => Talking(Reported(tp))
         /\ Ending(tp) => Ended(Reported(tp))
         /\ Ended(tp) => Ended(Reported(tp))
<1> DEFINE m == NextStage(tp)
           s == tp.msgs
<1>1. /\ s \in Seq(Stage) /\ tp.toSend \in Seq(Event)
      /\ Reported(tp).msgs = Append(s, m)
      /\ Reported(tp).toSend = IF tp.toSend = <<>> THEN <<>> ELSE Tail(tp.toSend)
  BY DEF TapeRecord, Reported
<1>2. /\ tp.toSend = <<>> => m \in {"ready", "blank"}
      /\ tp.toSend = <<"start">> => m = "start"
      /\ tp.toSend = <<"stop">> => m = "stop"
  BY DEF NextStage
<1>3. /\ tp.toSend = <<>> => Reported(tp).toSend = <<>>
      /\ tp.toSend = <<"start">> => Reported(tp).toSend = <<>>
      /\ tp.toSend = <<"stop">> => Reported(tp).toSend = <<>>
  <2>1. Tail(<<"start">>) = <<>> /\ Tail(<<"stop">>) = <<>>
    OBVIOUS
  <2> QED
    BY <1>1, <2>1
<1> HIDE DEF m, s
<1>4. ASSUME Fresh(tp)
      PROVE  Talking(Reported(tp))
  <2>1. m = "start" /\ s = <<>> /\ m \in Stage
    BY <1>2, <1>4 DEF Fresh, s, Stage, Event
  <2>2. Begun(Append(s, m)) /\ HasNo(Append(s, m), "stop")
    BY <1>1, <2>1, AppendMsg DEF Begun, HasNo
  <2> QED
    BY <1>1, <1>3, <1>4, <2>2 DEF Fresh, Talking
<1>5. ASSUME Talking(tp)
      PROVE  Talking(Reported(tp))
  <2>1. m \in {"ready", "blank"} /\ m \in Stage /\ Begun(s) /\ HasNo(s, "stop")
    BY <1>2, <1>5 DEF Talking, s, Stage
  <2>2. Begun(Append(s, m)) /\ HasNo(Append(s, m), "stop")
    BY <1>1, <2>1, AppendMsg DEF Begun, HasNo
  <2> QED
    BY <1>1, <1>3, <1>5, <2>2 DEF Talking
<1>6. ASSUME Ending(tp)
      PROVE  Ended(Reported(tp))
  <2>1. m = "stop" /\ m \in Stage /\ Begun(s) /\ HasNo(s, "stop")
    BY <1>2, <1>6 DEF Ending, s, Stage, Event
  <2>2. Begun(Append(s, m))
    BY <1>1, <2>1, AppendMsg DEF Begun
  <2>3. NothingAfterStop(Append(s, m))
    BY <1>1, <2>1, AppendMsg DEF NothingAfterStop, HasNo
  <2> QED
    BY <1>1, <1>3, <1>6, <2>2, <2>3 DEF Ending, Ended
<1>7. ASSUME Ended(tp)
      PROVE  Ended(Reported(tp))
  <2>1. m \in {"ready", "blank"} /\ m \in Stage /\ Begun(s) /\ NothingAfterStop(s)
    BY <1>2, <1>7 DEF Ended, s, Stage
  <2>2. Begun(Append(s, m))
    BY <1>1, <2>1, AppendMsg DEF Begun
  <2>3. NothingAfterStop(Append(s, m))
    BY <1>1, <2>1, AppendMsg DEF NothingAfterStop
  <2> QED
    BY <1>1, <1>3, <1>7, <2>2, <2>3 DEF Ended
<1> QED
  BY <1>4, <1>5, <1>6, <1>7

\* An event that is sent at once, or stored as the stop event.
LEMMA PushedStages ==
  ASSUME NEW tp \in TapeRecord, Talking(tp)
  PROVE  /\ Ending(Pushed(tp, "stop"))
         /\ \A e \in {"hold", "resume", "update"} : Talking(Sent(tp, e))
<1>1. Ending(Pushed(tp, "stop"))
  BY DEF TapeRecord, Pushed, Talking, Ending
<1>2. ASSUME NEW e \in {"hold", "resume", "update"}
      PROVE  Talking(Sent(tp, e))
  <2> DEFINE a == Pushed(tp, e)
             s == tp.msgs
  <2>1. s \in Seq(Stage) /\ e \in Stage /\ Begun(s) /\ HasNo(s, "stop")
    BY DEF TapeRecord, Stage, Event, Talking
  <2>2. a.toSend = <<e>> /\ a.msgs = s /\ NextStage(a) = e
    BY DEF TapeRecord, Pushed, Talking, NextStage
  <2>3. Sent(tp, e).toSend = <<>> /\ Sent(tp, e).msgs = Append(s, e)
    <3>1. a \in TapeRecord
      BY PushedQuiet DEF Event
    <3>2. Tail(<<e>>) = <<>> /\ <<e>> # <<>>
      OBVIOUS
    <3> HIDE DEF a
    <3>3. Reported(a).toSend = <<>> /\ Reported(a).msgs = Append(s, e)
      BY <2>2, <3>1, <3>2 DEF TapeRecord, Reported
    <3> QED
      BY <3>3 DEF Sent, a
  <2> HIDE DEF s
  <2>4. Begun(Append(s, e)) /\ HasNo(Append(s, e), "stop")
    BY <2>1, AppendMsg DEF Begun, HasNo
  <2> QED
    BY <2>3, <2>4 DEF Talking
<1> QED
  BY <1>1, <1>2

\* The messages of every tape but x stay as they are; x is one of those that
\* have begun, or none.
LEMMA MessagesFrame ==
  ASSUME MessagesInv, TypeOK, made' = made, NEW x,
         \A t \in 1..made : t # x =>
           /\ tape'[t].toSend = tape[t].toSend /\ tape'[t].msgs = tape[t].msgs
           /\ tape'[t].port = tape[t].port /\ tape'[t].shouldStop = tape[t].shouldStop
           /\ cap.tape = t /\ cap.pc = "message" => cap'.tape = t /\ cap'.pc = "message"
           /\ cap'.tape = t /\ cap'.pc \in {"duration", "event"} => cap.tape = t /\ cap.pc \in {"duration", "event"},
         x \in 1..made => Told(x)',
         \A p \in Port :
           /\ session'[p] = "starting" => session[p] = "starting" /\ port[p].tape # x
           /\ session[p] = "starting" /\ port[p].tape # x =>
                session'[p] = "starting" /\ port'[p].tape = port[p].tape
  PROVE  MessagesInv'
<1>1. \A t \in 1..made : tape[t].port \in Port
  BY CaptureAssumption DEF TypeOK, TapeRecord, Tape
<1>2. ASSUME NEW t \in 1..made, t # x, Fresh(tape[t]), ~tape[t].shouldStop,
             session[tape[t].port] = "starting", port[tape[t].port].tape = t
      PROVE  /\ Fresh(tape[t])' /\ ~tape'[t].shouldStop
             /\ session'[tape'[t].port] = "starting" /\ port'[tape'[t].port].tape = t
  BY <1>1, <1>2 DEF Fresh
<1>3. ASSUME NEW t \in 1..made, t # x, Told(t)
      PROVE  Told(t)'
  BY <1>3 DEF Told, Talking, Ending, Ended
<1>4. ASSUME NEW p \in Port, session'[p] = "starting"
      PROVE  port'[p].tape \in 1..made /\ Fresh(tape[port[p].tape])'
  <2>1. /\ session[p] = "starting" /\ port[p].tape # x /\ port'[p].tape = port[p].tape
        /\ port[p].tape \in 1..made /\ Fresh(tape[port[p].tape])
    BY <1>4 DEF MessagesInv
  <2> QED
    BY <2>1 DEF Fresh
<1> QED
  BY <1>2, <1>3, <1>4 DEF MessagesInv

\* A step after which every tape says what it said before.
LEMMA QuietMessages ==
  ASSUME MessagesInv, TypeOK, made' = made,
         \A t \in 1..made : SameTold(tape[t], tape'[t]),
         \A t \in 1..made :
           /\ cap.tape = t /\ cap.pc = "message" => cap'.tape = t /\ cap'.pc = "message"
           /\ cap'.tape = t /\ cap'.pc \in {"duration", "event"} => cap.tape = t /\ cap.pc \in {"duration", "event"},
         \A p \in Port :
           /\ session'[p] = "starting" <=> session[p] = "starting"
           /\ session[p] = "starting" => port'[p].tape = port[p].tape
  PROVE  MessagesInv'
<1>1. \A p \in Port : session[p] = "starting" => port[p].tape \in 1..made
  BY DEF MessagesInv
<1>2. NoTape \notin 1..made
  BY DEF NoTape
<1> QED
  BY <1>1, <1>2, MessagesFrame DEF SameTold

\* The tape of a running session has begun and is not being stopped.
LEMMA RunningTalks ==
  ASSUME IInv, ProtocolInv, MessagesInv, NEW p \in Port, idle,
         session[p] = "started", port[p].tape # NoTape
  PROVE  port[p].tape \in 1..made /\ Talking(tape[port[p].tape]) /\ tape[port[p].tape].port = p
<1>1. ~tape[port[p].tape].shouldStop
  BY RunningNotStopped
<1>2. tape[port[p].tape].port = p
  BY DEF ProtocolInv, PortOwns
<1>3. port[p].tape \in 1..made
  BY DEF IInv, TypeOK, ReferencesExist, NoTape
<1> QED
  BY <1>1, <1>2, <1>3 DEF MessagesInv, Told

\* StartCapture stores the start event of the new tape and stops the old one.
LEMMA StartMessages ==
  ASSUME IInv, IInv', ProtocolInv, MessagesInv, SendsEndMetadata, NEW p \in Port, Start(p)
  PROVE  MessagesInv'
<1> DEFINE old == port[p].tape
<1>1. PICK new \in Tape : new = made + 1
  BY CaptureAssumption DEF Start, IInv, TypeOK, Tape
<1>2. /\ made' = new /\ made \in Nat /\ idle /\ cap' = cap
      /\ session[p] # "starting"
      /\ port'[p].tape = new /\ session'[p] = "starting"
      /\ \A q \in Port : q # p => port'[q] = port[q] /\ session'[q] = session[q]
  BY <1>1 DEF Start, Running, IInv, TypeOK, PortRecord
<1>3. tape' = [t \in Tape |-> IF t = new THEN Pushed(NewTape(p), "start")
                             ELSE IF t = old THEN Superseded(tape[t]) ELSE tape[t]]
  BY <1>1 DEF Start
<1>4. Fresh(tape[new])' /\ ~tape'[new].shouldStop /\ tape'[new].port = p
  <2>1. Fresh(Pushed(NewTape(p), "start")) /\ ~Pushed(NewTape(p), "start").shouldStop
        /\ Pushed(NewTape(p), "start").port = p
    BY DEF Pushed, NewTape, Fresh
  <2>2. tape'[new] = Pushed(NewTape(p), "start")
    BY <1>3
  <2> QED
    BY <2>1, <2>2 DEF Fresh
<1>5. /\ \A t \in 1..made : t \in Tape /\ t # new /\ tape[t].port \in Port
      /\ \A t \in 1..made' : t = new \/ t \in 1..made
      /\ 1..made \subseteq 1..made' /\ new \in 1..made'
  <2>1. made \in 0..MaxTapes /\ new = made + 1 /\ made' = made + 1 /\ MaxTapes \in Nat
    BY <1>1, <1>2, CaptureAssumption DEF IInv, TypeOK
  <2>2. \A t \in 1..made : t \in Tape /\ t # new
    BY <2>1 DEF Tape
  <2>3. \A t \in 1..made' : t = new \/ t \in 1..made
    BY <2>1
  <2>4. 1..made \subseteq 1..made' /\ new \in 1..made'
    BY <2>1
  <2> QED
    BY <2>2, <2>3, <2>4 DEF IInv, TypeOK, TapeRecord
<1>6. \A t \in 1..made : /\ tape'[t].toSend = tape[t].toSend /\ tape'[t].msgs = tape[t].msgs
                         /\ tape'[t].port = tape[t].port
                         /\ tape[t].shouldStop => tape'[t].shouldStop
                         /\ t # old => tape'[t] = tape[t]
  <2>1. \A t \in 1..made : t # old => tape'[t] = tape[t]
    BY <1>3, <1>5
  <2>2. \A t \in 1..made : t = old => tape'[t] = Superseded(tape[t])
    BY <1>3, <1>5
  <2>3. \A tp \in TapeRecord : /\ Superseded(tp).toSend = tp.toSend /\ Superseded(tp).msgs = tp.msgs
                               /\ Superseded(tp).port = tp.port /\ Superseded(tp).shouldStop
    BY DEF TapeRecord, Superseded
  <2> QED
    BY <1>5, <2>1, <2>2, <2>3 DEF IInv, TypeOK
<1>7. ASSUME NEW t \in 1..made, Fresh(tape[t]), ~tape[t].shouldStop,
             session[tape[t].port] = "starting", port[tape[t].port].tape = t
      PROVE  /\ Fresh(tape[t])' /\ ~tape'[t].shouldStop
             /\ session'[tape'[t].port] = "starting" /\ port'[tape'[t].port].tape = t
  <2>1. tape[t].port \in Port /\ tape[t].port # p /\ t # NoTape
    BY <1>2, <1>5, <1>7 DEF NoTape
  <2>2. t # old
    BY <2>1 DEF ProtocolInv, PortOwns
  <2> QED
    BY <1>2, <1>6, <1>7, <2>1, <2>2 DEF Fresh
<1>8. ASSUME NEW t \in 1..made, Told(t)
      PROVE  Told(t)'
  BY <1>2, <1>6, <1>8 DEF Told, Talking, Ending, Ended
<1>9. ASSUME NEW q \in Port, session'[q] = "starting"
      PROVE  port'[q].tape \in 1..made' /\ Fresh(tape[port[q].tape])'
  <2>1. CASE q = p
    BY <1>2, <1>4, <1>5, <2>1
  <2>2. CASE q # p
    <3>1. port[q].tape \in 1..made /\ Fresh(tape[port[q].tape])
      BY <1>2, <1>9, <2>2 DEF MessagesInv
    <3> QED
      BY <1>2, <1>5, <1>6, <2>2, <3>1 DEF Fresh
  <2> QED
    BY <2>1, <2>2
<1> QED
  BY <1>2, <1>4, <1>5, <1>7, <1>8, <1>9 DEF MessagesInv

\* Only tape x changes, and it has begun before and after.
LEMMA OneTapeMessages ==
  ASSUME MessagesInv, TypeOK, UNCHANGED made, UNCHANGED session, NEW x \in 1..made, NEW r,
         tape' = [tape EXCEPT ![x] = r], Told(x)',
         \A t \in 1..made : t # x =>
           /\ cap.tape = t /\ cap.pc = "message" => cap'.tape = t /\ cap'.pc = "message"
           /\ cap'.tape = t /\ cap'.pc \in {"duration", "event"} => cap.tape = t /\ cap.pc \in {"duration", "event"},
         \A p \in Port : session[p] = "starting" => port'[p].tape = port[p].tape /\ port[p].tape # x
  PROVE  MessagesInv'
<1>1. \A t \in 1..made : t # x => tape'[t] = tape[t]
  BY CaptureAssumption DEF TypeOK, Tape
<1> QED
  BY <1>1, MessagesFrame

\* A tape that was asked to stop has begun, and is not the tape of a start.
LEMMA StoppedTold ==
  ASSUME MessagesInv, IInv, ProtocolInv, NEW t \in 1..made, tape[t].shouldStop
  PROVE  /\ Told(t)
         /\ \A p \in Port : session[p] = "starting" => port[p].tape # t
<1>1. Told(t)
  BY DEF MessagesInv
<1>2. ~Fresh(tape[t])
  <2>1. <<>> # <<"start">> /\ <<"stop">> # <<"start">>
    OBVIOUS
  <2> QED
    BY <1>1, <2>1 DEF Told, Talking, Ending, Ended, Fresh
<1> QED
  BY <1>1, <1>2 DEF MessagesInv

\* The "EndMetadata" event sends the start message that was stored.
LEMMA EndMetadataMessages ==
  ASSUME IInv, ProtocolInv, MessagesInv, NEW p \in Port, EndMetadata(p)
  PROVE  MessagesInv'
<1>1. /\ session[p] = "starting" /\ idle /\ made' = made /\ cap' = cap
      /\ session'[p] = "started" /\ \A q \in Port : q # p => session'[q] = session[q]
  BY DEF EndMetadata, immVars, IInv, TypeOK
<1>2. PICK x \in 1..made : x = port[p].tape
  BY <1>1 DEF MessagesInv
<1>3. /\ x \in Tape /\ x # NoTape /\ tape[x] \in TapeRecord /\ Fresh(tape[x])
  BY <1>1, <1>2, CaptureAssumption DEF MessagesInv, NoTape, IInv, TypeOK, Tape
<1>4. /\ tape' = [tape EXCEPT ![x] = Reported(tape[x])]
      /\ \A q \in Port : port'[q].tape = port[q].tape
  BY <1>2, <1>3 DEF EndMetadata, StartReported, IInv, TypeOK, PortRecord
<1>5. tape'[x] = Reported(tape[x]) /\ \A t \in 1..made : t # x => tape'[t] = tape[t]
  BY <1>3, <1>4, CaptureAssumption DEF IInv, TypeOK, Tape
<1>6. Told(x)'
  <2>1. Talking(tape[x])'
    BY <1>3, <1>5, ReportedStages DEF Talking
  <2> QED
    BY <2>1 DEF Told
<1>7. \A q \in Port : q # p => port[q].tape # x
  BY <1>2, <1>3 DEF ProtocolInv, PortOwns
<1> QED
  BY <1>1, <1>2, <1>4, <1>5, <1>6, <1>7, MessagesFrame DEF IInv

\* A "Keep" or other event is sent at once, or waits for the start message.
LEMMA NoteMessages ==
  ASSUME IInv, ProtocolInv, MessagesInv, SendsEndMetadata, NEW p \in Port, Hold(p) \/ Resume(p) \/ Update(p)
  PROVE  MessagesInv'
<1>1. /\ idle /\ session[p] = "started" /\ port[p].tape # NoTape
      /\ UNCHANGED <<port, made, session, cap>>
  BY DEF Hold, Resume, Update, Note, NoneStarting, Running
<1>2. PICK x \in 1..made : x = port[p].tape
  BY <1>1, RunningTalks
<1>3. /\ x \in Tape /\ tape[x] \in TapeRecord /\ Talking(tape[x]) /\ tape[x].port = p
  BY <1>1, <1>2, RunningTalks, CaptureAssumption DEF IInv, TypeOK, Tape
<1>4. \E r : Talking(r) /\ tape' = [tape EXCEPT ![x] = r]
  <2>1. CASE Hold(p)
    <3> DEFINE s == IF HoldResumeReportEvents THEN Sent(tape[x], "hold") ELSE tape[x]
    <3>1. s \in TapeRecord /\ Talking(s)
      BY <1>3, PushedStages, SentQuiet DEF Event
    <3>2. tape' = [tape EXCEPT ![x] = [s EXCEPT !.held = TRUE]]
      BY <1>2, <2>1 DEF Hold
    <3> HIDE DEF s
    <3>3. Talking([s EXCEPT !.held = TRUE])
      BY <3>1 DEF Talking, TapeRecord
    <3> QED
      BY <3>2, <3>3
  <2>2. CASE Resume(p)
    <3> DEFINE s == IF HoldResumeReportEvents /\ tape[x].held THEN Sent(tape[x], "resume") ELSE tape[x]
    <3>1. s \in TapeRecord /\ Talking(s)
      BY <1>3, PushedStages, SentQuiet DEF Event
    <3>2. tape' = [tape EXCEPT ![x] = [s EXCEPT !.held = FALSE]]
      BY <1>2, <2>2 DEF Resume
    <3> HIDE DEF s
    <3>3. Talking([s EXCEPT !.held = FALSE])
      BY <3>1 DEF Talking, TapeRecord
    <3> QED
      BY <3>2, <3>3
  <2>3. CASE Update(p)
    BY <1>2, <1>3, <2>3, PushedStages DEF Update
  <2> QED
    BY <2>1, <2>2, <2>3
<1>5. PICK r : Talking(r) /\ tape' = [tape EXCEPT ![x] = r]
  BY <1>4
<1>6. Told(x)'
  <2>1. tape'[x] = r
    BY <1>3, <1>5 DEF IInv, TypeOK
  <2> QED
    BY <1>5, <2>1 DEF Told, Talking
<1>7. \A q \in Port : session[q] = "starting" => port[q].tape # x
  BY <1>1, <1>2, <1>3 DEF ProtocolInv, PortOwns
<1> QED
  BY <1>1, <1>5, <1>6, <1>7, OneTapeMessages DEF IInv

\* The stop event finds a tape that has begun and was not stopped before.
LEMMA StopFlagMessages ==
  ASSUME IInv, ProtocolInv, MessagesInv, NEW p \in Port, NEW f \in BOOLEAN, idle,
         session[p] = "started", port[p].tape # NoTape, StopFlag(p, f),
         session' = session \/ session' = [session EXCEPT ![p] = "idle"]
  PROVE  MessagesInv'
<1>1. PICK x \in 1..made : x = port[p].tape
  BY RunningTalks
<1>2. Talking(tape[x]) /\ tape[x].port = p
  BY <1>1, RunningTalks
<1>3. /\ made' = made /\ cap'.tape = x /\ cap.tape = NoTape /\ x # NoTape
      /\ \A q \in Port : port'[q].tape = port[q].tape
      /\ \A q \in Port : session'[q] = "starting" <=> session[q] = "starting"
  BY <1>1 DEF StopFlag, PortStopped, ProtocolInv, CallbackShape, NoTape, IInv, TypeOK, PortRecord
<1>4. Told(x)'
  BY <1>1, <1>2, StopFlagEffect DEF Told, Talking
<1>5. \A t \in 1..made : t # x => tape'[t] = tape[t]
  BY <1>1, StopFlagEffect, CaptureAssumption DEF IInv, TypeOK, Tape
<1>6. \A q \in Port : session[q] = "starting" => port[q].tape # x
  BY <1>1, <1>2, <1>3 DEF ProtocolInv, PortOwns
<1>7. \A t \in 1..made : t # NoTape
  BY DEF NoTape
<1> QED
  BY <1>3, <1>4, <1>5, <1>6, <1>7, MessagesFrame DEF IInv

\* The rest of the stop event; the port's tape was asked to stop.
LEMMA StopStepMessages ==
  ASSUME IInv, ProtocolInv, MessagesInv, StopEvent \/ StopMessage \/ Finalize
  PROVE  MessagesInv'
<1>1. PICK x \in 1..made : x = cap.tape
  BY DEF StopEvent, StopMessage, Finalize, IInv, ReferencesExist
<1>2. /\ x \in Tape /\ tape[x] \in TapeRecord /\ cap.port \in Port
  BY CaptureAssumption DEF IInv, TypeOK, CapRecord, Tape
<1>3. tape[x].shouldStop /\ port[cap.port].tape = x
  <2>1. Stopping(cap.port)
    BY DEF StopEvent, StopMessage, Finalize, ProtocolInv, CallbackShape, Stopping
  <2> QED
    BY <1>1, <1>2, <2>1 DEF ProtocolInv, CallbackShape, SessionAgrees
<1>4. Told(x) /\ \A q \in Port : session[q] = "starting" => port[q].tape # x
  BY <1>3, StoppedTold
<1>5. /\ UNCHANGED <<made, session>> /\ cap.tape = x
      /\ cap'.pc \notin {"duration", "event"} /\ cap'.tape \in {x, NoTape}
      /\ \A q \in Port : q # cap.port => port'[q] = port[q]
  BY <1>1 DEF StopEvent, StopMessage, Finalize, IdleCap, IInv, TypeOK, CapRecord
<1>6. \E r : tape' = [tape EXCEPT ![x] = r] /\ Told(x)'
  <2>1. CASE StopEvent
    <3>1. Talking(tape[x])
      BY <1>1, <1>4, <2>1 DEF StopEvent, Told
    <3>2. tape' = [tape EXCEPT ![x] = Pushed(tape[x], "stop")]
      BY <1>1, <2>1 DEF StopEvent
    <3>3. tape'[x] = Pushed(tape[x], "stop")
      BY <1>2, <3>2 DEF IInv, TypeOK
    <3>4. Ending(Pushed(tape[x], "stop"))
      BY <1>2, <3>1, PushedStages
    <3>5. tape'[x].shouldStop
      BY <1>2, <1>3, <3>3 DEF Pushed, TapeRecord
    <3>6. cap'.tape = x /\ cap'.pc = "message"
      BY <1>1, <2>1 DEF StopEvent, IInv, TypeOK, CapRecord
    <3> QED
      BY <3>2, <3>3, <3>4, <3>5, <3>6 DEF Told, Ending
  <2>2. CASE StopMessage \/ Finalize
    <3>1. tape' = [tape EXCEPT ![x] = Reported(tape[x])]
      BY <1>1, <2>2 DEF StopMessage, Finalize
    <3>2. tape'[x] = Reported(tape[x])
      BY <1>2, <3>1 DEF IInv, TypeOK
    <3>3. Talking(Reported(tape[x])) \/ Ended(Reported(tape[x]))
      BY <1>2, <1>4, ReportedStages DEF Told
    <3>4. tape'[x].shouldStop
      BY <1>2, <1>3, <3>2 DEF Reported, TapeRecord
    <3> QED
      BY <1>5, <3>1, <3>2, <3>3, <3>4 DEF Told, Talking, Ended
  <2> QED
    BY <2>1, <2>2
<1>7. \A q \in Port : session[q] = "starting" => port'[q].tape = port[q].tape
  BY <1>3, <1>4, <1>5
<1> QED
  BY <1>4, <1>5, <1>6, <1>7, OneTapeMessages DEF IInv

\* The chain reports a closed recording, while it may be in its stop event.
LEMMA ChainReportMessages ==
  ASSUME IInv, ProtocolInv, FateInv, MessagesInv, NEW x \in Tape, ChainReport(x)
  PROVE  MessagesInv'
<1>1. /\ x \in 1..made /\ tape[x] \in TapeRecord /\ tape[x].shouldStop
      /\ UNCHANGED <<made, session, port, cap>>
      /\ tape' = [tape EXCEPT ![x] = Reported(tape[x])]
  BY DEF ChainReport, captureVars, IInv, TypeOK, ReferencesExist, FateInv, KeptWritten
<1>2. Told(x) /\ \A q \in Port : session[q] = "starting" => port[q].tape # x
  BY <1>1, StoppedTold
<1>3. tape'[x] = Reported(tape[x]) /\ tape'[x].shouldStop
  <2>1. tape'[x] = Reported(tape[x])
    BY <1>1 DEF IInv, TypeOK
  <2> QED
    BY <1>1, <2>1 DEF Reported, TapeRecord
<1>4. Told(x)'
  <2>1. CASE Talking(tape[x])
    <3>1. Talking(Reported(tape[x]))
      BY <1>1, <2>1, ReportedStages
    <3> QED
      BY <1>3, <3>1 DEF Told, Talking
  <2>2. CASE Ending(tape[x]) /\ cap.pc = "message"
    <3>1. Ended(Reported(tape[x])) /\ cap'.pc = "message"
      BY <1>1, <2>2, ReportedStages
    <3> QED
      BY <1>3, <3>1 DEF Told, Ended
  <2>3. CASE Ended(tape[x]) /\ (cap.tape = x => cap.pc \notin {"duration", "event"})
    <3>1. Ended(Reported(tape[x])) /\ cap' = cap
      BY <1>1, <2>3, ReportedStages
    <3> QED
      BY <1>3, <2>3, <3>1 DEF Told, Ended
  <2> QED
    BY <1>2, <2>1, <2>2, <2>3 DEF Told
<1> QED
  BY <1>1, <1>2, <1>4, OneTapeMessages DEF IInv

\* Every step keeps the messages of every tape in order.
LEMMA NextMessages ==
  ASSUME IInv, IInv', ProtocolInv, FateInv, MessagesInv, SendsEndMetadata, [Next]_vars
  PROVE  MessagesInv'
<1>1. /\ TypeOK /\ \A t \in 1..made : t \in Tape
      /\ \A t \in Tape : SameTold(tape[t], tape[t])
  BY CaptureAssumption DEF IInv, TypeOK, Tape, SameTold
<1>2. CASE PluginStep
  <2>1. ASSUME NEW p \in Port, NEW w \in BOOLEAN, Keep(p, w)
        PROVE  MessagesInv'
    <3>1. UNCHANGED <<port, made, session, cap>>
      BY <2>1 DEF Keep, Note
    <3>2. \A t \in Tape : /\ tape'[t].toSend = tape[t].toSend /\ tape'[t].msgs = tape[t].msgs
                          /\ tape'[t].port = tape[t].port /\ tape'[t].shouldStop = tape[t].shouldStop
      BY <2>1, KeepEffect DEF SameWork
    <3>3. NoTape \notin 1..made /\ \A q \in Port : session[q] = "starting" => port[q].tape \in 1..made
      BY DEF NoTape, MessagesInv
    <3> QED
      BY <1>1, <3>1, <3>2, <3>3, MessagesFrame
  <2>2. ASSUME NEW p \in Port, ChunkIn(p)
        PROVE  MessagesInv'
    <3>1. UNCHANGED <<port, tape, made, session>> /\ cap.pc = "idle" /\ cap'.pc \in {"chunk", "schedule"}
      BY <2>2 DEF ChunkIn, idle, IInv, TypeOK, CapRecord
    <3> QED
      BY <1>1, <3>1, QuietMessages
  <2>3. ASSUME NEW p \in Port, Stop(p)
        PROVE  MessagesInv'
    <3>1. /\ idle /\ session[p] = "started" /\ session' = [session EXCEPT ![p] = "idle"]
      BY <2>3 DEF Stop, Running
    <3>2. CASE port[p].tape # NoTape
      BY <2>3, <3>1, <3>2, StopFlagMessages DEF Stop
    <3>3. CASE port[p].tape = NoTape
      <4>1. UNCHANGED <<port, tape, made, cap>>
        BY <2>3, <3>3 DEF Stop
      <4>2. \A q \in Port : session'[q] = "starting" <=> session[q] = "starting"
        BY <3>1 DEF IInv, TypeOK
      <4> QED
        BY <1>1, <4>1, <4>2, QuietMessages
    <3> QED
      BY <3>2, <3>3
  <2>4. ASSUME NEW p \in Port, Expire(p)
        PROVE  MessagesInv'
    <3>1. idle /\ session' = session /\ session[p] # "starting"
      BY <2>4 DEF Expire, NoneStarting
    <3>2. CASE port[p].needSendStop
      <4>1. port[p].tape # NoTape /\ StopFlag(p, TRUE)
        BY <2>4, <3>2 DEF Expire, IInv, PortDue
      <4>2. session[p] = "started"
        BY <3>1, <3>2 DEF ProtocolInv, CallbackShape, DueAgrees, Stopping, idle, IInv, TypeOK
      <4> QED
        BY <3>1, <4>1, <4>2, StopFlagMessages
    <3>3. CASE ~port[p].needSendStop
      <4>1. UNCHANGED <<tape, made, cap>> /\ port' = [port EXCEPT ![p] = NewPort]
        BY <2>4, <3>3 DEF Expire
      <4>2. \A q \in Port : session[q] = "starting" => port'[q].tape = port[q].tape
        BY <3>1, <4>1 DEF IInv, TypeOK
      <4> QED
        BY <1>1, <3>1, <4>1, <4>2, QuietMessages
    <3> QED
      BY <3>2, <3>3
  <2> QED
    BY <1>2, <2>1, <2>2, <2>3, <2>4, StartMessages, NoteMessages DEF PluginStep
<1>3. CASE CapStep
  <2>1. CASE ChunkQueue \/ CapSchedule \/ StopDuration
    <3>1. /\ UNCHANGED <<made, session, port>>
          /\ cap.pc # "message" /\ cap'.pc # "duration"
          /\ cap'.pc = "event" => cap.pc = "duration" /\ cap'.tape = cap.tape
      BY <2>1 DEF ChunkQueue, CapSchedule, StopDuration, IdleCap, IInv, TypeOK, CapRecord
    <3>2. \A t \in Tape : SameTold(tape[t], tape'[t])
      BY <2>1, ChunkQueueEffect, CapScheduleEffect, StopDurationEffect DEF SameTold, SameButMessages
    <3> QED
      BY <1>1, <3>1, <3>2, QuietMessages
  <2> QED
    BY <1>3, <2>1, StopStepMessages, EndMetadataMessages DEF CapStep
<1>4. CASE ImmStep
  <2>1. UNCHANGED <<made, session, port, cap>>
    BY <1>4 DEF ImmStep, ImmAcquire, ImmPop, WritePop, WriteDisk, WriteClose, Dispatch, captureVars
  <2> QED
    BY <1>1, <1>4, <2>1, ImmStepEffect, QuietMessages
<1>5. CASE ChainStep
  <2>1. ASSUME NEW t \in Tape, ChainDrop(t)
        PROVE  UNCHANGED <<tape, made, session, port, cap>>
    BY <2>1 DEF ChainDrop, captureVars
  <2> QED
    BY <1>1, <1>5, <2>1, ChainReportMessages, QuietMessages DEF ChainStep
<1>6. CASE DaemonStop \/ UNCHANGED vars
  <2>1. UNCHANGED <<tape, made, session, port, cap>>
    BY <1>6 DEF DaemonStop, vars
  <2> QED
    BY <1>1, <2>1, QuietMessages
<1> QED
  BY <1>2, <1>3, <1>4, <1>5, <1>6 DEF Next

-----------------------------------------------------------------------------
\* The three invariants hold at the start.
LEMMA InitCalls == Init => ProtocolInv /\ WorkInv /\ FateInv /\ MessagesInv
<1> SUFFICES ASSUME Init PROVE ProtocolInv /\ WorkInv /\ FateInv /\ MessagesInv
  OBVIOUS
<1>1. ProtocolInv
  BY DEF Init, NewPort, IdleCap, ProtocolInv, CallbackShape, Stopping, idle, PortOwns, SessionAgrees, DueAgrees,
         PortConsistent, PortDue, Endable, NoOrphanRecording
<1>2. \A t \in Tape : tape[t] = NewTape(AnyPort)
  BY DEF Init
<1>3. WorkInv
  <2>1. ImmQueueConsistent
    BY <1>2 DEF Init, NewTape, ImmQueueConsistent
  <2>2. \A t \in Tape : ~Unfinished(t)
    BY <1>2 DEF NewTape, Unfinished
  <2> QED
    BY <2>1, <2>2 DEF WorkInv, QueuedWork
<1>4. FateInv
  BY <1>2 DEF Init, NewTape, FateInv, KeptWritten, OnlyWantedHandled
<1>5. MessagesInv
  BY DEF Init, MessagesInv
<1> QED
  BY <1>1, <1>3, <1>4, <1>5

\* The callbacks and the state of the ports agree, the work is scheduled and
\* the decisions taken stand, in every reachable state.
THEOREM CallsInvariant == Spec => [](ProtocolInv /\ WorkInv /\ FateInv)
<1>1. IInv /\ IInv' /\ ProtocolInv /\ WorkInv /\ FateInv /\ [Next]_vars => (ProtocolInv /\ WorkInv /\ FateInv)'
  BY NextProtocol, NextWork, NextFate
<1>2. QED
  BY <1>1, InitCalls, CaptureInvariant, PTL DEF Spec

\* CapturePort::AddCaptureEvent: on every port at most one recording goes on,
\* the current one of the port; so every recording can still be ended.  Ports
\* that expire must be those of a plugin that ends each start's metadata.
THEOREM NoOrphans == (MayExpire => SendsEndMetadata) /\ Spec => []NoOrphanRecording
<1> SUFFICES ASSUME MayExpire => SendsEndMetadata PROVE Spec => []NoOrphanRecording
  OBVIOUS
<1>1. ProtocolInv => NoOrphanRecording
  BY DEF ProtocolInv, Endable, Forgetful
<1>2. QED
  BY <1>1, CallsInvariant, PTL

\* CapturePort::AddAudioChunk and Finalize always find the tape they take for
\* granted.
THEOREM PortsConsistent == Spec => []PortConsistent
<1>1. ProtocolInv => PortConsistent
  BY DEF ProtocolInv
<1>2. QED
  BY <1>1, CallsInvariant, PTL

\* ImmediateProcessing::Push and Pop lose no wake-up: what has to be written or
\* closed is in the immediate queue or in the hands of its thread.
THEOREM NoLostWakeUp == Spec => []WorkScheduled
<1>1. WorkInv => WorkScheduled
  BY DEF WorkInv, QueuedWork, Settling, WorkScheduled
<1>2. QED
  BY <1>1, CallsInvariant, PTL

\* ImmediateProcessing::ThreadHandler gives the chain closed, non-empty and
\* wanted recordings only, and no later event takes the decision back.
THEOREM OnlyWanted == Spec => []OnlyWantedHandled
<1>1. FateInv => OnlyWantedHandled
  BY DEF FateInv
<1>2. QED
  BY <1>1, CallsInvariant, PTL

\* With a plugin that ends each start's metadata (VoIp), the messages of a tape
\* reach Reporting in the order start, events, stop, ready, though the stop
\* event and the processing chain send them from two threads.
THEOREM MessagesInOrder == SendsEndMetadata /\ Spec => []MessageOrder
<1> SUFFICES ASSUME SendsEndMetadata PROVE Spec => []MessageOrder
  OBVIOUS
<1>1. IInv /\ IInv' /\ ProtocolInv /\ FateInv /\ MessagesInv /\ [Next]_vars => MessagesInv'
  BY NextMessages
<1>2. IInv /\ MessagesInv => MessageOrder
  <2> SUFFICES ASSUME IInv, MessagesInv, NEW t \in Tape
               PROVE  \A i, j \in DOMAIN tape[t].msgs :
                        /\ tape[t].msgs[i] = "start" => i = 1
                        /\ tape[t].msgs[i] = "stop" /\ i < j => tape[t].msgs[j] \in {"ready", "blank"}
    BY DEF MessageOrder
  <2>1. CASE t \in 1..made
    <3>1. Fresh(tape[t]) \/ Talking(tape[t]) \/ Ending(tape[t]) \/ Ended(tape[t])
      BY <2>1 DEF MessagesInv, Told
    <3> QED
      BY <3>1 DEF Fresh, Talking, Ending, Ended, Begun, HasNo, NothingAfterStop
  <2>2. CASE t \notin 1..made
    <3>1. tape[t].msgs = <<>>
      BY <2>2 DEF IInv, TypeOK, ReferencesExist, NewTape, Tape
    <3> QED
      BY <3>1
  <2> QED
    BY <2>1, <2>2
<1>3. QED
  BY <1>1, <1>2, InitCalls, CaptureInvariant, CallsInvariant, PTL DEF Spec
=============================================================================
