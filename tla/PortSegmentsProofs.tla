-------------------------- MODULE PortSegmentsProofs --------------------------
(***************************************************************************)
(* Proofs about PortSegments: types, that every recording the port lets go *)
(* of is told to stop and closed, and what audio may be missed (IInv); and *)
(* that every recording of a call is told as one story of its own (OwnInv, *)
(* which rests on IInv).                                                   *)
(***************************************************************************)
EXTENDS PortSegments, SequenceTheorems, TLAPS

\* What a tape is judged by here; messages and identifiers are not part of it.
Alike(a, b) ==
  /\ a.call = b.call /\ a.state = b.state /\ a.waiting = b.waiting
  /\ a.shouldStop = b.shouldStop /\ a.isQueued = b.isQueued

\* A stop before the file is closed; a tape is of a call that began.
TapesSound ==
  \A t \in DOMAIN tapes :
    /\ tapes[t].state = "Stopped" => tapes[t].shouldStop
    /\ tapes[t].call <= calls

\* What the port says of itself fits its tape: a stop is due, or sound was heard, only with
\* a tape (CapturePort::Finalize and the VAD branch of AddAudioChunk dereference it).
PortSound ==
  /\ port.needSendStop => port.tape # NoTape
  /\ port.capturing => port.tape # NoTape
  /\ mode = "vad" => (port.vadUp <=> port.tape # NoTape)

\* The port's tape: stopped if the port is not capturing, and then of an earlier call than
\* the one under way; otherwise being written as soon as a chunk was added.
CurrentSound ==
  port.tape # NoTape =>
    /\ ~port.capturing => WillClose(tapes[port.tape])
    /\ ~port.capturing /\ session # "idle" => tapes[port.tape].call < calls
    /\ Idle /\ port.capturing /\ tapes[port.tape].state = "Created" =>
         tapes[port.tape].isQueued /\ tapes[port.tape].waiting

IInv ==
  TypeOK /\ TapesSound /\ PortSound /\ CurrentSound /\ SegmentsClosed /\ MissedOnlyBehind

-----------------------------------------------------------------------------
(* One tape.                                                                 *)

\* A message of a tape changes its messages only (AudioTape::GetMessage).
LEMMA SendKeeps ==
  ASSUME NEW tp \in TapeRecord
  PROVE  Send(tp) \in TapeRecord /\ Alike(Send(tp), tp)
<1>1. Stage(tp) \in Stages
  BY DEF Stage, Stages, TapeRecord
<1>2. Append(tp.msgs, Stage(tp)) \in Seq(Stages)
  BY <1>1 DEF TapeRecord
<1>3. (IF tp.toSend = <<>> THEN tp.toSend ELSE Tail(tp.toSend)) \in Seq(Stages)
  BY DEF TapeRecord
<1> QED
  BY <1>2, <1>3 DEF Send, TapeRecord, Alike

\* So does an event queued to be sent (AudioTape::AddCaptureEvent).
LEMMA PushKeeps ==
  ASSUME NEW tp \in TapeRecord, NEW e \in Stages
  PROVE  Push(tp, e) \in TapeRecord /\ Alike(Push(tp, e), tp)
<1>1. Append(tp.toSend, e) \in Seq(Stages)
  BY DEF TapeRecord
<1> QED
  BY <1>1 DEF Push, TapeRecord, Alike

\* An event other than a stop leaves the life of the tape alone (AddCaptureEvent).
LEMMA OnTapeKeeps ==
  ASSUME NEW tp \in TapeRecord, NEW e \in EventRecord
  PROVE  OnTape(tp, e) \in TapeRecord /\ Alike(OnTape(tp, e), tp)
<1>1. CASE e.type = "uid"
  BY <1>1 DEF OnTape, TapeRecord, EventRecord, Alike
<1>2. CASE e.type = "end"
  BY <1>2, SendKeeps DEF OnTape
<1>3. CASE e.type = "update"
  <2>1. Push(tp, "update") \in TapeRecord /\ Alike(Push(tp, "update"), tp)
    BY PushKeeps DEF Stages
  <2>2. Send(Push(tp, "update")) \in TapeRecord /\ Alike(Send(Push(tp, "update")), Push(tp, "update"))
    BY <2>1, SendKeeps
  <2> QED
    BY <1>3, <2>1, <2>2 DEF OnTape, Alike
<1> QED
  BY <1>1, <1>2, <1>3 DEF EventRecord, EventType

\* A stop makes the tape one that will be closed (AddCaptureEvent, EtStop).
LEMMA StopTapeStops ==
  ASSUME NEW tp \in TapeRecord
  PROVE  /\ StopTape(tp) \in TapeRecord
         /\ StopTape(tp).shouldStop /\ StopTape(tp).isQueued
         /\ StopTape(tp).call = tp.call /\ StopTape(tp).state = tp.state
<1> DEFINE told == [tp EXCEPT !.shouldStop = TRUE]
<1>1. told \in TapeRecord /\ told.shouldStop /\ told.call = tp.call /\ told.state = tp.state
  BY DEF TapeRecord
<1> HIDE DEF told
<1>2. Push(told, "stop") \in TapeRecord /\ Alike(Push(told, "stop"), told)
  BY <1>1, PushKeeps DEF Stages
<1>3. Send(Push(told, "stop")) \in TapeRecord /\ Alike(Send(Push(told, "stop")), Push(told, "stop"))
  BY <1>2, SendKeeps
<1>4. StopTape(tp) = Schedule(Send(Push(told, "stop")))
  BY DEF StopTape, told
<1> DEFINE sent == Send(Push(told, "stop"))
<1>5. sent \in TapeRecord /\ sent.shouldStop /\ sent.call = tp.call /\ sent.state = tp.state
  BY <1>1, <1>2, <1>3 DEF Alike
<1> HIDE DEF sent
<1>6. /\ Schedule(sent) \in TapeRecord
      /\ Schedule(sent).shouldStop = sent.shouldStop /\ Schedule(sent).isQueued
      /\ Schedule(sent).call = sent.call /\ Schedule(sent).state = sent.state
  BY <1>5 DEF Schedule, TapeRecord
<1> QED
  BY <1>4, <1>5, <1>6 DEF sent

-----------------------------------------------------------------------------
(* The tapes.                                                                *)

\* One tape of the sequence in place of another.
LEMMA Replaced ==
  ASSUME NEW S, NEW s \in Seq(S), NEW i \in DOMAIN s, NEW x \in S
  PROVE  /\ [s EXCEPT ![i] = x] \in Seq(S)
         /\ Len([s EXCEPT ![i] = x]) = Len(s)
         /\ DOMAIN [s EXCEPT ![i] = x] = DOMAIN s
         /\ \A j \in DOMAIN s : [s EXCEPT ![i] = x][j] = IF j = i THEN x ELSE s[j]
BY ExceptSeq

\* One tape more.
LEMMA Appended ==
  ASSUME NEW S, NEW s \in Seq(S), NEW x \in S
  PROVE  /\ Append(s, x) \in Seq(S)
         /\ Len(Append(s, x)) = Len(s) + 1
         /\ DOMAIN Append(s, x) = 1 .. Len(s) + 1
         /\ DOMAIN s = 1 .. Len(s)
         /\ \A j \in DOMAIN s : Append(s, x)[j] = s[j]
         /\ Append(s, x)[Len(s) + 1] = x
BY AppendProperties

\* A tape begun now (BeginTape).
LEMMA NewTapeIsTape ==
  ASSUME TypeOK
  PROVE  /\ NewTape \in TapeRecord
         /\ NewTape.call = calls /\ NewTape.state = "Created" /\ ~NewTape.shouldStop
<1>1. <<"start">> \in Seq(Stages) /\ <<>> \in Seq(Stages)
  BY DEF Stages
<1>2. (\E i \in DOMAIN port.backlog : port.backlog[i].type = "end") \in BOOLEAN
  OBVIOUS
<1>3. calls \in Nat /\ now \in Nat /\ <<0, 0>> \in Nat \X Nat
  BY DEF TypeOK
<1> DEFINE known == \E i \in DOMAIN port.backlog : port.backlog[i].type = "end"
<1>4. known \in BOOLEAN
  BY <1>2
<1>5. NewTape = [call |-> calls, told |-> known,
   begin |-> now, uid |-> <<0, 0>>, state |-> "Created", shouldStop |-> FALSE,
   waiting |-> FALSE, written |-> FALSE, isQueued |-> FALSE,
   toSend |-> <<"start">>, msgs |-> <<>>]
  BY DEF NewTape
<1> HIDE DEF known
<1> QED
  BY <1>1, <1>3, <1>4, <1>5 DEF TapeRecord

\* Every tape is a record of tapes.
LEMMA TapeFacts ==
  ASSUME TypeOK
  PROVE  /\ DOMAIN tapes = 1 .. Len(tapes) /\ Len(tapes) \in Nat
         /\ \A t \in DOMAIN tapes : tapes[t] \in TapeRecord /\ tapes[t].call \in Nat
<1>1. ASSUME NEW S, NEW s \in Seq(S)
      PROVE  DOMAIN s = 1 .. Len(s) /\ Len(s) \in Nat /\ \A t \in DOMAIN s : s[t] \in S
  OBVIOUS
<1>2. tapes \in Seq(TapeRecord)
  BY DEF TypeOK
<1>3. \A r \in TapeRecord : r.call \in Nat
  BY DEF TapeRecord
<1> QED
  BY <1>1, <1>2, <1>3

\* No tape's life changes.
TapesAlike ==
  /\ DOMAIN tapes' = DOMAIN tapes
  /\ \A t \in DOMAIN tapes : Alike(tapes'[t], tapes[t])

\* Steps that leave the life of every tape alone, and the port with its tape.
LEMMA LifeKept ==
  ASSUME IInv, TypeOK', TapesAlike, MissedOnlyBehind',
         port'.tape = port.tape, port'.capturing = port.capturing,
         port'.needSendStop => port.tape # NoTape,
         mode = "vad" => (port'.vadUp <=> port.tape # NoTape),
         mode' = mode, calls' >= calls, step' = 0 => step = 0,
         session' # "idle" => session # "idle" \/ calls' > calls
  PROVE  IInv'
<1>1. /\ calls \in Nat /\ calls' \in Nat /\ DOMAIN tapes = 1 .. Len(tapes)
      /\ \A t \in DOMAIN tapes : tapes[t].call \in Nat
      /\ port.tape \in 0 .. Len(tapes)
  BY TapeFacts DEF IInv, TypeOK
<1>2. TapesSound'
  BY <1>1 DEF IInv, TapesSound, TapesAlike, Alike
<1>3. PortSound'
  BY DEF IInv, PortSound
<1>4. SegmentsClosed'
  BY DEF IInv, SegmentsClosed, WillClose, TapesAlike, Alike
<1>5. CurrentSound'
  <2> SUFFICES ASSUME port.tape # NoTape
               PROVE  /\ ~port'.capturing => WillClose(tapes'[port.tape])
                      /\ ~port'.capturing /\ session' # "idle" => tapes'[port.tape].call < calls'
                      /\ step' = 0 /\ port'.capturing /\ tapes'[port.tape].state = "Created" =>
                           tapes'[port.tape].isQueued /\ tapes'[port.tape].waiting
    BY DEF CurrentSound, Idle, WillClose
  <2>1. port.tape \in DOMAIN tapes
    BY <1>1 DEF NoTape
  <2>2. Alike(tapes'[port.tape], tapes[port.tape])
    BY <2>1 DEF TapesAlike
  <2>3. tapes[port.tape].call <= calls /\ tapes[port.tape].call \in Nat
    BY <1>1, <2>1 DEF IInv, TapesSound
  <2> QED
    BY <1>1, <2>2, <2>3 DEF IInv, CurrentSound, WillClose, Alike, Idle
<1> QED
  BY <1>2, <1>3, <1>4, <1>5 DEF IInv

-----------------------------------------------------------------------------
(* The callbacks of events.                                                  *)

\* The port and its fields have their types.
LEMMA PortFacts ==
  ASSUME TypeOK
  PROVE  /\ port \in PortRecord /\ port.tape \in Nat /\ port.tape \in 0 .. Len(tapes)
         /\ port.capturing \in BOOLEAN /\ port.needSendStop \in BOOLEAN
         /\ port.vadUp \in BOOLEAN /\ port.below \in Nat /\ port.segmentNumber \in Nat
         /\ port.backlog \in Seq(EventRecord) /\ port.lastUpdated \in Nat
         /\ port.tape # NoTape => port.tape \in DOMAIN tapes
<1>1. port \in PortRecord /\ port.tape \in 0 .. Len(tapes)
  BY DEF TypeOK
<1> QED
  BY <1>1, TapeFacts DEF PortRecord, NoTape

\* An event handled by the port's tape, if it has one (AddCaptureEvent).
LEMMA HandledByTape ==
  ASSUME TypeOK, NEW e \in EventRecord, tapes' = PortTape(LAMBDA tp : OnTape(tp, e))
  PROVE  TapesAlike /\ tapes' \in Seq(TapeRecord) /\ Len(tapes') = Len(tapes)
<1>1. CASE port.tape = NoTape
  <2>1. tapes' = tapes
    BY <1>1 DEF PortTape
  <2> QED
    BY <2>1 DEF TapesAlike, Alike, TypeOK
<1>2. CASE port.tape # NoTape
  <2> DEFINE x == OnTape(tapes[port.tape], e)
  <2>1. tapes' = [tapes EXCEPT ![port.tape] = x]
    BY <1>2 DEF PortTape
  <2>2. port.tape \in DOMAIN tapes /\ tapes[port.tape] \in TapeRecord
    BY <1>2, PortFacts, TapeFacts
  <2>3. x \in TapeRecord /\ Alike(x, tapes[port.tape])
    BY <2>2, OnTapeKeeps
  <2> HIDE DEF x
  <2>4. tapes \in Seq(TapeRecord)
    BY DEF TypeOK
  <2> DEFINE new == [tapes EXCEPT ![port.tape] = x]
  <2>6. /\ new \in Seq(TapeRecord) /\ Len(new) = Len(tapes) /\ DOMAIN new = DOMAIN tapes
        /\ \A j \in DOMAIN tapes : new[j] = IF j = port.tape THEN x ELSE tapes[j]
    BY <2>2, <2>3, <2>4, Replaced
  <2>7. tapes' = new
    BY <2>1
  <2> HIDE DEF new
  <2>5. /\ tapes' \in Seq(TapeRecord) /\ Len(tapes') = Len(tapes)
        /\ DOMAIN tapes' = DOMAIN tapes
        /\ \A j \in DOMAIN tapes : tapes'[j] = IF j = port.tape THEN x ELSE tapes[j]
    BY <2>6, <2>7
  <2> QED
    BY <2>3, <2>5 DEF TapesAlike, Alike
<1> QED
  BY <1>1, <1>2

\* What missed says does not depend on anything else.
LEMMA MissedKept ==
  ASSUME MissedOnlyBehind, missed' = missed
  PROVE  MissedOnlyBehind'
BY DEF MissedOnlyBehind

\* A metadata or update event from the plugin.
LEMMA EventKeeps ==
  ASSUME IInv, NEW type \in EventType, Event(type), session # "idle",
         session' \in {"named", "started"}
  PROVE  IInv'
<1> DEFINE e == [type |-> type, uid |-> <<calls, 0>>]
<1>1. TypeOK /\ MissedOnlyBehind
  BY DEF IInv
<1>2. e \in EventRecord
  BY <1>1 DEF EventRecord, TypeOK
<1>3. /\ tapes' = PortTape(LAMBDA tp : OnTape(tp, e))
      /\ port' = [OnPort(port, e) EXCEPT !.backlog = Append(@, e), !.lastUpdated = now]
      /\ UNCHANGED <<mode, plugin, now, calls, step, missed>>
  BY DEF Event
<1> HIDE DEF e
<1>4. TapesAlike /\ tapes' \in Seq(TapeRecord) /\ Len(tapes') = Len(tapes)
  BY <1>1, <1>2, <1>3, HandledByTape
<1>5. Append(port.backlog, e) \in Seq(EventRecord)
  BY <1>1, <1>2, PortFacts, Appended
<1>6. OnPort(port, e) = [port EXCEPT !.needSendStop =
                           port.needSendStop \/ (e.type = "end" /\ port.tape # NoTape)]
  BY DEF OnPort
<1>7. OnPort(port, e).backlog = port.backlog
  BY <1>1, <1>6, PortFacts DEF PortRecord
<1>8. now \in Nat
  BY <1>1 DEF TypeOK
<1>9. /\ port' \in PortRecord /\ port'.tape = port.tape /\ port'.capturing = port.capturing
      /\ port'.vadUp = port.vadUp
      /\ port'.needSendStop => port.needSendStop \/ port.tape # NoTape
  BY <1>1, <1>3, <1>5, <1>6, <1>7, <1>8, PortFacts DEF PortRecord
<1>10. TypeOK'
  BY <1>1, <1>3, <1>4, <1>9 DEF TypeOK
<1>11. port'.needSendStop => port.tape # NoTape
  BY <1>9 DEF IInv, PortSound
<1>12. mode = "vad" => (port'.vadUp <=> port.tape # NoTape)
  BY <1>9 DEF IInv, PortSound
<1>13. MissedOnlyBehind'
  BY <1>1, <1>3, MissedKept
<1>14. mode' = mode /\ calls' >= calls /\ step' = step
  BY <1>1, <1>3 DEF TypeOK
<1> QED
  BY <1>4, <1>9, <1>10, <1>11, <1>12, <1>13, <1>14, LifeKept

\* Tapes that stay as they are are alike.
LEMMA UnchangedAlike ==
  ASSUME TypeOK, tapes' = tapes
  PROVE  TapesAlike /\ tapes' \in Seq(TapeRecord) /\ Len(tapes') = Len(tapes)
BY DEF TapesAlike, Alike, TypeOK

\* A start (CaptureEventCallBack).
LEMMA StartCallKeeps ==
  ASSUME IInv, StartCall
  PROVE  IInv'
<1>1. TypeOK /\ MissedOnlyBehind /\ calls' = calls + 1 /\ session = "idle"
  BY DEF IInv, StartCall
<1>2. UNCHANGED <<mode, plugin, now, port, tapes, step, missed>>
  BY DEF StartCall
<1>3. session' \in {"starting", "started"}
  BY DEF StartCall
<1>4. TypeOK'
  BY <1>1, <1>2, <1>3 DEF TypeOK
<1>5. TapesAlike
  BY <1>1, <1>2, UnchangedAlike
<1>6. MissedOnlyBehind'
  BY <1>1, <1>2, MissedKept
<1>7. port.needSendStop => port.tape # NoTape
  BY DEF IInv, PortSound
<1>8. mode = "vad" => (port.vadUp <=> port.tape # NoTape)
  BY DEF IInv, PortSound
<1>9. calls \in Nat
  BY <1>1 DEF TypeOK
<1>10. calls' >= calls /\ calls' > calls
  BY <1>1, <1>9
<1> QED
  BY <1>2, <1>4, <1>5, <1>6, <1>7, <1>8, <1>10, LifeKept

\* The metadata of a call and its updates (ReportMetadata, EtUpdate).
LEMMA ReportsKeep ==
  ASSUME IInv, ReportUid \/ ReportEnd \/ ReportUpdate
  PROVE  IInv'
<1>1. CASE ReportUid
  BY <1>1, EventKeeps DEF ReportUid, EventType
<1>2. CASE ReportEnd
  BY <1>2, EventKeeps DEF ReportEnd, EventType
<1>3. CASE ReportUpdate
  BY <1>3, EventKeeps DEF ReportUpdate, EventType
<1> QED
  BY <1>1, <1>2, <1>3

\* The clock.
LEMMA TickKeeps ==
  ASSUME IInv, Tick
  PROVE  IInv'
<1>1. TypeOK /\ MissedOnlyBehind /\ now' = now + 1
  BY DEF IInv, Tick
<1>2. UNCHANGED <<mode, plugin, calls, session, port, tapes, step, missed>>
  BY DEF Tick, callVars
<1>3. TypeOK'
  BY <1>1, <1>2 DEF TypeOK
<1>4. TapesAlike
  BY <1>1, <1>2, UnchangedAlike
<1>5. MissedOnlyBehind'
  BY <1>1, <1>2, MissedKept
<1>6. port.needSendStop => port.tape # NoTape
  BY DEF IInv, PortSound
<1>7. mode = "vad" => (port.vadUp <=> port.tape # NoTape)
  BY DEF IInv, PortSound
<1>8. calls' >= calls
  BY <1>1, <1>2 DEF TypeOK
<1> QED
  BY <1>2, <1>3, <1>4, <1>5, <1>6, <1>7, <1>8, LifeKept

\* One event of the backlog (ReportEventBacklog).
LEMMA ReplayKeeps ==
  ASSUME IInv, Replay
  PROVE  IInv'
<1> DEFINE e == port.backlog[step]
           n == port.segmentNumber + 1
           f == IF e.type = "uid" THEN [e EXCEPT !.uid = <<@[1], n>>] ELSE e
<1>1. TypeOK /\ MissedOnlyBehind
  BY DEF IInv
<1>2. ASSUME NEW S, NEW q \in Seq(S), NEW i \in DOMAIN q PROVE q[i] \in S
  BY <1>2
<1>3. e \in EventRecord /\ n \in Nat
  BY <1>1, <1>2, PortFacts DEF Replay
<1>4. /\ tapes' = PortTape(LAMBDA tp : OnTape(tp, f))
      /\ port' = [OnPort(port, f) EXCEPT !.segmentNumber = IF e.type = "uid" THEN n ELSE @]
      /\ step' = step + 1 /\ UNCHANGED <<mode, plugin, calls, session, now, missed>>
  BY DEF Replay, callVars
<1> HIDE DEF e, n
<1>5. f \in EventRecord
  BY <1>3 DEF EventRecord
<1> HIDE DEF f
<1>6. TapesAlike /\ tapes' \in Seq(TapeRecord) /\ Len(tapes') = Len(tapes)
  BY <1>1, <1>4, <1>5, HandledByTape
<1>7. OnPort(port, f) = [port EXCEPT !.needSendStop =
                           port.needSendStop \/ (f.type = "end" /\ port.tape # NoTape)]
  BY DEF OnPort
<1>8. /\ port' \in PortRecord /\ port'.tape = port.tape /\ port'.capturing = port.capturing
      /\ port'.vadUp = port.vadUp
      /\ port'.needSendStop => port.needSendStop \/ port.tape # NoTape
  BY <1>1, <1>3, <1>4, <1>7, PortFacts DEF PortRecord
<1>9. TypeOK'
  BY <1>1, <1>4, <1>6, <1>8 DEF TypeOK
<1>10. port'.needSendStop => port.tape # NoTape
  BY <1>8 DEF IInv, PortSound
<1>11. mode = "vad" => (port'.vadUp <=> port.tape # NoTape)
  BY <1>8 DEF IInv, PortSound
<1>12. MissedOnlyBehind'
  BY <1>1, <1>4, MissedKept
<1>13. mode' = mode /\ calls' >= calls /\ step' # 0 /\ session' = session
  BY <1>1, <1>4 DEF TypeOK
<1> QED
  BY <1>6, <1>8, <1>9, <1>10, <1>11, <1>12, <1>13, LifeKept

-----------------------------------------------------------------------------
(* The end of a recording.                                                   *)

\* The tapes once the port's was stopped; nothing else of them changes that matters here.
Ended(new) ==
  /\ new \in Seq(TapeRecord) /\ Len(new) = Len(tapes) /\ DOMAIN new = DOMAIN tapes
  /\ \A t \in DOMAIN tapes :
       /\ new[t].call = tapes[t].call /\ new[t].state = tapes[t].state
       /\ t # port.tape => new[t] = tapes[t]
       /\ t = port.tape => new[t].shouldStop /\ new[t].isQueued

\* Without a tape, nothing has to end.
LEMMA NothingToEnd ==
  ASSUME TypeOK, port.tape = NoTape
  PROVE  Ended(tapes)
BY TapeFacts DEF Ended, TypeOK, NoTape

\* A stopped tape in place of the port's.
LEMMA EndedInPlace ==
  ASSUME TypeOK, port.tape # NoTape, NEW x \in TapeRecord,
         x.call = tapes[port.tape].call, x.state = tapes[port.tape].state,
         x.shouldStop, x.isQueued
  PROVE  Ended([tapes EXCEPT ![port.tape] = x])
<1> DEFINE new == [tapes EXCEPT ![port.tape] = x]
<1>1. tapes \in Seq(TapeRecord) /\ port.tape \in DOMAIN tapes
  BY PortFacts DEF TypeOK
<1>2. /\ new \in Seq(TapeRecord) /\ Len(new) = Len(tapes) /\ DOMAIN new = DOMAIN tapes
      /\ \A j \in DOMAIN tapes : new[j] = IF j = port.tape THEN x ELSE tapes[j]
  BY <1>1, Replaced
<1> HIDE DEF new
<1>3. Ended(new)
  BY <1>1, <1>2 DEF Ended
<1> QED
  BY <1>3 DEF new

\* The stop event ends the port's tape (AddCaptureEvent, EtStop).
LEMMA StopEnds ==
  ASSUME TypeOK
  PROVE  Ended(PortTape(StopTape))
<1>1. CASE port.tape = NoTape
  BY <1>1, NothingToEnd DEF PortTape
<1>2. CASE port.tape # NoTape
  <2> DEFINE x == StopTape(tapes[port.tape])
  <2>1. tapes[port.tape] \in TapeRecord
    BY <1>2, PortFacts, TapeFacts
  <2>2. /\ x \in TapeRecord /\ x.shouldStop /\ x.isQueued
        /\ x.call = tapes[port.tape].call /\ x.state = tapes[port.tape].state
    BY <2>1, StopTapeStops
  <2>3. PortTape(StopTape) = [tapes EXCEPT ![port.tape] = x]
    BY <1>2 DEF PortTape
  <2> HIDE DEF x
  <2>4. Ended([tapes EXCEPT ![port.tape] = x])
    BY <1>2, <2>2, EndedInPlace
  <2> QED
    BY <2>3, <2>4
<1> QED
  BY <1>1, <1>2

\* So does Finalize, with one message more.
LEMMA FinalStopEnds ==
  ASSUME TypeOK
  PROVE  Ended(PortTape(LAMBDA tp : Send(StopTape(tp))))
<1>1. CASE port.tape = NoTape
  BY <1>1, NothingToEnd DEF PortTape
<1>2. CASE port.tape # NoTape
  <2> DEFINE y == StopTape(tapes[port.tape])
             x == Send(y)
  <2>1. tapes[port.tape] \in TapeRecord
    BY <1>2, PortFacts, TapeFacts
  <2>2. /\ y \in TapeRecord /\ y.shouldStop /\ y.isQueued
        /\ y.call = tapes[port.tape].call /\ y.state = tapes[port.tape].state
    BY <2>1, StopTapeStops
  <2>3. PortTape(LAMBDA tp : Send(StopTape(tp))) = [tapes EXCEPT ![port.tape] = x]
    BY <1>2 DEF PortTape
  <2> HIDE DEF y
  <2>4. x \in TapeRecord /\ Alike(x, y)
    BY <2>2, SendKeeps
  <2> HIDE DEF x
  <2>5. Ended([tapes EXCEPT ![port.tape] = x])
    BY <1>2, <2>2, <2>4, EndedInPlace DEF Alike
  <2> QED
    BY <2>3, <2>5
<1> QED
  BY <1>1, <1>2

\* After it, all tapes are closed or will be.
LEMMA AllClosed ==
  ASSUME IInv, NEW new, Ended(new)
  PROVE  \A t \in DOMAIN new :
           /\ WillClose(new[t]) /\ new[t].call <= calls
           /\ new[t].state = "Stopped" => new[t].shouldStop
<1> SUFFICES ASSUME NEW t \in DOMAIN new
             PROVE  /\ WillClose(new[t]) /\ new[t].call <= calls
                    /\ new[t].state = "Stopped" => new[t].shouldStop
  OBVIOUS
<1>1. t \in DOMAIN tapes
  BY DEF Ended
<1>2. tapes[t].call <= calls /\ new[t].call = tapes[t].call
  BY <1>1 DEF IInv, TapesSound, Ended
<1>3. CASE t = port.tape
  BY <1>1, <1>2, <1>3 DEF Ended, WillClose
<1>4. CASE t # port.tape
  BY <1>1, <1>2, <1>4 DEF Ended, WillClose, IInv, SegmentsClosed, TapesSound
<1> QED
  BY <1>3, <1>4

\* Steps after which the port has no tape, or its stopped one outside of a call.
LEMMA EndKeeps ==
  ASSUME IInv, TypeOK', NEW new, Ended(new), tapes' = new, MissedOnlyBehind',
         ~port'.capturing, ~port'.needSendStop, calls' = calls, mode' = mode,
         port'.tape # NoTape => session' = "idle",
         mode = "vad" => (port'.vadUp <=> port'.tape # NoTape)
  PROVE  IInv'
<1>1. \A t \in DOMAIN tapes' :
           /\ WillClose(tapes'[t]) /\ tapes'[t].call <= calls
           /\ tapes'[t].state = "Stopped" => tapes'[t].shouldStop
  BY AllClosed
<1>2. TapesSound' /\ SegmentsClosed'
  BY <1>1 DEF TapesSound, SegmentsClosed, WillClose
<1>3. PortSound'
  BY DEF PortSound
<1>4. port'.tape # NoTape => port'.tape \in DOMAIN tapes'
  BY DEF TypeOK, NoTape
<1>5. CurrentSound'
  BY <1>1, <1>4 DEF CurrentSound, WillClose
<1> QED
  BY <1>2, <1>3, <1>5 DEF IInv

\* The plugin's stop (CaptureEventCallBack).
LEMMA StopCallKeeps ==
  ASSUME IInv, StopCall
  PROVE  IInv'
<1> DEFINE new == PortTape(StopTape)
           pt == IF port.tape = NoTape THEN port ELSE StopPort(port)
<1>1. TypeOK /\ MissedOnlyBehind /\ PortSound
  BY DEF IInv
<1>2. Ended(new)
  BY <1>1, StopEnds
<1>3. /\ tapes' = new /\ session' = "idle"
      /\ port' = [pt EXCEPT !.backlog = <<>>, !.lastUpdated = now]
      /\ UNCHANGED <<mode, plugin, now, calls, step, missed>>
  BY DEF StopCall
<1> HIDE DEF new
<1>4. <<>> \in Seq(EventRecord) /\ now \in Nat
  BY <1>1 DEF TypeOK
<1>5. /\ pt \in PortRecord /\ pt.tape = port.tape /\ pt.vadUp = port.vadUp
      /\ ~pt.capturing /\ ~pt.needSendStop
  BY <1>1, PortFacts DEF StopPort, PortRecord, PortSound
<1> HIDE DEF pt
<1>6. /\ port' \in PortRecord /\ port'.tape = port.tape /\ port'.vadUp = port.vadUp
      /\ ~port'.capturing /\ ~port'.needSendStop
  BY <1>3, <1>4, <1>5 DEF PortRecord
<1>7. TypeOK'
  BY <1>1, <1>2, <1>3, <1>6 DEF TypeOK, Ended
<1>8. MissedOnlyBehind'
  BY <1>1, <1>3, MissedKept
<1>9. mode = "vad" => (port'.vadUp <=> port'.tape # NoTape)
  BY <1>1, <1>6 DEF PortSound
<1> QED
  BY <1>2, <1>3, <1>6, <1>7, <1>8, <1>9, EndKeeps

\* A port that is forgotten leaves no tape behind that will not be closed: one in the middle
\* of a recording is Active, and never expires (Hoover, IsExpired, Finalize).
LEMMA ExpireKeeps ==
  ASSUME IInv, Expire
  PROVE  IInv'
<1>1. TypeOK /\ MissedOnlyBehind
  BY DEF IInv
<1>2. port' = NewPort /\ UNCHANGED <<mode, plugin, calls, session, now, step, missed>>
  BY DEF Expire, callVars
<1>3. NewPort \in PortRecord /\ NewPort.tape = NoTape /\ ~NewPort.capturing
        /\ ~NewPort.needSendStop /\ ~NewPort.vadUp
  BY DEF NewPort, PortRecord, NoTape
<1>4. MissedOnlyBehind'
  BY <1>1, <1>2, MissedKept
<1>5. CASE port.needSendStop
  <2> DEFINE new == PortTape(LAMBDA tp : Send(StopTape(tp)))
  <2>1. Ended(new)
    BY <1>1, FinalStopEnds
  <2>2. tapes' = new
    BY <1>5 DEF Expire
  <2> HIDE DEF new
  <2>3. TypeOK'
    BY <1>1, <1>2, <1>3, <2>1, <2>2, TapeFacts DEF TypeOK, Ended, NoTape
  <2> QED
    BY <1>2, <1>3, <1>4, <2>1, <2>2, <2>3, EndKeeps
<1>6. CASE ~port.needSendStop
  <2>1. tapes' = tapes
    BY <1>6 DEF Expire
  <2>2. TypeOK'
    BY <1>1, <1>2, <1>3, <2>1, TapeFacts DEF TypeOK, NoTape
  <2>3. TapesSound' /\ PortSound' /\ CurrentSound'
    BY <1>2, <1>3, <2>1 DEF IInv, TapesSound, PortSound, CurrentSound
  <2>4. port.tape # NoTape => WillClose(tapes[port.tape])
    <3> SUFFICES ASSUME port.tape # NoTape PROVE WillClose(tapes[port.tape])
      OBVIOUS
    <3>1. port.tape \in DOMAIN tapes /\ tapes[port.tape] \in TapeRecord
      BY <1>1, PortFacts, TapeFacts
    <3>2. ~tapes[port.tape].isQueued /\ tapes[port.tape].state # "Active" /\ Idle
      BY DEF Expire, Expired
    <3>3. tapes[port.tape].state \in {"Created", "Active", "Stopped"}
      BY <3>1 DEF TapeRecord
    <3> QED
      BY <3>1, <3>2, <3>3 DEF IInv, CurrentSound, TapesSound, WillClose
  <2>5. SegmentsClosed'
    <3>1. \A t \in DOMAIN tapes : t # NoTape
      BY <1>1, TapeFacts DEF NoTape
    <3> QED
      BY <2>1, <2>4, <3>1 DEF IInv, SegmentsClosed, WillClose
  <2> QED
    BY <1>4, <2>2, <2>3, <2>5 DEF IInv
<1> QED
  BY <1>5, <1>6

-----------------------------------------------------------------------------
(* Audio on its way into a recording.                                        *)

\* The immediate thread closes what was told to stop (AudioTape::Write).
LEMMA WriteKeeps ==
  ASSUME IInv, NEW t \in DOMAIN tapes, Write(t)
  PROVE  IInv'
<1> DEFINE x == Written(tapes[t])
<1>1. TypeOK /\ MissedOnlyBehind
  BY DEF IInv
<1>2. tapes' = [tapes EXCEPT ![t] = x]
        /\ UNCHANGED <<mode, plugin, calls, session, now, port, step, missed>>
  BY DEF Write, callVars
<1>3. tapes[t] \in TapeRecord /\ tapes \in Seq(TapeRecord)
  BY <1>1, TapeFacts DEF TypeOK
<1>4. /\ x \in TapeRecord /\ x.call = tapes[t].call /\ x.shouldStop = tapes[t].shouldStop
      /\ x.state = IF tapes[t].shouldStop THEN "Stopped"
                   ELSE IF tapes[t].waiting THEN "Active" ELSE tapes[t].state
  BY <1>3 DEF Written, TapeRecord
<1> HIDE DEF x
<1> DEFINE new == [tapes EXCEPT ![t] = x]
<1>5. /\ new \in Seq(TapeRecord) /\ Len(new) = Len(tapes) /\ DOMAIN new = DOMAIN tapes
      /\ \A j \in DOMAIN tapes : new[j] = IF j = t THEN x ELSE tapes[j]
  BY <1>3, <1>4, Replaced
<1>6. tapes' = new
  BY <1>2
<1> HIDE DEF new
<1>7. TypeOK'
  BY <1>1, <1>2, <1>5, <1>6 DEF TypeOK
<1>8. TapesSound'
  BY <1>2, <1>4, <1>5, <1>6 DEF IInv, TapesSound
<1>9. SegmentsClosed'
  BY <1>2, <1>4, <1>5, <1>6 DEF IInv, SegmentsClosed, WillClose
<1>10. PortSound'
  BY <1>2 DEF IInv, PortSound
<1>11. CurrentSound'
  <2> SUFFICES ASSUME port.tape # NoTape
               PROVE  /\ ~port.capturing => WillClose(new[port.tape])
                      /\ ~port.capturing /\ session # "idle" => new[port.tape].call < calls
                      /\ Idle /\ port.capturing /\ new[port.tape].state = "Created" =>
                           new[port.tape].isQueued /\ new[port.tape].waiting
    BY <1>2, <1>6 DEF CurrentSound, WillClose, Idle
  <2>1. port.tape \in DOMAIN tapes
    BY <1>1, PortFacts
  <2>2. CASE port.tape = t
    <3>1. new[port.tape] = x
      BY <1>5, <2>2
    <3> QED
      BY <1>4, <2>2, <3>1 DEF IInv, CurrentSound, WillClose
  <2>3. CASE port.tape # t
    BY <1>5, <2>1, <2>3 DEF IInv, CurrentSound, WillClose
  <2> QED
    BY <2>2, <2>3
<1>12. MissedOnlyBehind'
  BY <1>1, <1>2, MissedKept
<1> QED
  BY <1>7, <1>8, <1>9, <1>10, <1>11, <1>12 DEF IInv

\* A recording that begins takes the place of one that has ended (AddAudioChunk): pt is the
\* port and before are the tapes after that.
LEMMA BeginKeeps ==
  ASSUME IInv, NEW pt \in PortRecord, NEW before, Ended(before), BeginTape(pt, before),
         ~pt.needSendStop \/ pt.tape # NoTape, mode = "vad" => pt.vadUp,
         UNCHANGED <<mode, plugin, calls, session, now>>
  PROVE  IInv'
<1>1. TypeOK /\ MissedOnlyBehind
  BY DEF IInv
<1>2. /\ tapes' = Append(before, NewTape) /\ step' = 1 /\ missed' = missed
      /\ port' = [pt EXCEPT !.capturing = TRUE, !.tape = Len(tapes) + 1, !.lastUpdated = now]
  BY DEF BeginTape
<1>3. before \in Seq(TapeRecord) /\ Len(before) = Len(tapes) /\ DOMAIN before = DOMAIN tapes
  BY DEF Ended
<1>4. /\ NewTape \in TapeRecord
      /\ NewTape.call = calls /\ NewTape.state = "Created" /\ ~NewTape.shouldStop
  BY <1>1, NewTapeIsTape
<1> DEFINE r == NewTape
           n == Len(tapes) + 1
<1>5. n \in Nat /\ n # NoTape /\ DOMAIN tapes = 1 .. Len(tapes) /\ Len(tapes) \in Nat
  BY <1>1, TapeFacts DEF NoTape
<1>6. r \in TapeRecord /\ r.call = calls /\ r.state = "Created" /\ ~r.shouldStop
  BY <1>4
<1> HIDE DEF r
<1>7. tapes' = Append(before, r)
  BY <1>2 DEF r
<1> DEFINE new == Append(before, r)
<1>8. /\ new \in Seq(TapeRecord) /\ Len(new) = n /\ DOMAIN new = 1 .. n
      /\ \A j \in DOMAIN tapes : new[j] = before[j]
      /\ new[n] = r
  BY <1>3, <1>6, Appended
<1>9. tapes' = new
  BY <1>7
<1> HIDE DEF new
<1>10. now \in Nat /\ calls \in Nat
  BY <1>1 DEF TypeOK
<1>11. /\ port' \in PortRecord /\ port'.tape = n /\ port'.capturing
       /\ port'.vadUp = pt.vadUp
  BY <1>2, <1>5, <1>10 DEF PortRecord
<1> HIDE DEF n
<1>12. n \in DOMAIN new /\ \A j \in DOMAIN new : j = n \/ j \in DOMAIN tapes
  BY <1>5, <1>8 DEF n
<1>13. TypeOK'
  BY <1>1, <1>2, <1>5, <1>8, <1>9, <1>11 DEF TypeOK
<1>14. \A t \in DOMAIN tapes :
           /\ WillClose(before[t]) /\ before[t].call <= calls
           /\ before[t].state = "Stopped" => before[t].shouldStop
  BY <1>3, AllClosed
<1>15. \A t \in DOMAIN tapes :
           /\ WillClose(new[t]) /\ new[t].call <= calls
           /\ new[t].state = "Stopped" => new[t].shouldStop
  BY <1>8, <1>14
<1>16. TapesSound'
  BY <1>6, <1>8, <1>9, <1>10, <1>12, <1>15 DEF TapesSound
<1>17. SegmentsClosed'
  BY <1>9, <1>11, <1>12, <1>15 DEF SegmentsClosed, WillClose
<1>18. PortSound'
  BY <1>5, <1>11 DEF PortSound
<1>19. CurrentSound'
  BY <1>2, <1>11 DEF CurrentSound, Idle
<1>20. MissedOnlyBehind'
  BY <1>1, <1>2, MissedKept
<1> QED
  BY <1>13, <1>16, <1>17, <1>18, <1>19, <1>20 DEF IInv

\* Audio is missed only behind a stopped tape (AddAudioChunk, m_capturing).
LEMMA MissKeeps ==
  ASSUME IInv, NEW worth \in BOOLEAN, Miss(worth), worth => port.tape # NoTape
  PROVE  MissedOnlyBehind' /\ missed' \subseteq [call : Nat, behind : Int]
<1>1. TypeOK /\ MissedOnlyBehind
  BY DEF IInv
<1>2. CASE worth /\ ~port.capturing
  <2> DEFINE m == [call |-> IF session = "started" THEN calls ELSE 0, behind |-> Behind]
  <2>1. missed' = missed \cup {m}
    BY <1>2 DEF Miss
  <2>2. port.tape # NoTape /\ WillClose(tapes[port.tape])
    BY <1>2 DEF IInv, CurrentSound
  <2>3. Behind = tapes[port.tape].call
    BY <2>2 DEF Behind, WillClose
  <2>4. tapes[port.tape].call \in Nat /\ calls \in Nat
    BY <1>1, <2>2, PortFacts, TapeFacts DEF TypeOK
  <2>5. session = "started" => tapes[port.tape].call < calls
    BY <1>2, <2>2 DEF IInv, CurrentSound
  <2>6. /\ m.behind = tapes[port.tape].call /\ m \in [call : Nat, behind : Int]
        /\ m.call = IF session = "started" THEN calls ELSE 0
    BY <2>3, <2>4
  <2> HIDE DEF m
  <2>7. m.behind >= 0 /\ (m.call > 0 => m.behind < m.call)
    BY <2>4, <2>5, <2>6
  <2> QED
    BY <1>1, <2>1, <2>6, <2>7 DEF MissedOnlyBehind, TypeOK
<1>3. CASE ~(worth /\ ~port.capturing)
  BY <1>1, <1>3 DEF Miss, MissedOnlyBehind, TypeOK
<1> QED
  BY <1>2, <1>3

\* A chunk that neither begins nor ends a recording.
LEMMA GoesOnKeeps ==
  ASSUME IInv, NEW pt \in PortRecord, GoesOn(pt), NEW worth \in BOOLEAN, Miss(worth),
         worth => port.tape # NoTape, pt.backlog = port.backlog,
         pt.tape = port.tape, pt.capturing = port.capturing, pt.needSendStop = port.needSendStop,
         mode = "vad" => (pt.vadUp <=> port.tape # NoTape),
         UNCHANGED <<mode, plugin, calls, session, now>>
  PROVE  IInv'
<1>1. TypeOK
  BY DEF IInv
<1>2. port' = [pt EXCEPT !.lastUpdated = now] /\ tapes' = tapes /\ step' = Len(pt.backlog) + 1
  BY DEF GoesOn
<1>3. now \in Nat /\ Len(pt.backlog) \in Nat /\ calls \in Nat
  BY <1>1, PortFacts DEF TypeOK
<1>4. /\ port' \in PortRecord /\ port'.tape = port.tape /\ port'.capturing = port.capturing
      /\ port'.needSendStop = port.needSendStop /\ port'.vadUp = pt.vadUp
  BY <1>2, <1>3 DEF PortRecord
<1>5. MissedOnlyBehind' /\ missed' \subseteq [call : Nat, behind : Int]
  BY MissKeeps
<1>6. TypeOK'
  BY <1>1, <1>2, <1>3, <1>4, <1>5 DEF TypeOK
<1>7. TapesAlike
  BY <1>1, <1>2, UnchangedAlike
<1>8. port'.needSendStop => port.tape # NoTape
  BY <1>4 DEF IInv, PortSound
<1>9. mode = "vad" => (port'.vadUp <=> port.tape # NoTape)
  BY <1>4
<1>10. step' # 0 /\ calls' >= calls
  BY <1>2, <1>3
<1> QED
  BY <1>4, <1>5, <1>6, <1>7, <1>8, <1>9, <1>10, LifeKept

\* The end of AddAudioChunk: a recording under way is being written from now on.
LEMMA AddChunkKeeps ==
  ASSUME IInv, AddChunk
  PROVE  IInv'
<1>1. TypeOK /\ MissedOnlyBehind /\ PortSound
  BY DEF IInv
<1>2. step' = 0 /\ UNCHANGED <<mode, plugin, calls, session, now, port, missed>>
  BY DEF AddChunk, callVars
<1>3. MissedOnlyBehind'
  BY <1>1, <1>2, MissedKept
<1>4. PortSound'
  BY <1>1, <1>2 DEF PortSound
<1>5. CASE port.capturing
  <2> DEFINE x == Schedule(Take(tapes[port.tape]))
  <2>1. port.tape # NoTape
    BY <1>1, <1>5 DEF PortSound
  <2>2. tapes' = [tapes EXCEPT ![port.tape] = x]
    BY <1>5, <2>1 DEF AddChunk, PortTape
  <2>3. port.tape \in DOMAIN tapes /\ tapes[port.tape] \in TapeRecord /\ tapes \in Seq(TapeRecord)
    BY <1>1, <2>1, PortFacts, TapeFacts DEF TypeOK
  <2>4. /\ x \in TapeRecord /\ x.call = tapes[port.tape].call
        /\ x.state = tapes[port.tape].state /\ x.shouldStop = tapes[port.tape].shouldStop
        /\ x.isQueued /\ (x.state # "Stopped" => x.waiting)
    BY <2>3 DEF Schedule, Take, TapeRecord
  <2> HIDE DEF x
  <2> DEFINE new == [tapes EXCEPT ![port.tape] = x]
  <2>5. /\ new \in Seq(TapeRecord) /\ Len(new) = Len(tapes) /\ DOMAIN new = DOMAIN tapes
        /\ \A j \in DOMAIN tapes : new[j] = IF j = port.tape THEN x ELSE tapes[j]
    BY <2>3, <2>4, Replaced
  <2>6. tapes' = new
    BY <2>2
  <2> HIDE DEF new
  <2>7. TypeOK'
    BY <1>1, <1>2, <2>5, <2>6 DEF TypeOK
  <2>8. TapesSound'
    BY <1>2, <2>3, <2>4, <2>5, <2>6 DEF IInv, TapesSound
  <2>9. SegmentsClosed'
    BY <1>2, <2>5, <2>6 DEF IInv, SegmentsClosed, WillClose
  <2>10. new[port.tape] = x
    BY <2>3, <2>5
  <2>11. CurrentSound'
    BY <1>2, <1>5, <2>4, <2>6, <2>10 DEF CurrentSound
  <2> QED
    BY <1>3, <1>4, <2>7, <2>8, <2>9, <2>11 DEF IInv
<1>6. CASE ~port.capturing
  <2>1. tapes' = tapes
    BY <1>6 DEF AddChunk
  <2>2. TypeOK'
    BY <1>1, <1>2, <2>1 DEF TypeOK
  <2>3. TapesSound' /\ SegmentsClosed'
    BY <1>2, <2>1 DEF IInv, TapesSound, SegmentsClosed, WillClose
  <2>4. CurrentSound'
    BY <1>2, <1>6, <2>1 DEF IInv, CurrentSound, WillClose
  <2> QED
    BY <1>3, <1>4, <2>2, <2>3, <2>4 DEF IInv
<1> QED
  BY <1>5, <1>6

\* A chunk with AudioSegmentation.
LEMMA SegmentsKeep ==
  ASSUME IInv, ChunkSegments, mode = "segments",
         UNCHANGED <<mode, plugin, calls, session, now>>
  PROVE  IInv'
<1>1. TypeOK /\ PortSound
  BY DEF IInv
<1>2. port \in PortRecord
  BY <1>1, PortFacts
<1>3. CASE port.tape = NoTape /\ BeginTape(port, tapes)
  <2>1. Ended(tapes)
    BY <1>1, <1>3, NothingToEnd
  <2>2. ~port.needSendStop
    BY <1>1, <1>3 DEF PortSound
  <2>3. mode # "vad"
    OBVIOUS
  <2> QED
    BY <1>2, <1>3, <2>1, <2>2, <2>3, BeginKeeps
<1>4. CASE port.tape # NoTape /\ BeginTape(StopPort(port), PortTape(StopTape))
  <2> DEFINE pt == StopPort(port)
             before == PortTape(StopTape)
  <2>1. pt \in PortRecord /\ ~pt.needSendStop
    BY <1>2 DEF StopPort, PortRecord
  <2>2. Ended(before)
    BY <1>1, StopEnds
  <2>3. BeginTape(pt, before)
    BY <1>4
  <2>4. mode # "vad"
    OBVIOUS
  <2> HIDE DEF pt, before
  <2> QED
    BY <2>1, <2>2, <2>3, <2>4, BeginKeeps
<1>5. CASE port.tape # NoTape /\ Miss(TRUE) /\ GoesOn(port)
  <2>1. mode # "vad"
    OBVIOUS
  <2> QED
    BY <1>2, <1>5, <2>1, GoesOnKeeps
<1> QED
  BY <1>3, <1>4, <1>5 DEF ChunkSegments

\* A chunk with VAD while there is sound.
LEMMA VadUpKeeps ==
  ASSUME IInv, NEW level \in Level, ChunkVadUp(level), mode = "vad",
         UNCHANGED <<mode, plugin, calls, session, now>>
  PROVE  IInv'
<1>1. TypeOK /\ PortSound /\ MissedOnlyBehind
  BY DEF IInv
<1>2. port \in PortRecord /\ port.below \in Nat
  BY <1>1, PortFacts
<1>3. port.vadUp /\ port.tape # NoTape
  BY <1>1 DEF ChunkVadUp, PortSound
<1>4. Quieter(level) \in Nat
  BY <1>2 DEF Quieter
<1>5. CASE Miss(FALSE) /\ GoesOn(port)
  BY <1>2, <1>3, <1>5, GoesOnKeeps
<1>6. CASE Miss(level # "low") /\ GoesOn([port EXCEPT !.below = Quieter(level)])
  <2> DEFINE pt == [port EXCEPT !.below = Quieter(level)]
  <2>1. /\ pt \in PortRecord /\ pt.backlog = port.backlog /\ pt.tape = port.tape
        /\ pt.capturing = port.capturing /\ pt.needSendStop = port.needSendStop
        /\ pt.vadUp = port.vadUp
    BY <1>2, <1>4 DEF PortRecord
  <2>2. GoesOn(pt) /\ Miss(level # "low") /\ (level # "low") \in BOOLEAN
    BY <1>6
  <2> HIDE DEF pt
  <2> QED
    BY <1>3, <2>1, <2>2, GoesOnKeeps
<1>7. CASE /\ tapes' = PortTape(StopTape)
           /\ port' = [StopPort(port) EXCEPT !.vadUp = FALSE, !.below = Quieter(level),
                                             !.tape = NoTape, !.lastUpdated = now]
           /\ UNCHANGED <<step, missed>>
  <2> DEFINE new == PortTape(StopTape)
  <2>1. Ended(new) /\ tapes' = new
    BY <1>1, <1>7, StopEnds
  <2> HIDE DEF new
  <2>2. now \in Nat
    BY <1>1 DEF TypeOK
  <2>3. /\ port' \in PortRecord /\ port'.tape = NoTape /\ ~port'.capturing
        /\ ~port'.needSendStop /\ ~port'.vadUp
    BY <1>2, <1>4, <1>7, <2>2 DEF StopPort, PortRecord, NoTape
  <2>4. TypeOK'
    BY <1>1, <1>7, <2>1, <2>3, TapeFacts DEF TypeOK, Ended, NoTape
  <2>5. MissedOnlyBehind'
    BY <1>1, <1>7, MissedKept
  <2> QED
    BY <2>1, <2>3, <2>4, <2>5, EndKeeps
<1> QED
  BY <1>5, <1>6, <1>7 DEF ChunkVadUp

\* A chunk with VAD while there is none.
LEMMA VadDownKeeps ==
  ASSUME IInv, NEW level \in Level, ChunkVadDown(level), mode = "vad",
         UNCHANGED <<mode, plugin, calls, session, now>>
  PROVE  IInv'
<1> DEFINE up == [port EXCEPT !.vadUp = TRUE, !.below = 0]
<1>1. TypeOK /\ PortSound
  BY DEF IInv
<1>2. port \in PortRecord
  BY <1>1, PortFacts
<1>3. ~port.vadUp /\ port.tape = NoTape /\ ~port.needSendStop
  BY <1>1 DEF ChunkVadDown, PortSound
<1>4. /\ up \in PortRecord /\ up.vadUp /\ up.tape = port.tape
      /\ up.needSendStop = port.needSendStop
  BY <1>2 DEF PortRecord
<1>5. \/ level = "high" /\ BeginTape(up, tapes)
      \/ level # "high" /\ Miss(level = "high") /\ GoesOn(IF level = "high" THEN up ELSE port)
  BY <1>3 DEF ChunkVadDown
<1> HIDE DEF up
<1>6. CASE level = "high" /\ BeginTape(up, tapes)
  <2>1. Ended(tapes)
    BY <1>1, <1>3, NothingToEnd
  <2> QED
    BY <1>3, <1>4, <1>6, <2>1, BeginKeeps
<1>7. CASE level # "high" /\ Miss(level = "high") /\ GoesOn(IF level = "high" THEN up ELSE port)
  <2>1. Miss(FALSE) /\ GoesOn(port)
    <3>1. (level = "high") = FALSE
      BY <1>7
    <3> QED
      BY <1>7, <3>1
  <2> QED
    BY <1>2, <1>3, <2>1, GoesOnKeeps
<1> QED
  BY <1>5, <1>6, <1>7

\* A chunk (AddAudioChunk).
LEMMA ChunkKeeps ==
  ASSUME IInv, NEW level \in Level, Chunk(level)
  PROVE  IInv'
<1>1. UNCHANGED <<mode, plugin, calls, session, now>>
  BY DEF Chunk, callVars
<1>2. \/ mode = "segments" /\ ChunkSegments
      \/ mode = "vad" /\ (ChunkVadUp(level) \/ ChunkVadDown(level))
  BY DEF Chunk
<1> QED
  BY <1>1, <1>2, SegmentsKeep, VadUpKeeps, VadDownKeeps

-----------------------------------------------------------------------------
(* The behaviours of the port.                                               *)

\* A port nobody called yet (CapturePort::CapturePort).
LEMMA InitHolds ==
  ASSUME Init
  PROVE  IInv
<1>1. mode \in Mode /\ plugin \in Plugin /\ now = 0 /\ calls = 0 /\ session = "idle"
  BY DEF Init
<1>2. port = NewPort /\ tapes = <<>> /\ step = 0 /\ missed = {}
  BY DEF Init
<1>3. /\ port \in PortRecord /\ port.tape = 0 /\ ~port.capturing /\ ~port.needSendStop
      /\ ~port.vadUp
  BY <1>2 DEF NewPort, PortRecord, NoTape
<1>4. Len(tapes) = 0 /\ tapes \in Seq(TapeRecord) /\ DOMAIN tapes = {}
  BY <1>2
<1>5. TypeOK
  BY <1>1, <1>2, <1>3, <1>4 DEF TypeOK
<1>6. TapesSound /\ SegmentsClosed
  BY <1>4 DEF TapesSound, SegmentsClosed
<1>7. PortSound /\ CurrentSound
  BY <1>3 DEF PortSound, CurrentSound, NoTape
<1>8. MissedOnlyBehind
  BY <1>2 DEF MissedOnlyBehind
<1> QED
  BY <1>5, <1>6, <1>7, <1>8 DEF IInv

\* Every step, and none, keeps the invariant.
LEMMA StepKeeps ==
  ASSUME IInv, [Next]_vars
  PROVE  IInv'
<1>1. CASE StartCall
  BY <1>1, StartCallKeeps
<1>2. CASE ReportUid \/ ReportEnd \/ ReportUpdate
  BY <1>2, ReportsKeep
<1>3. CASE StopCall
  BY <1>3, StopCallKeeps
<1>4. CASE \E level \in Level : Chunk(level)
  BY <1>4, ChunkKeeps
<1>5. CASE Replay
  BY <1>5, ReplayKeeps
<1>6. CASE AddChunk
  BY <1>6, AddChunkKeeps
<1>7. CASE \E t \in DOMAIN tapes : Write(t)
  BY <1>7, WriteKeeps
<1>8. CASE Expire
  BY <1>8, ExpireKeeps
<1>9. CASE Tick
  BY <1>9, TickKeeps
<1>10. CASE UNCHANGED vars
  <2>1. UNCHANGED <<mode, plugin, now, calls, session, port, tapes, step, missed>>
    BY <1>10 DEF vars
  <2>2. TypeOK'
    BY <2>1 DEF IInv, TypeOK
  <2>3. TapesSound' /\ PortSound' /\ SegmentsClosed' /\ MissedOnlyBehind'
    BY <2>1 DEF IInv, TapesSound, PortSound, SegmentsClosed, WillClose, MissedOnlyBehind
  <2>4. CurrentSound'
    BY <2>1 DEF IInv, CurrentSound, WillClose, Idle
  <2> QED
    BY <2>2, <2>3, <2>4 DEF IInv
<1> QED
  BY <1>1, <1>2, <1>3, <1>4, <1>5, <1>6, <1>7, <1>8, <1>9, <1>10 DEF Next

\* The inductive invariant of CapturePort's segmentation and VAD holds always.
THEOREM SegmentsSound == Spec => []IInv
<1>1. Init => IInv
  BY InitHolds
<1>2. IInv /\ [Next]_vars => IInv'
  BY StepKeeps
<1> QED
  BY <1>1, <1>2, PTL DEF Spec

\* A port refers to a tape that exists, and tapes, events and counters are what they should
\* be, whatever the order of callbacks (CapturePort.cpp, AudioTape.cpp).
THEOREM TypeCorrect == Spec => []TypeOK
<1>1. IInv => TypeOK
  BY DEF IInv
<1> QED
  BY <1>1, SegmentsSound, PTL

\* The tape that the VAD branch of AddAudioChunk and Finalize dereference is there, for any
\* order of calls, chunks and expiry.
THEOREM DereferencesSafe == Spec => []PortSound
<1>1. IInv => PortSound
  BY DEF IInv
<1> QED
  BY <1>1, SegmentsSound, PTL

\* For any number of calls and segments: no recording the port let go of stays open.
THEOREM NoneLeftOpen == Spec => []SegmentsClosed
<1>1. IInv => SegmentsClosed
  BY DEF IInv
<1> QED
  BY <1>1, SegmentsSound, PTL

\* For any number of calls and segments: no sound is missed but behind a tape that an
\* earlier call left stopped.
THEOREM MissedProved == Spec => []MissedOnlyBehind
<1>1. IInv => MissedOnlyBehind
  BY DEF IInv
<1> QED
  BY <1>1, SegmentsSound, PTL

-----------------------------------------------------------------------------
(* The story that the messages of a recording tell.                          *)

\* The backlog of a call from its first event on, and one that lost its first events when
\* the port expired in the middle of the call.
Whole(b) ==
  /\ Len(b) >= 2 /\ b[1].type = "uid" /\ b[1].uid[1] = calls /\ b[2].type = "end"
  /\ \A i \in 3 .. Len(b) : b[i].type = "update"
Plain(b) == \A i \in DOMAIN b : b[i].type = "update"

\* The backlog is of the call under way.
BacklogInv ==
  /\ session \in {"idle", "starting"} => port.backlog = <<>>
  /\ session = "named" => Len(port.backlog) = 1 /\ port.backlog[1].type = "uid"
                          /\ port.backlog[1].uid[1] = calls
  /\ session = "started" => Whole(port.backlog) \/ Plain(port.backlog)
  /\ ~Reported(plugin) => session \in {"idle", "started"} /\ port.backlog = <<>>

\* The recordings of the last call that were begun with its metadata at hand.
Present == {t \in DOMAIN tapes : tapes[t].told /\ tapes[t].call = calls}

\* Which call the tapes are of, and the port's in particular.
CallInv ==
  /\ session # "idle" => calls > 0
  /\ plugin = "voip" => calls <= 1 /\ \A t \in DOMAIN tapes : tapes[t].call = calls
  /\ Reported(plugin) => \A t \in DOMAIN tapes : tapes[t].call > 0
  /\ ~Reported(plugin) => \A t \in DOMAIN tapes : ~tapes[t].told
  /\ session \in {"starting", "named"} => \A t \in DOMAIN tapes : tapes[t].call < calls
  /\ port.capturing => ~tapes[port.tape].shouldStop /\ (session = "started" \/ plugin = "sound")
  /\ port.needSendStop /\ ~port.capturing => tapes[port.tape].call < calls

\* Where AddAudioChunk is: only a recording just begun is told the backlog.
ReplayInv ==
  /\ step \in 0 .. Len(port.backlog) + 1
  /\ step # 0 => Talking
  /\ step \in DOMAIN port.backlog => port.capturing /\ tapes[port.tape].call = calls
  /\ session = "started" /\ port.tape \in Present => Whole(port.backlog)

\* A recording has its identifier after the first event of the backlog, its start is told
\* with the second.
Numbered(t) == t # port.tape \/ step # 1
Begun(t) == t # port.tape \/ step \notin {1, 2}

\* The messages of a recording whose start was told.
Story(tp) ==
  LET ends == IF tp.shouldStop THEN 1 ELSE 0
      n == Len(tp.msgs)
  IN /\ tp.toSend = <<>>
     /\ tp.msgs # <<>> /\ Head(tp.msgs) = "start"
     /\ \A i \in 2 .. n - ends : tp.msgs[i] = "update"
     /\ ends = 1 => n > 1 /\ tp.msgs[n] = "stop"

StoryInv ==
  /\ \A t \in Present :
       /\ Numbered(t) => /\ tapes[t].uid[1] = calls /\ tapes[t].uid[2] > 0
                         /\ Whole(port.backlog) => tapes[t].uid[2] <= port.segmentNumber
       /\ Begun(t) => Story(tapes[t])
       /\ ~Begun(t) => tapes[t].toSend = <<"start">> /\ tapes[t].msgs = <<>>
  /\ \A t, u \in Present : t # u /\ Numbered(t) /\ Numbered(u) => tapes[t].uid # tapes[u].uid

OwnInv == BacklogInv /\ CallInv /\ ReplayInv /\ StoryInv

\* What the messages of two tapes tell is the same.
Tale(a, b) ==
  /\ a.call = b.call /\ a.told = b.told /\ a.uid = b.uid
  /\ a.shouldStop = b.shouldStop /\ a.toSend = b.toSend /\ a.msgs = b.msgs

\* Every tape is of the call it was, and was begun with the metadata it was begun with.
MarksKept ==
  /\ DOMAIN tapes' = DOMAIN tapes
  /\ \A t \in DOMAIN tapes : tapes'[t].call = tapes[t].call /\ tapes'[t].told = tapes[t].told

\* The types that arithmetic is done on.
LEMMA OwnTypes ==
  ASSUME TypeOK
  PROVE  /\ calls \in Nat /\ step \in Nat /\ port.segmentNumber \in Nat
         /\ port.backlog \in Seq(EventRecord) /\ Len(port.backlog) \in Nat
         /\ DOMAIN port.backlog = 1 .. Len(port.backlog)
         /\ \A t \in DOMAIN tapes : /\ tapes[t] \in TapeRecord
                                    /\ tapes[t].uid \in Nat \X Nat /\ tapes[t].uid[2] \in Nat
                                    /\ tapes[t].told \in BOOLEAN /\ tapes[t].call \in Nat
                                    /\ tapes[t].msgs \in Seq(Stages) /\ tapes[t].toSend \in Seq(Stages)
<1>1. port.backlog \in Seq(EventRecord) /\ port.segmentNumber \in Nat
  BY PortFacts
<1>2. \A r \in TapeRecord : /\ r.uid \in Nat \X Nat /\ r.uid[2] \in Nat /\ r.told \in BOOLEAN
                            /\ r.call \in Nat /\ r.msgs \in Seq(Stages) /\ r.toSend \in Seq(Stages)
  BY DEF TapeRecord
<1>3. Len(port.backlog) \in Nat /\ DOMAIN port.backlog = 1 .. Len(port.backlog)
  BY <1>1
<1> QED
  BY <1>1, <1>2, <1>3, TapeFacts DEF TypeOK

\* Steps after which every recording of the call tells what it should.
LEMMA StoryKept ==
  ASSUME TypeOK, StoryInv, MarksKept, calls' = calls, port'.segmentNumber \in Nat,
         \A t \in Present :
           /\ Numbered(t)' => Numbered(t) /\ tapes'[t].uid = tapes[t].uid
           /\ Begun(t)' => Story(tapes'[t])
           /\ ~Begun(t)' => tapes'[t].toSend = <<"start">> /\ tapes'[t].msgs = <<>>
           /\ Whole(port.backlog)' => Whole(port.backlog) /\ port'.segmentNumber >= port.segmentNumber
  PROVE  StoryInv'
<1>1. Present' = Present /\ Present \subseteq DOMAIN tapes
  BY DEF Present, MarksKept
<1>2. ASSUME NEW t \in Present
      PROVE  /\ Numbered(t)' => /\ tapes'[t].uid[1] = calls /\ tapes'[t].uid[2] > 0
                                /\ Whole(port.backlog)' => tapes'[t].uid[2] <= port'.segmentNumber
             /\ Begun(t)' => Story(tapes'[t])
             /\ ~Begun(t)' => tapes'[t].toSend = <<"start">> /\ tapes'[t].msgs = <<>>
  <2>1. tapes[t].uid[2] \in Nat /\ port.segmentNumber \in Nat
    BY <1>1, OwnTypes
  <2> QED
    BY <2>1 DEF StoryInv
<1>3. \A t, u \in Present : t # u /\ Numbered(t)' /\ Numbered(u)' => tapes'[t].uid # tapes'[u].uid
  BY DEF StoryInv
<1> QED
  BY <1>1, <1>2, <1>3 DEF StoryInv, Story

\* Steps that leave the calls alone.
LEMMA CallKept ==
  ASSUME CallInv, MarksKept, UNCHANGED <<plugin, calls>>,
         session' # "idle" => session # "idle",
         session' \in {"starting", "named"} => session \in {"starting", "named"},
         port'.capturing => ~tapes'[port'.tape].shouldStop /\ (session' = "started" \/ plugin = "sound"),
         port'.needSendStop /\ ~port'.capturing => tapes'[port'.tape].call < calls
  PROVE  CallInv'
<1>1. /\ session' # "idle" => calls' > 0
      /\ plugin' = "voip" => calls' <= 1 /\ \A t \in DOMAIN tapes' : tapes'[t].call = calls'
  BY DEF CallInv, MarksKept
<1>2. /\ Reported(plugin)' => \A t \in DOMAIN tapes' : tapes'[t].call > 0
      /\ ~Reported(plugin)' => \A t \in DOMAIN tapes' : ~tapes'[t].told
  BY DEF CallInv, MarksKept, Reported
<1>3. session' \in {"starting", "named"} => \A t \in DOMAIN tapes' : tapes'[t].call < calls'
  BY DEF CallInv, MarksKept
<1> QED
  BY <1>1, <1>2, <1>3 DEF CallInv

\* A recording in progress whose port is told the backlog has all of it to be told.
LEMMA PresentWhole ==
  ASSUME TypeOK, OwnInv, Talking, port.tape \in Present
  PROVE  session = "started" /\ Whole(port.backlog) /\ Len(port.backlog) >= 2
<1>1. port.tape \in DOMAIN tapes /\ tapes[port.tape].told
  BY DEF Present
<1>2. session = "started"
  BY <1>1 DEF Talking, OwnInv, CallInv, Reported
<1> QED
  BY <1>2 DEF OwnInv, ReplayInv, Whole

\* Steps that tell nothing: the clock, the immediate thread, a chunk.
LEMMA QuietOwn ==
  ASSUME TypeOK, OwnInv, DOMAIN tapes' = DOMAIN tapes,
         \A t \in DOMAIN tapes : Tale(tapes'[t], tapes[t]),
         port'.tape = port.tape, port'.capturing = port.capturing,
         port'.needSendStop = port.needSendStop, port'.backlog = port.backlog,
         port'.segmentNumber = port.segmentNumber, UNCHANGED <<plugin, calls, session>>,
         \/ step' = step
         \/ /\ step \in {0, Len(port.backlog) + 1}
            /\ step' = 0 \/ (step' = Len(port.backlog) + 1 /\ Talking),
         port.capturing \/ port.needSendStop => port.tape \in DOMAIN tapes
  PROVE  OwnInv'
<1>1. MarksKept
  BY DEF MarksKept, Tale
<1>2. BacklogInv'
  BY DEF OwnInv, BacklogInv, Whole, Plain, Reported
<1>3. CallInv'
  BY <1>1, CallKept DEF OwnInv, CallInv, Tale
<1>4. Whole(port.backlog)' <=> Whole(port.backlog)
  BY DEF Whole
<1>5. Present' = Present /\ Present \subseteq DOMAIN tapes
  BY <1>1 DEF Present, MarksKept
<1>6. ReplayInv'
  <2>1. step' # 0 => Talking
    BY DEF OwnInv, ReplayInv
  <2>2. step' \in 0 .. Len(port.backlog) + 1
    BY OwnTypes DEF OwnInv, ReplayInv
  <2>3. step' \in DOMAIN port.backlog => step' = step
    BY OwnTypes
  <2>4. step' \in DOMAIN port.backlog => port.capturing /\ tapes'[port.tape].call = calls
    BY <2>3 DEF OwnInv, ReplayInv, Tale
  <2> QED
    BY <1>4, <1>5, <2>1, <2>2, <2>4 DEF OwnInv, ReplayInv, Talking
<1>7. ASSUME NEW t \in Present
      PROVE  (Numbered(t)' <=> Numbered(t)) /\ (Begun(t)' <=> Begun(t))
  <2>1. CASE step' = step \/ t # port.tape
    BY <2>1 DEF Numbered, Begun
  <2>2. CASE step' # step /\ t = port.tape
    <3>1. step \notin {1, 2}
      <4>1. CASE step = 0
        BY <4>1
      <4>2. CASE step = Len(port.backlog) + 1
        <5>1. Len(port.backlog) >= 2
          BY <1>7, <2>2, <4>2, OwnTypes, PresentWhole DEF OwnInv, ReplayInv
        <5> QED
          BY <4>2, <5>1, OwnTypes
      <4> QED
        BY <2>2, <4>1, <4>2
    <3>2. step' \notin {1, 2}
      <4>1. CASE step' = 0
        BY <4>1
      <4>2. CASE step' = Len(port.backlog) + 1 /\ Talking
        <5>1. Len(port.backlog) >= 2
          BY <1>7, <2>2, <4>2, PresentWhole
        <5> QED
          BY <4>2, <5>1, OwnTypes
      <4> QED
        BY <2>2, <4>1, <4>2
    <3> QED
      BY <3>1, <3>2 DEF Numbered, Begun
  <2> QED
    BY <2>1, <2>2
<1>8. StoryInv'
  <2>1. \A t \in Present :
           /\ Numbered(t)' => Numbered(t) /\ tapes'[t].uid = tapes[t].uid
           /\ Begun(t)' => Story(tapes'[t])
           /\ ~Begun(t)' => tapes'[t].toSend = <<"start">> /\ tapes'[t].msgs = <<>>
    BY <1>5, <1>7 DEF OwnInv, StoryInv, Story, Tale
  <2>2. port.segmentNumber \in Nat /\ port'.segmentNumber >= port.segmentNumber
    BY OwnTypes
  <2> QED
    BY <1>1, <1>4, <2>1, <2>2, StoryKept DEF OwnInv
<1> QED
  BY <1>2, <1>3, <1>6, <1>8 DEF OwnInv

\* A message sent is the first of the events that wait (AudioTape::GetMessage).
LEMMA SendTells ==
  ASSUME NEW tp \in TapeRecord
  PROVE  LET x == Send(tp)
         IN  /\ x \in TapeRecord /\ x.call = tp.call /\ x.told = tp.told /\ x.uid = tp.uid
             /\ x.shouldStop = tp.shouldStop
             /\ x.msgs = Append(tp.msgs, Stage(tp))
             /\ x.toSend = IF tp.toSend = <<>> THEN tp.toSend ELSE Tail(tp.toSend)
<1> DEFINE m == Append(tp.msgs, Stage(tp))
           s == IF tp.toSend = <<>> THEN tp.toSend ELSE Tail(tp.toSend)
<1>1. Send(tp) = [tp EXCEPT !.msgs = m, !.toSend = s]
  BY DEF Send
<1>2. Send(tp) \in TapeRecord
  BY SendKeeps
<1> HIDE DEF m, s
<1>3. /\ Send(tp).call = tp.call /\ Send(tp).told = tp.told /\ Send(tp).uid = tp.uid
      /\ Send(tp).shouldStop = tp.shouldStop /\ Send(tp).msgs = m /\ Send(tp).toSend = s
  BY <1>1 DEF TapeRecord
<1> QED
  BY <1>2, <1>3 DEF m, s

\* The start is told first.
LEMMA StartTold ==
  ASSUME NEW tp \in TapeRecord, tp.toSend = <<"start">>, tp.msgs = <<>>, ~tp.shouldStop
  PROVE  Story(Send(tp))
<1> DEFINE x == Send(tp)
<1>1. Stage(tp) = "start"
  BY DEF Stage
<1>2. /\ ~x.shouldStop /\ x.msgs = <<"start">> /\ x.toSend = <<>>
  <2>1. ~x.shouldStop /\ x.msgs = Append(tp.msgs, "start") /\ x.toSend = Tail(tp.toSend)
    <3>1. tp.toSend # <<>>
      OBVIOUS
    <3> QED
      BY <1>1, <3>1, SendTells
  <2> HIDE DEF x
  <2>2. Append(tp.msgs, "start") = <<"start">> /\ Tail(tp.toSend) = <<>>
    OBVIOUS
  <2> QED
    BY <2>1, <2>2
<1> HIDE DEF x
<1>3. \A i \in 2 .. Len(x.msgs) - 0 : x.msgs[i] = "update"
  BY <1>2
<1> QED
  BY <1>2, <1>3 DEF Story, x

\* An event queued and sent at once is the next message of the story.
LEMMA NextTold ==
  ASSUME NEW tp \in TapeRecord, tp.toSend = <<>>, NEW e \in Stages
  PROVE  LET x == Send(Push(tp, e))
         IN  /\ x \in TapeRecord /\ x.call = tp.call /\ x.told = tp.told /\ x.uid = tp.uid
             /\ x.shouldStop = tp.shouldStop
             /\ x.msgs = Append(tp.msgs, e) /\ x.toSend = <<>>
<1> DEFINE y == Push(tp, e)
           s == Append(tp.toSend, e)
<1>1. y \in TapeRecord
  BY PushKeeps
<1>2. y = [tp EXCEPT !.toSend = s]
  BY DEF Push
<1>3. s = <<e>>
  OBVIOUS
<1> HIDE DEF s, y
<1>4. /\ y.call = tp.call /\ y.told = tp.told /\ y.uid = tp.uid /\ y.shouldStop = tp.shouldStop
      /\ y.msgs = tp.msgs /\ y.toSend = s
  BY <1>2 DEF TapeRecord
<1>5. Stage(y) = e /\ Tail(y.toSend) = <<>> /\ y.toSend # <<>>
  BY <1>3, <1>4 DEF Stage
<1> QED
  BY <1>1, <1>4, <1>5, SendTells DEF y

\* An update in the middle of a recording.
LEMMA UpdateTold ==
  ASSUME NEW tp \in TapeRecord, Story(tp), ~tp.shouldStop
  PROVE  Story(Send(Push(tp, "update")))
<1> DEFINE x == Send(Push(tp, "update"))
           n == Len(tp.msgs)
<1>1. /\ tp.toSend = <<>> /\ tp.msgs # <<>> /\ Head(tp.msgs) = "start"
      /\ \A i \in 2 .. n - 0 : tp.msgs[i] = "update"
  BY DEF Story
<1>2. ~x.shouldStop /\ x.msgs = Append(tp.msgs, "update") /\ x.toSend = <<>>
  BY <1>1, NextTold DEF Stages
<1>3. tp.msgs \in Seq(Stages) /\ n \in Nat
  BY DEF TapeRecord
<1> HIDE DEF x
<1>4. /\ Len(x.msgs) = n + 1 /\ x.msgs[n + 1] = "update" /\ \A i \in 1 .. n : x.msgs[i] = tp.msgs[i]
      /\ n > 0 /\ x.msgs # <<>> /\ Head(x.msgs) = x.msgs[1] /\ Head(tp.msgs) = tp.msgs[1]
  BY <1>1, <1>2, <1>3
<1>5. \A i \in 2 .. Len(x.msgs) - 0 : x.msgs[i] = "update"
  BY <1>1, <1>3, <1>4
<1>6. Head(x.msgs) = "start"
  BY <1>1, <1>3, <1>4
<1> QED
  BY <1>2, <1>4, <1>5, <1>6 DEF Story, x

\* The stop that ends it.
LEMMA StopTold ==
  ASSUME NEW tp \in TapeRecord
  PROVE  /\ StopTape(tp).call = tp.call /\ StopTape(tp).told = tp.told /\ StopTape(tp).uid = tp.uid
         /\ Story(tp) /\ ~tp.shouldStop => Story(StopTape(tp))
<1> DEFINE y == [tp EXCEPT !.shouldStop = TRUE]
           z == Send(Push(y, "stop"))
           x == StopTape(tp)
           n == Len(tp.msgs)
<1>1. /\ y \in TapeRecord /\ y.shouldStop /\ y.call = tp.call /\ y.told = tp.told /\ y.uid = tp.uid
      /\ y.msgs = tp.msgs /\ y.toSend = tp.toSend
  BY DEF TapeRecord
<1>2. x = Schedule(z)
  BY DEF StopTape
<1> HIDE DEF y
<1>3. Push(y, "stop") \in TapeRecord /\ z \in TapeRecord
  BY <1>1, PushKeeps, SendKeeps DEF Stages
<1>4. Push(y, "stop").told = y.told /\ Push(y, "stop").uid = y.uid /\ Push(y, "stop").call = y.call
  BY <1>1 DEF Push, TapeRecord
<1>5. z.call = tp.call /\ z.told = tp.told /\ z.uid = tp.uid
  BY <1>1, <1>3, <1>4, SendTells
<1>6. tp.toSend = <<>> => z.msgs = Append(tp.msgs, "stop") /\ z.toSend = <<>> /\ z.shouldStop
  BY <1>1, NextTold DEF Stages
<1> HIDE DEF z
<1>7. /\ x.call = z.call /\ x.told = z.told /\ x.uid = z.uid /\ x.shouldStop = z.shouldStop
      /\ x.msgs = z.msgs /\ x.toSend = z.toSend
  BY <1>2, <1>3 DEF Schedule, TapeRecord
<1> HIDE DEF x
<1>8. ASSUME Story(tp), ~tp.shouldStop PROVE Story(x)
  <2>1. /\ tp.toSend = <<>> /\ tp.msgs # <<>> /\ Head(tp.msgs) = "start"
        /\ \A i \in 2 .. n - 0 : tp.msgs[i] = "update"
    BY <1>8 DEF Story
  <2>2. x.shouldStop /\ x.msgs = Append(tp.msgs, "stop") /\ x.toSend = <<>>
    BY <1>6, <1>7, <2>1
  <2>3. tp.msgs \in Seq(Stages) /\ n \in Nat
    BY DEF TapeRecord
  <2>4. /\ Len(x.msgs) = n + 1 /\ x.msgs[n + 1] = "stop" /\ \A i \in 1 .. n : x.msgs[i] = tp.msgs[i]
        /\ n > 0 /\ x.msgs # <<>> /\ Head(x.msgs) = x.msgs[1] /\ Head(tp.msgs) = tp.msgs[1]
    BY <2>1, <2>2, <2>3
  <2>5. \A i \in 2 .. Len(x.msgs) - 1 : x.msgs[i] = "update"
    BY <2>1, <2>3, <2>4
  <2>6. Head(x.msgs) = "start" /\ Len(x.msgs) > 1
    BY <2>1, <2>3, <2>4
  <2> QED
    BY <2>2, <2>3, <2>4, <2>5, <2>6 DEF Story
<1> QED
  BY <1>5, <1>7, <1>8 DEF x

-----------------------------------------------------------------------------
(* The steps, and the stories.                                               *)

\* The port's tape, changed by a callback.
LEMMA PortTapeIs ==
  ASSUME TypeOK, NEW x, port.tape # NoTape
  PROVE  LET new == [tapes EXCEPT ![port.tape] = x]
         IN  /\ DOMAIN new = DOMAIN tapes /\ port.tape \in DOMAIN tapes
             /\ \A t \in DOMAIN tapes : new[t] = IF t = port.tape THEN x ELSE tapes[t]
BY PortFacts DEF TypeOK

\* A recording of the call that the port is at work on was not told to stop, and whoever
\* ends it tells the rest of its story.
LEMMA PresentOpen ==
  ASSUME IInv, OwnInv, port.tape \in Present, Idle, session = "started"
  PROVE  /\ port.capturing /\ ~tapes[port.tape].shouldStop /\ port.tape # NoTape
         /\ Story(tapes[port.tape]) /\ tapes[port.tape] \in TapeRecord /\ port.tape \in DOMAIN tapes
<1>1. TypeOK
  BY DEF IInv
<1>2. port.tape \in DOMAIN tapes /\ tapes[port.tape] \in TapeRecord /\ port.tape # NoTape
  BY <1>1, TapeFacts DEF Present, NoTape
<1>3. tapes[port.tape].call = calls /\ calls \in Nat
  BY <1>1, OwnTypes DEF Present
<1>4. port.capturing
  BY <1>2, <1>3 DEF IInv, CurrentSound
<1> QED
  BY <1>2, <1>4 DEF OwnInv, CallInv, StoryInv, Begun, Idle

\* A start (CaptureEventCallBack).
LEMMA StartCallOwn ==
  ASSUME IInv, OwnInv, StartCall
  PROVE  OwnInv'
<1>1. TypeOK
  BY DEF IInv
<1>2. /\ calls' = calls + 1 /\ session = "idle" /\ step = 0 /\ calls \in Nat
      /\ session' = (IF Reported(plugin) THEN "starting" ELSE "started")
      /\ (calls > 0 => Reuses(plugin))
      /\ UNCHANGED <<plugin, port, tapes, step>>
  BY <1>1 DEF StartCall, Idle, TypeOK
<1>3. \A t \in DOMAIN tapes : tapes[t].call \in Nat /\ tapes[t].call <= calls
  BY <1>1, OwnTypes DEF IInv, TapesSound
<1>4. Present' = {}
  BY <1>2, <1>3 DEF Present
<1>5. StoryInv'
  BY <1>4 DEF StoryInv
<1>6. port.backlog = <<>>
  BY <1>2 DEF OwnInv, BacklogInv
<1>7. Plain(port.backlog)'
  BY <1>2, <1>6 DEF Plain
<1>8. BacklogInv'
  BY <1>2, <1>6, <1>7 DEF BacklogInv, Reported
<1>9. ReplayInv'
  BY <1>2, <1>4, <1>6 DEF ReplayInv
<1>10. CallInv'
  <2>1. \A t \in DOMAIN tapes' : tapes'[t].call < calls'
    BY <1>2, <1>3
  <2>2. ~port.capturing \/ plugin = "sound"
    BY <1>2 DEF OwnInv, CallInv
  <2>3. port'.capturing => ~tapes'[port'.tape].shouldStop /\ (session' = "started" \/ plugin' = "sound")
    BY <1>2, <2>2 DEF OwnInv, CallInv
  <2>4. port'.needSendStop /\ ~port'.capturing => tapes'[port'.tape].call < calls'
    <3>1. port.needSendStop => port.tape \in DOMAIN tapes
      BY <1>1, PortFacts DEF IInv, PortSound
    <3> QED
      BY <1>2, <2>1, <3>1
  <2>5. plugin = "voip" => calls = 0 /\ DOMAIN tapes = {}
    <3> SUFFICES ASSUME plugin = "voip" PROVE calls = 0 /\ DOMAIN tapes = {}
      OBVIOUS
    <3>1. calls = 0
      BY <1>2 DEF Reuses
    <3>2. ASSUME NEW t \in DOMAIN tapes PROVE FALSE
      <4>1. tapes[t].call = 0
        BY <3>1 DEF OwnInv, CallInv
      <4>2. tapes[t].call > 0
        BY DEF OwnInv, CallInv, Reported
      <4> QED
        BY <4>1, <4>2
    <3> QED
      BY <3>1, <3>2
  <2>6. plugin' = "voip" => calls' <= 1 /\ \A t \in DOMAIN tapes' : tapes'[t].call = calls'
    BY <1>2, <2>5
  <2>7. /\ Reported(plugin)' => \A t \in DOMAIN tapes' : tapes'[t].call > 0
        /\ ~Reported(plugin)' => \A t \in DOMAIN tapes' : ~tapes'[t].told
    BY <1>2 DEF OwnInv, CallInv, Reported
  <2>8. calls' > 0
    BY <1>2
  <2> QED
    BY <2>1, <2>3, <2>4, <2>6, <2>7, <2>8 DEF CallInv
<1> QED
  BY <1>5, <1>8, <1>9, <1>10 DEF OwnInv

\* An event on the port's tape leaves its marks (AddCaptureEvent).
LEMMA OnTapeMarks ==
  ASSUME NEW tp \in TapeRecord, NEW e \in EventRecord
  PROVE  /\ OnTape(tp, e).call = tp.call /\ OnTape(tp, e).told = tp.told
         /\ OnTape(tp, e).shouldStop = tp.shouldStop
         /\ e.type # "uid" => OnTape(tp, e).uid = tp.uid
<1>1. CASE e.type = "uid"
  BY <1>1 DEF OnTape, TapeRecord
<1>2. CASE e.type = "end"
  BY <1>2, SendTells DEF OnTape
<1>3. CASE e.type = "update"
  <2> DEFINE y == Push(tp, "update")
  <2>1. y \in TapeRecord
    BY PushKeeps DEF Stages
  <2>2. y.call = tp.call /\ y.told = tp.told /\ y.shouldStop = tp.shouldStop /\ y.uid = tp.uid
    BY DEF Push, TapeRecord
  <2> HIDE DEF y
  <2>3. OnTape(tp, e) = Send(y)
    BY <1>3 DEF OnTape, y
  <2> QED
    BY <2>1, <2>2, <2>3, SendTells
<1> QED
  BY <1>1, <1>2, <1>3 DEF EventRecord, EventType

\* An event that the port's tape handles, if there is one.
LEMMA EventMarks ==
  ASSUME TypeOK, NEW e \in EventRecord, tapes' = PortTape(LAMBDA tp : OnTape(tp, e))
  PROVE  /\ MarksKept
         /\ \A t \in DOMAIN tapes : /\ tapes'[t].shouldStop = tapes[t].shouldStop
                                    /\ t # port.tape => tapes'[t] = tapes[t]
                                    /\ t = port.tape => tapes'[t] = OnTape(tapes[t], e)
<1>1. CASE port.tape = NoTape
  <2>1. tapes' = tapes
    BY <1>1 DEF PortTape
  <2>2. \A t \in DOMAIN tapes : t # port.tape
    BY <1>1, TapeFacts DEF NoTape
  <2> QED
    BY <2>1, <2>2 DEF MarksKept
<1>2. CASE port.tape # NoTape
  <2> DEFINE x == OnTape(tapes[port.tape], e)
             new == [tapes EXCEPT ![port.tape] = x]
  <2>1. tapes' = new
    BY <1>2 DEF PortTape
  <2>2. port.tape \in DOMAIN tapes /\ tapes[port.tape] \in TapeRecord
    BY <1>2, PortFacts, TapeFacts
  <2>3. x.call = tapes[port.tape].call /\ x.told = tapes[port.tape].told /\ x.shouldStop = tapes[port.tape].shouldStop
    BY <2>2, OnTapeMarks
  <2>4. DOMAIN new = DOMAIN tapes /\ \A t \in DOMAIN tapes : new[t] = IF t = port.tape THEN x ELSE tapes[t]
    BY <1>2, PortTapeIs
  <2> HIDE DEF new
  <2>5. \A t \in DOMAIN tapes : t = port.tape => tapes'[t] = OnTape(tapes[t], e)
    BY <2>1, <2>4
  <2> HIDE DEF x
  <2> QED
    BY <2>1, <2>3, <2>4, <2>5 DEF MarksKept
<1> QED
  BY <1>1, <1>2

\* What a metadata event makes of the port (AddCaptureEvent, and the backlog).
LEMMA EventPort ==
  ASSUME TypeOK, NEW type \in EventType, Event(type)
  PROVE  LET e == [type |-> type, uid |-> <<calls, 0>>]
         IN  /\ e \in EventRecord /\ tapes' = PortTape(LAMBDA tp : OnTape(tp, e))
             /\ UNCHANGED <<plugin, calls, step>>
             /\ port'.tape = port.tape /\ port'.capturing = port.capturing
             /\ port'.segmentNumber = port.segmentNumber /\ port'.backlog = Append(port.backlog, e)
             /\ port'.needSendStop => port.needSendStop \/ (type = "end" /\ port.tape # NoTape)
<1> DEFINE e == [type |-> type, uid |-> <<calls, 0>>]
           b == Append(port.backlog, e)
           q == OnPort(port, e)
<1>1. e \in EventRecord /\ e.type = type
  BY DEF EventRecord, TypeOK
<1>2. tapes' = PortTape(LAMBDA tp : OnTape(tp, e)) /\ UNCHANGED <<plugin, calls, step>>
  BY DEF Event
<1>3. port' = [q EXCEPT !.backlog = Append(q.backlog, e), !.lastUpdated = now]
  BY DEF Event
<1> HIDE DEF e
<1>4. q = [port EXCEPT !.needSendStop = port.needSendStop \/ (e.type = "end" /\ port.tape # NoTape)]
  BY DEF OnPort
<1>5. /\ q \in PortRecord /\ q.tape = port.tape /\ q.capturing = port.capturing
      /\ q.segmentNumber = port.segmentNumber /\ q.backlog = port.backlog
      /\ q.needSendStop <=> port.needSendStop \/ (e.type = "end" /\ port.tape # NoTape)
  BY <1>4, PortFacts DEF PortRecord
<1> HIDE DEF q
<1>6. port' = [q EXCEPT !.backlog = b, !.lastUpdated = now]
  BY <1>3, <1>5
<1> HIDE DEF b
<1>7. /\ port'.tape = port.tape /\ port'.capturing = port.capturing
      /\ port'.segmentNumber = port.segmentNumber /\ port'.backlog = b
      /\ port'.needSendStop => port.needSendStop \/ (type = "end" /\ port.tape # NoTape)
  <2>1. /\ port'.tape = q.tape /\ port'.capturing = q.capturing /\ port'.needSendStop = q.needSendStop
        /\ port'.segmentNumber = q.segmentNumber /\ port'.backlog = b
    BY <1>5, <1>6 DEF PortRecord
  <2>2. port'.needSendStop => port.needSendStop \/ (type = "end" /\ port.tape # NoTape)
    <3>1. port'.needSendStop => q.needSendStop
      BY <2>1
    <3>2. q.needSendStop => port.needSendStop \/ (e.type = "end" /\ port.tape # NoTape)
      BY <1>5
    <3> QED
      BY <1>1, <3>1, <3>2, Zenon
  <2> QED
    BY <1>5, <2>1, <2>2
<1> QED
  BY <1>1, <1>2, <1>7 DEF e, b

\* The metadata of a call, reported before any of its recordings begins (ReportMetadata).
LEMMA MetadataOwn ==
  ASSUME IInv, OwnInv, ReportUid \/ ReportEnd
  PROVE  OwnInv'
<1>1. TypeOK
  BY DEF IInv
<1>2. PICK type \in {"uid", "end"} :
        /\ Event(type) /\ step = 0 /\ session' # "idle"
        /\ type = "uid" => session = "starting" /\ session' = "named"
        /\ type = "end" => session = "named" /\ session' = "started"
  BY DEF ReportUid, ReportEnd, Idle
<1>3. session \in {"starting", "named"} /\ type \in EventType
  BY <1>2 DEF EventType
<1> DEFINE e == [type |-> type, uid |-> <<calls, 0>>]
<1>4. /\ e \in EventRecord /\ tapes' = PortTape(LAMBDA tp : OnTape(tp, e))
      /\ UNCHANGED <<plugin, calls, step>>
      /\ port'.tape = port.tape /\ port'.capturing = port.capturing
      /\ port'.segmentNumber = port.segmentNumber /\ port'.backlog = Append(port.backlog, e)
      /\ port'.needSendStop => port.needSendStop \/ (type = "end" /\ port.tape # NoTape)
  BY <1>1, <1>2, <1>3, EventPort
<1>5. e.type = type /\ e.uid[1] = calls
  OBVIOUS
<1> HIDE DEF e
<1>6. MarksKept /\ \A t \in DOMAIN tapes : tapes'[t].shouldStop = tapes[t].shouldStop
  BY <1>1, <1>4, EventMarks
<1>7. calls \in Nat /\ \A t \in DOMAIN tapes : tapes[t].call \in Nat /\ tapes[t].call < calls
  BY <1>1, <1>3, OwnTypes DEF OwnInv, CallInv
<1>8. Present = {} /\ Present' = {}
  <2>1. Present = {}
    <3>1. \A t \in DOMAIN tapes : tapes[t].call # calls
      BY <1>7
    <3> QED
      BY <3>1 DEF Present
  <2>2. Present' = Present
    BY <1>4, <1>6 DEF Present, MarksKept
  <2> QED
    BY <2>1, <2>2
<1>9. StoryInv'
  BY <1>8 DEF StoryInv
<1>10. BacklogInv'
  <2>1. Reported(plugin)
    BY <1>3 DEF OwnInv, BacklogInv
  <2>2. CASE type = "uid"
    <3>1. port.backlog = <<>> /\ session' = "named"
      BY <1>2, <2>2 DEF OwnInv, BacklogInv
    <3>2. port'.backlog = <<e>>
      BY <1>4, <3>1
    <3>3. Len(port'.backlog) = 1 /\ port'.backlog[1] = e
      BY <3>2
    <3> QED
      BY <1>4, <1>5, <2>1, <2>2, <3>1, <3>3 DEF BacklogInv, Reported
  <2>3. CASE type = "end"
    <3>1. /\ Len(port.backlog) = 1 /\ port.backlog[1].type = "uid" /\ port.backlog[1].uid[1] = calls
          /\ session' = "started" /\ port.backlog \in Seq(EventRecord)
      BY <1>1, <1>2, <2>3, OwnTypes DEF OwnInv, BacklogInv
    <3>2. Len(port'.backlog) = 2 /\ port'.backlog[1] = port.backlog[1] /\ port'.backlog[2] = e
      BY <1>4, <3>1
    <3>3. Whole(port.backlog)'
      BY <1>4, <1>5, <2>3, <3>1, <3>2 DEF Whole
    <3> QED
      BY <1>4, <2>1, <3>1, <3>3 DEF BacklogInv, Reported
  <2> QED
    BY <2>2, <2>3
<1>11. CallInv'
  <2>1. port.capturing => FALSE
    BY <1>3 DEF OwnInv, CallInv, BacklogInv, Reported
  <2>2. port'.needSendStop => port.tape # NoTape
    BY <1>4 DEF IInv, PortSound
  <2>3. port'.needSendStop => tapes'[port'.tape].call < calls
    BY <1>1, <1>4, <1>6, <1>7, <2>2, PortFacts DEF MarksKept
  <2> QED
    BY <1>2, <1>3, <1>4, <1>6, <2>1, <2>3, CallKept DEF OwnInv
<1>12. ReplayInv'
  <2>1. step' = 0 /\ Len(port'.backlog) \in Nat /\ DOMAIN port'.backlog = 1 .. Len(port'.backlog)
    BY <1>1, <1>2, <1>4, OwnTypes
  <2> QED
    BY <1>8, <2>1 DEF ReplayInv
<1> QED
  BY <1>9, <1>10, <1>11, <1>12 DEF OwnInv

\* An update of a call (EtUpdate): the next message of the recording in progress.
LEMMA UpdateOwn ==
  ASSUME IInv, OwnInv, ReportUpdate
  PROVE  OwnInv'
<1>1. TypeOK
  BY DEF IInv
<1>2. /\ Event("update") /\ "update" \in EventType /\ step = 0 /\ session = "started" /\ session' = session
      /\ Reported(plugin) /\ Idle
  BY DEF ReportUpdate, Idle, EventType
<1> DEFINE e == [type |-> "update", uid |-> <<calls, 0>>]
<1>4. /\ e \in EventRecord /\ tapes' = PortTape(LAMBDA tp : OnTape(tp, e))
      /\ UNCHANGED <<plugin, calls, step>>
      /\ port'.tape = port.tape /\ port'.capturing = port.capturing
      /\ port'.segmentNumber = port.segmentNumber /\ port'.backlog = Append(port.backlog, e)
      /\ port'.needSendStop => port.needSendStop \/ ("update" = "end" /\ port.tape # NoTape)
  BY <1>1, <1>2, EventPort
<1>5. e.type = "update"
  OBVIOUS
<1> HIDE DEF e
<1>6. /\ MarksKept
      /\ \A t \in DOMAIN tapes : /\ tapes'[t].shouldStop = tapes[t].shouldStop
                                 /\ t # port.tape => tapes'[t] = tapes[t]
                                 /\ t = port.tape => tapes'[t] = OnTape(tapes[t], e)
  BY <1>1, <1>4, EventMarks
<1>7. /\ Len(port'.backlog) = Len(port.backlog) + 1 /\ Len(port.backlog) \in Nat
      /\ \A i \in 1 .. Len(port.backlog) : port'.backlog[i] = port.backlog[i]
      /\ port'.backlog[Len(port.backlog) + 1] = e
      /\ DOMAIN port'.backlog = 1 .. Len(port.backlog) + 1 /\ DOMAIN port.backlog = 1 .. Len(port.backlog)
  BY <1>1, <1>4, OwnTypes, Appended
<1>8. Whole(port.backlog)' <=> Whole(port.backlog)
  <2>1. ASSUME Whole(port.backlog) PROVE Whole(port.backlog)'
    BY <1>4, <1>5, <1>7, <2>1 DEF Whole
  <2>2. ASSUME Whole(port.backlog)' PROVE Whole(port.backlog)
    <3>1. Len(port.backlog) # 0
      BY <1>7, <2>2 DEF Whole
    <3>2. Len(port.backlog) # 1
      BY <1>5, <1>7, <2>2 DEF Whole
    <3>3. Len(port.backlog) >= 2 /\ 1 \in 1 .. Len(port.backlog) /\ 2 \in 1 .. Len(port.backlog)
      <4>1. Len(port.backlog) \in Nat
        BY <1>7
      <4>2. \A n \in Nat : n # 0 /\ n # 1 => n >= 2 /\ 1 \in 1 .. n /\ 2 \in 1 .. n
        OBVIOUS
      <4> QED
        BY <3>1, <3>2, <4>1, <4>2, Zenon
    <3>4. \A i \in 3 .. Len(port.backlog) : port'.backlog[i] = port.backlog[i] /\ i \in 3 .. Len(port'.backlog)
      BY <1>7
    <3> QED
      BY <1>4, <1>7, <2>2, <3>3, <3>4 DEF Whole
  <2> QED
    BY <2>1, <2>2
<1>9. Plain(port.backlog) => Plain(port.backlog)'
  BY <1>5, <1>7 DEF Plain
<1>10. BacklogInv'
  BY <1>2, <1>4, <1>8, <1>9 DEF OwnInv, BacklogInv, Reported
<1>11. port.capturing \/ port.needSendStop => port.tape \in DOMAIN tapes
  BY <1>1, PortFacts DEF IInv, PortSound
<1>12. CallInv'
  <2>1. port'.capturing => ~tapes'[port'.tape].shouldStop /\ (session' = "started" \/ plugin = "sound")
    BY <1>2, <1>4, <1>6, <1>11 DEF OwnInv, CallInv
  <2>2. ASSUME port'.needSendStop, ~port'.capturing
        PROVE  tapes'[port'.tape].call < calls
    <3>1. port'.tape = port.tape /\ port.needSendStop /\ ~port.capturing
      BY <1>4, <2>2
    <3>2. port.tape \in DOMAIN tapes
      BY <1>11, <3>1
    <3>3. tapes[port.tape].call < calls
      BY <1>2, <3>1 DEF OwnInv, CallInv
    <3>4. tapes'[port.tape].call = tapes[port.tape].call
      BY <1>6, <3>2 DEF MarksKept
    <3> QED
      BY <3>1, <3>3, <3>4
  <2> QED
    BY <1>2, <1>4, <1>6, <2>1, <2>2, CallKept DEF OwnInv
<1>13. Present' = Present /\ Present \subseteq DOMAIN tapes
  BY <1>4, <1>6 DEF Present, MarksKept
<1>14. ReplayInv'
  BY <1>2, <1>4, <1>7, <1>8, <1>13 DEF OwnInv, ReplayInv
<1>15. StoryInv'
  <2>1. ASSUME NEW t \in Present
        PROVE  Numbered(t) /\ Begun(t) /\ Numbered(t)' /\ Begun(t)' /\ tapes'[t].uid = tapes[t].uid /\ Story(tapes'[t])
    <3>1. Numbered(t) /\ Begun(t) /\ Numbered(t)' /\ Begun(t)'
      BY <1>2, <1>4 DEF Numbered, Begun
    <3>2. CASE t # port.tape
      BY <1>6, <1>13, <3>1, <3>2 DEF OwnInv, StoryInv
    <3>3. CASE t = port.tape
      <4>1. Story(tapes[t]) /\ ~tapes[t].shouldStop /\ tapes[t] \in TapeRecord /\ t \in DOMAIN tapes
        BY <1>2, <2>1, <3>3, PresentOpen
      <4>2. tapes'[t] = OnTape(tapes[t], e)
        BY <1>6, <3>3, <4>1
      <4>3. OnTape(tapes[t], e) = Send(Push(tapes[t], "update"))
        BY <1>5 DEF OnTape
      <4>4. OnTape(tapes[t], e).uid = tapes[t].uid
        BY <1>4, <1>5, <4>1, OnTapeMarks
      <4> QED
        BY <3>1, <4>1, <4>2, <4>3, <4>4, UpdateTold
    <3> QED
      BY <3>2, <3>3
  <2>2. port'.segmentNumber \in Nat /\ port'.segmentNumber >= port.segmentNumber
    BY <1>1, <1>4, OwnTypes
  <2> QED
    BY <1>1, <1>4, <1>6, <1>8, <2>1, <2>2, StoryKept DEF OwnInv
<1> QED
  BY <1>10, <1>12, <1>14, <1>15 DEF OwnInv

\* Tapes of the same calls, of which those of the call under way tell their stories.
Stories(new) ==
  /\ DOMAIN new = DOMAIN tapes
  /\ \A t \in DOMAIN tapes : /\ new[t].call = tapes[t].call /\ new[t].told = tapes[t].told
                             /\ new[t].uid = tapes[t].uid
  /\ \A t \in Present : Story(new[t])

\* Between two callbacks every tape tells its own.
LEMMA IdleStories ==
  ASSUME OwnInv, Idle
  PROVE  Stories(tapes)
BY DEF OwnInv, StoryInv, Stories, Begun, Idle

\* The stop event is the end of the story of the tape that it stops.
LEMMA StopStories ==
  ASSUME IInv, OwnInv, Idle, session = "started" \/ port.tape \notin Present
  PROVE  Stories(PortTape(StopTape))
<1>1. TypeOK /\ Stories(tapes)
  BY IdleStories DEF IInv
<1>2. CASE port.tape = NoTape
  BY <1>1, <1>2 DEF PortTape
<1>3. CASE port.tape # NoTape
  <2> DEFINE x == StopTape(tapes[port.tape])
             new == [tapes EXCEPT ![port.tape] = x]
  <2>1. PortTape(StopTape) = new
    BY <1>3 DEF PortTape
  <2>2. /\ DOMAIN new = DOMAIN tapes /\ port.tape \in DOMAIN tapes
        /\ \A t \in DOMAIN tapes : new[t] = IF t = port.tape THEN x ELSE tapes[t]
    BY <1>1, <1>3, PortTapeIs
  <2>3. tapes[port.tape] \in TapeRecord
    BY <1>1, <2>2, TapeFacts
  <2>4. x.call = tapes[port.tape].call /\ x.told = tapes[port.tape].told /\ x.uid = tapes[port.tape].uid
    BY <2>3, StopTold
  <2>5. port.tape \in Present => Story(x)
    BY <2>3, PresentOpen, StopTold
  <2> HIDE DEF new, x
  <2>6. Present \subseteq DOMAIN tapes
    BY DEF Present
  <2>7. Stories(new)
    BY <1>1, <2>2, <2>4, <2>5, <2>6 DEF Stories
  <2> QED
    BY <2>1, <2>7
<1> QED
  BY <1>2, <1>3

\* A port expires only if its tape is not being recorded to: the tape of an earlier call
\* may be stopped and told of once more, one of the call under way is not touched.
LEMMA ExpireStories ==
  ASSUME IInv, OwnInv, Expire
  PROVE  Stories(tapes')
<1>1. TypeOK /\ Idle /\ Stories(tapes)
  BY IdleStories DEF IInv, Expire
<1>2. CASE ~port.needSendStop \/ port.tape = NoTape
  BY <1>1, <1>2 DEF Expire, PortTape
<1>3. CASE port.needSendStop /\ port.tape # NoTape
  <2> DEFINE y == StopTape(tapes[port.tape])
             x == Send(y)
             new == [tapes EXCEPT ![port.tape] = x]
  <2>1. tapes' = new
    BY <1>3 DEF Expire, PortTape
  <2>2. /\ DOMAIN new = DOMAIN tapes /\ port.tape \in DOMAIN tapes
        /\ \A t \in DOMAIN tapes : new[t] = IF t = port.tape THEN x ELSE tapes[t]
    BY <1>1, <1>3, PortTapeIs
  <2>3. tapes[port.tape] \in TapeRecord
    BY <1>1, <2>2, TapeFacts
  <2>4. y.call = tapes[port.tape].call /\ y.told = tapes[port.tape].told /\ y.uid = tapes[port.tape].uid /\ y \in TapeRecord
    BY <2>3, StopTold, StopTapeStops
  <2> HIDE DEF new, y
  <2>5. x.call = tapes[port.tape].call /\ x.told = tapes[port.tape].told /\ x.uid = tapes[port.tape].uid
    BY <2>4, SendTells
  <2>6. port.tape \notin Present
    <3>1. CASE port.capturing
      <4>1. ~tapes[port.tape].isQueued /\ tapes[port.tape].state # "Active"
        BY <1>3 DEF Expire, Expired
      <4>2. tapes[port.tape].state # "Stopped"
        BY <2>2, <3>1 DEF IInv, TapesSound, OwnInv, CallInv
      <4>3. tapes[port.tape].state # "Created"
        BY <1>1, <1>3, <3>1, <4>1 DEF IInv, CurrentSound
      <4> QED
        BY <2>3, <4>1, <4>2, <4>3 DEF TapeRecord
    <3>2. CASE ~port.capturing
      <4>1. tapes[port.tape].call < calls /\ tapes[port.tape].call \in Nat /\ calls \in Nat
        BY <1>1, <1>3, <2>2, <3>2, OwnTypes DEF OwnInv, CallInv
      <4> QED
        BY <4>1 DEF Present
    <3> QED
      BY <3>1, <3>2
  <2> HIDE DEF x
  <2>7. Present \subseteq DOMAIN tapes
    BY DEF Present
  <2>8. Stories(new)
    BY <1>1, <2>2, <2>5, <2>6, <2>7 DEF Stories
  <2> QED
    BY <2>1, <2>8
<1> QED
  BY <1>2, <1>3

\* Steps that end a recording.
LEMMA EndOwn ==
  ASSUME IInv, OwnInv, Idle, Stories(tapes'), step' = 0, UNCHANGED <<plugin, calls>>,
         ~port'.capturing, ~port'.needSendStop, port'.segmentNumber \in Nat,
         session' = "idle" \/ (session' = session /\ port'.tape = NoTape),
         \/ port'.backlog = <<>> /\ session' \in {"idle", "started"}
         \/ port'.backlog = port.backlog /\ port'.segmentNumber = port.segmentNumber /\ session' = session
  PROVE  OwnInv'
<1>1. TypeOK /\ MarksKept
  BY DEF IInv, Stories, MarksKept
<1>2. ~Whole(<<>>) /\ Plain(<<>>)
  BY DEF Whole, Plain
<1>3. \/ port'.backlog = <<>>
      \/ (Whole(port.backlog)' <=> Whole(port.backlog)) /\ (Plain(port.backlog)' <=> Plain(port.backlog))
  BY DEF Whole, Plain
<1>4. port'.backlog = <<>> => ~Whole(port.backlog)' /\ Plain(port.backlog)'
  BY DEF Whole, Plain
<1>5. BacklogInv'
  <2>1. CASE port'.backlog = <<>> /\ session' \in {"idle", "started"}
    BY <1>4, <2>1 DEF BacklogInv
  <2>2. CASE /\ port'.backlog = port.backlog /\ session' = session
    BY <1>3, <1>4, <2>2 DEF OwnInv, BacklogInv, Reported
  <2> QED
    BY <2>1, <2>2
<1>6. CallInv'
  <2>1. session' # "idle" => session # "idle"
    OBVIOUS
  <2>2. session' \in {"starting", "named"} => session \in {"starting", "named"}
    OBVIOUS
  <2> QED
    BY <1>1, <2>1, <2>2, CallKept DEF OwnInv
<1>7. Present' = Present
  BY <1>1 DEF Present, MarksKept
<1>8. ReplayInv'
  <2>1. session' = "started" => port'.tape \notin Present
    <3>1. \A t \in DOMAIN tapes : t # NoTape
      BY <1>1, TapeFacts DEF NoTape
    <3> QED
      BY <3>1 DEF Present
  <2>2. Len(port'.backlog) \in Nat /\ DOMAIN port'.backlog = 1 .. Len(port'.backlog)
    BY <1>1, OwnTypes
  <2> QED
    BY <1>7, <2>1, <2>2 DEF ReplayInv
<1>9. StoryInv'
  <2>1. \A t \in Present : t \in DOMAIN tapes
    BY DEF Present
  <2>2. \A t \in Present :
           /\ Numbered(t)' => Numbered(t) /\ tapes'[t].uid = tapes[t].uid
           /\ Begun(t)' => Story(tapes'[t])
           /\ ~Begun(t)' => tapes'[t].toSend = <<"start">> /\ tapes'[t].msgs = <<>>
    BY <2>1 DEF Stories, Numbered, Begun, Idle
  <2>3. Whole(port.backlog)' => Whole(port.backlog) /\ port'.segmentNumber >= port.segmentNumber
    BY <1>1, <1>3, <1>4, OwnTypes
  <2> QED
    BY <1>1, <2>2, <2>3, StoryKept DEF OwnInv
<1> QED
  BY <1>5, <1>6, <1>8, <1>9 DEF OwnInv

\* The plugin's stop, and a port that expires.
LEMMA StopsOwn ==
  ASSUME IInv, OwnInv, StopCall \/ Expire
  PROVE  OwnInv'
<1>1. TypeOK
  BY DEF IInv
<1>2. CASE StopCall
  <2> DEFINE new == PortTape(StopTape)
             pt == IF port.tape = NoTape THEN port ELSE StopPort(port)
  <2>1. /\ Idle /\ step = 0 /\ session = "started" /\ session' = "idle" /\ tapes' = new
        /\ UNCHANGED <<plugin, calls, step>>
        /\ port' = [pt EXCEPT !.backlog = <<>>, !.lastUpdated = now]
    BY <1>2 DEF StopCall, Idle
  <2>2. Stories(new)
    BY <2>1, StopStories
  <2> HIDE DEF new
  <2>3. /\ pt \in PortRecord /\ ~pt.capturing /\ ~pt.needSendStop /\ pt.segmentNumber \in Nat
    BY <1>1, PortFacts DEF StopPort, PortRecord, IInv, PortSound
  <2> HIDE DEF pt
  <2>4. /\ ~port'.capturing /\ ~port'.needSendStop /\ port'.segmentNumber \in Nat /\ port'.backlog = <<>>
    BY <2>1, <2>3 DEF PortRecord
  <2> QED
    BY <2>1, <2>2, <2>4, EndOwn
<1>3. CASE Expire
  <2>1. /\ Idle /\ step = 0 /\ session \in {"idle", "started"} /\ port' = NewPort
        /\ UNCHANGED <<plugin, calls, session, step>>
    BY <1>3 DEF Expire, Idle, callVars
  <2>2. Stories(tapes')
    BY <1>3, ExpireStories
  <2>3. /\ ~port'.capturing /\ ~port'.needSendStop /\ port'.segmentNumber \in Nat /\ port'.backlog = <<>>
        /\ port'.tape = NoTape
    BY <2>1 DEF NewPort
  <2> QED
    BY <2>1, <2>2, <2>3, EndOwn
<1> QED
  BY <1>2, <1>3

\* A tape is begun with its start to be told, and with the metadata at hand or not.
LEMMA NewTapeTells ==
  /\ NewTape.call = calls /\ NewTape.toSend = <<"start">> /\ NewTape.msgs = <<>> /\ ~NewTape.shouldStop
  /\ NewTape.told <=> \E i \in DOMAIN port.backlog : port.backlog[i].type = "end"
BY DEF NewTape

\* A recording begins (AddAudioChunk): pt is the port and before are the tapes after the
\* end of the one before, if there was one.
LEMMA BeginOwn ==
  ASSUME IInv, OwnInv, Idle, Talking, NEW pt \in PortRecord, NEW before,
         before \in Seq(TapeRecord), Stories(before), BeginTape(pt, before),
         pt.backlog = port.backlog, pt.segmentNumber = port.segmentNumber,
         UNCHANGED <<plugin, calls, session>>
  PROVE  OwnInv'
<1> DEFINE r == NewTape
           new == Append(before, r)
<1>0. PICK n \in Nat : n = Len(tapes) + 1
  BY TapeFacts DEF IInv
<1>1. TypeOK /\ calls \in Nat /\ r \in TapeRecord
  BY NewTapeIsTape DEF IInv, TypeOK
<1>2. /\ tapes' = new /\ step' = 1
      /\ port' = [pt EXCEPT !.capturing = TRUE, !.tape = n, !.lastUpdated = now]
  BY <1>0 DEF BeginTape
<1>3. /\ r.call = calls /\ r.toSend = <<"start">> /\ r.msgs = <<>> /\ ~r.shouldStop
      /\ r.told <=> \E i \in DOMAIN port.backlog : port.backlog[i].type = "end"
  BY NewTapeTells
<1> HIDE DEF r
<1>4. /\ DOMAIN tapes = 1 .. Len(tapes) /\ Len(tapes) \in Nat /\ Len(before) = Len(tapes)
      /\ DOMAIN before = DOMAIN tapes
  <2>1. DOMAIN before = 1 .. Len(before) /\ Len(before) \in Nat
    OBVIOUS
  <2>2. DOMAIN tapes = 1 .. Len(tapes) /\ Len(tapes) \in Nat
    BY <1>1, TapeFacts
  <2>3. DOMAIN before = DOMAIN tapes
    BY DEF Stories
  <2>4. \A a, b \in Nat : 1 .. a = 1 .. b => a = b
    <3> SUFFICES ASSUME NEW a \in Nat, NEW b \in Nat, a < b PROVE 1 .. a # 1 .. b
      OBVIOUS
    <3>1. b \in 1 .. b /\ b \notin 1 .. a
      OBVIOUS
    <3> QED
      BY <3>1
  <2> QED
    BY <2>1, <2>2, <2>3, <2>4
<1>5. /\ DOMAIN new = 1 .. n /\ (\A j \in DOMAIN tapes : new[j] = before[j]) /\ new[n] = r
  BY <1>0, <1>1, <1>4, Appended
<1> HIDE DEF new
<1>6. n \notin DOMAIN tapes /\ DOMAIN new = DOMAIN tapes \cup {n}
  BY <1>0, <1>4, <1>5
<1>7. /\ port'.tape = n /\ port'.capturing /\ port'.backlog = port.backlog
      /\ port'.segmentNumber = port.segmentNumber
  BY <1>2 DEF PortRecord
<1>8. session = "started" \/ plugin = "sound"
  BY DEF Talking
<1>9. r.told => session = "started" /\ Whole(port.backlog)
  <2> SUFFICES ASSUME r.told PROVE session = "started" /\ Whole(port.backlog)
    OBVIOUS
  <2>1. PICK i \in DOMAIN port.backlog : port.backlog[i].type = "end"
    BY <1>3
  <2>2. ~Plain(port.backlog) /\ port.backlog # <<>>
    BY <2>1 DEF Plain
  <2> QED
    BY <1>8, <2>2 DEF OwnInv, BacklogInv, Reported
<1>10. Whole(port.backlog)' <=> Whole(port.backlog)
  BY <1>7 DEF Whole
<1>11. BacklogInv'
  BY <1>7, <1>10 DEF OwnInv, BacklogInv, Plain, Reported
<1>12. /\ \A t \in DOMAIN tapes : /\ tapes'[t].call = tapes[t].call /\ tapes'[t].told = tapes[t].told
                                  /\ tapes'[t].uid = tapes[t].uid
       /\ tapes'[n] = r /\ DOMAIN tapes' = DOMAIN tapes \cup {n}
       /\ \A t \in Present : Story(tapes'[t])
  <2>1. Present \subseteq DOMAIN tapes
    BY DEF Present
  <2> QED
    BY <1>2, <1>5, <1>6, <2>1 DEF Stories
<1>13. Present' \subseteq Present \cup {n} /\ n \notin Present
  BY <1>6, <1>12 DEF Present
<1>14. CallInv'
  <2>1. Reported(plugin) => calls > 0
    BY <1>8 DEF Reported, OwnInv, CallInv
  <2>2. ~Reported(plugin) => ~r.told /\ session \in {"idle", "started"}
    <3>1. ~Reported(plugin) => ~Whole(port.backlog) /\ session \in {"idle", "started"}
      BY DEF OwnInv, BacklogInv, Whole
    <3> QED
      BY <1>9, <3>1
  <2>3. session \notin {"starting", "named"}
    BY <1>8, <2>2 DEF Reported
  <2>4. port'.capturing => ~tapes'[port'.tape].shouldStop /\ (session' = "started" \/ plugin' = "sound")
    BY <1>3, <1>7, <1>8, <1>12
  <2>5. plugin' = "voip" => calls' <= 1 /\ \A t \in DOMAIN tapes' : tapes'[t].call = calls'
    BY <1>3, <1>12 DEF OwnInv, CallInv
  <2>6. /\ Reported(plugin)' => \A t \in DOMAIN tapes' : tapes'[t].call > 0
        /\ ~Reported(plugin)' => \A t \in DOMAIN tapes' : ~tapes'[t].told
    BY <1>3, <1>12, <2>1, <2>2 DEF OwnInv, CallInv, Reported
  <2>7. session' # "idle" => calls' > 0
    BY DEF OwnInv, CallInv
  <2> QED
    BY <1>7, <2>3, <2>4, <2>5, <2>6, <2>7 DEF CallInv
<1>15. ReplayInv'
  <2>1. step' \in 0 .. Len(port'.backlog) + 1
    BY <1>1, <1>2, <1>7, OwnTypes
  <2>2. Talking'
    BY DEF Talking
  <2>3. port'.capturing /\ tapes'[port'.tape].call = calls'
    BY <1>3, <1>7, <1>12
  <2>4. n \in Present' => Whole(port.backlog)'
    BY <1>9, <1>10, <1>12 DEF Present
  <2> QED
    BY <1>7, <2>1, <2>2, <2>3, <2>4 DEF ReplayInv
<1>16. StoryInv'
  <2>1. Numbered(n)' = FALSE /\ Begun(n)' = FALSE
    BY <1>2, <1>7 DEF Numbered, Begun
  <2>2. \A t \in Present : t # n /\ Numbered(t) /\ t \in DOMAIN tapes
    BY <1>13 DEF Present, Numbered, Idle
  <2>3. \A t \in Present' :
       /\ Numbered(t)' => /\ tapes'[t].uid[1] = calls' /\ tapes'[t].uid[2] > 0
                          /\ Whole(port.backlog)' => tapes'[t].uid[2] <= port'.segmentNumber
       /\ Begun(t)' => Story(tapes'[t])
       /\ ~Begun(t)' => tapes'[t].toSend = <<"start">> /\ tapes'[t].msgs = <<>>
    <3>1. ASSUME NEW t \in Present
          PROVE  /\ tapes'[t].uid[1] = calls' /\ tapes'[t].uid[2] > 0
                 /\ Whole(port.backlog)' => tapes'[t].uid[2] <= port'.segmentNumber
                 /\ Story(tapes'[t]) /\ Begun(t)'
      <4>1. tapes'[t].uid = tapes[t].uid /\ Numbered(t)
        BY <1>12, <2>2
      <4>2. Begun(t)'
        BY <1>7, <2>2 DEF Begun
      <4> QED
        BY <1>7, <1>10, <1>12, <4>1, <4>2 DEF OwnInv, StoryInv
    <3> QED
      BY <1>3, <1>12, <1>13, <2>1, <3>1
  <2>4. \A t, u \in Present' : t # u /\ Numbered(t)' /\ Numbered(u)' => tapes'[t].uid # tapes'[u].uid
    BY <1>12, <1>13, <2>1, <2>2 DEF OwnInv, StoryInv
  <2> QED
    BY <2>3, <2>4 DEF StoryInv, Story
<1> QED
  BY <1>11, <1>14, <1>15, <1>16 DEF OwnInv

\* A round of ReportEventBacklog: the first numbers the recording, the second tells its
\* start, the others its updates so far.
LEMMA ReplayOwn ==
  ASSUME IInv, OwnInv, Replay
  PROVE  OwnInv'
<1> DEFINE e == port.backlog[step]
           m == port.segmentNumber + 1
           f == IF e.type = "uid" THEN [e EXCEPT !.uid = <<e.uid[1], m>>] ELSE e
<1>0. PICK p \in Nat : p = port.tape
  BY PortFacts DEF IInv
<1>1. TypeOK
  BY DEF IInv
<1>2. /\ step \in DOMAIN port.backlog /\ step \in Nat /\ step # 0 /\ step <= Len(port.backlog)
      /\ port.segmentNumber \in Nat /\ m \in Nat
  BY <1>1, OwnTypes DEF Replay
<1>3. ASSUME NEW S, NEW q \in Seq(S), NEW i \in DOMAIN q PROVE q[i] \in S
  BY <1>3
<1>4. e \in EventRecord
  BY <1>1, <1>2, <1>3, PortFacts
<1>5. /\ tapes' = PortTape(LAMBDA tp : OnTape(tp, f))
      /\ port' = [OnPort(port, f) EXCEPT !.segmentNumber = IF e.type = "uid" THEN m ELSE port.segmentNumber]
      /\ step' = step + 1 /\ UNCHANGED <<plugin, calls, session>>
  <2>1. OnPort(port, f).segmentNumber = port.segmentNumber
    BY <1>1, PortFacts DEF OnPort, PortRecord
  <2> QED
    BY <2>1 DEF Replay, callVars
<1> HIDE DEF e
<1>6. /\ f \in EventRecord /\ f.type = e.type
      /\ e.type = "uid" => f.uid = <<e.uid[1], m>>
  BY <1>2, <1>4 DEF EventRecord
<1> HIDE DEF f
<1>7. OnPort(port, f) = [port EXCEPT !.needSendStop =
                           port.needSendStop \/ (f.type = "end" /\ port.tape # NoTape)]
  BY DEF OnPort
<1>8. /\ port'.tape = p /\ port'.capturing = port.capturing /\ port'.backlog = port.backlog
      /\ port'.segmentNumber = IF e.type = "uid" THEN m ELSE port.segmentNumber
  BY <1>0, <1>1, <1>2, <1>5, <1>7, PortFacts DEF PortRecord
<1> HIDE DEF m
<1>9. /\ port'.segmentNumber \in Nat /\ port'.segmentNumber >= port.segmentNumber
      /\ m > port.segmentNumber /\ m \in Nat
  BY <1>2, <1>8 DEF m
<1>10. /\ MarksKept
       /\ \A t \in DOMAIN tapes : /\ tapes'[t].shouldStop = tapes[t].shouldStop
                                  /\ t # p => tapes'[t] = tapes[t]
                                  /\ t = p => tapes'[t] = OnTape(tapes[t], f)
  BY <1>0, <1>1, <1>5, <1>6, EventMarks
<1>11. port.capturing /\ tapes[p].call = calls /\ Talking
  BY <1>0, <1>2 DEF OwnInv, ReplayInv
<1>12. p \in DOMAIN tapes /\ tapes[p] \in TapeRecord /\ ~tapes[p].shouldStop
  <2>1. port.tape # NoTape
    BY <1>11 DEF IInv, PortSound
  <2> QED
    BY <1>0, <1>1, <1>11, <2>1, PortFacts, TapeFacts DEF OwnInv, CallInv
<1>13. Present' = Present /\ Present \subseteq DOMAIN tapes
  BY <1>5, <1>10 DEF Present, MarksKept
<1>14. Whole(port.backlog)' <=> Whole(port.backlog)
  BY <1>5, <1>8 DEF Whole
<1>15. p \in Present => session = "started" /\ Whole(port.backlog)
  BY <1>0, <1>1, <1>11, PresentWhole
<1>16. BacklogInv'
  BY <1>5, <1>8, <1>14 DEF OwnInv, BacklogInv, Plain, Reported
<1>17. CallInv'
  <2>1. port'.capturing => ~tapes'[port'.tape].shouldStop /\ (session' = "started" \/ plugin = "sound")
    BY <1>5, <1>8, <1>10, <1>11, <1>12 DEF Talking
  <2> QED
    BY <1>5, <1>8, <1>10, <1>11, <2>1, CallKept DEF OwnInv
<1>18. ReplayInv'
  <2>1. step' \in 0 .. Len(port'.backlog) + 1
    BY <1>1, <1>2, <1>5, <1>8, OwnTypes
  <2>2. tapes'[port'.tape].call = calls'
    BY <1>5, <1>8, <1>10, <1>11, <1>12 DEF MarksKept
  <2>3. port'.tape \in Present' => Whole(port.backlog)'
    BY <1>8, <1>13, <1>14, <1>15
  <2> QED
    BY <1>5, <1>8, <1>11, <2>1, <2>2, <2>3 DEF ReplayInv, Talking
<1>19. \A t \in Present : t # p => /\ Numbered(t) /\ Begun(t) /\ Numbered(t)' /\ Begun(t)'
                                   /\ tapes'[t] = tapes[t] /\ Story(tapes[t])
  <2>1. \A t \in Present : t # p => Numbered(t) /\ Begun(t) /\ Numbered(t)' /\ Begun(t)' /\ tapes'[t] = tapes[t]
    BY <1>0, <1>8, <1>10, <1>13 DEF Numbered, Begun
  <2> QED
    BY <2>1 DEF OwnInv, StoryInv
<1>20. StoryInv'
  <2>1. CASE p \notin Present
    <3>1. \A t \in Present :
           /\ Numbered(t)' => Numbered(t) /\ tapes'[t].uid = tapes[t].uid
           /\ Begun(t)' => Story(tapes'[t])
           /\ ~Begun(t)' => tapes'[t].toSend = <<"start">> /\ tapes'[t].msgs = <<>>
      BY <1>19, <2>1
    <3> QED
      BY <1>1, <1>5, <1>9, <1>10, <1>14, <3>1, StoryKept DEF OwnInv
  <2>2. CASE p \in Present /\ step # 1
    <3>1. e.type = IF step = 2 THEN "end" ELSE "update"
      BY <1>2, <1>15, <2>2 DEF Whole, e
    <3>2. OnTape(tapes[p], f).uid = tapes[p].uid
      BY <1>6, <1>12, <3>1, OnTapeMarks
    <3>3. Story(OnTape(tapes[p], f))
      <4>1. CASE step = 2
        <5>1. tapes[p].toSend = <<"start">> /\ tapes[p].msgs = <<>>
          BY <1>0, <2>2, <4>1 DEF OwnInv, StoryInv, Begun
        <5>2. OnTape(tapes[p], f) = Send(tapes[p])
          BY <1>6, <3>1, <4>1 DEF OnTape
        <5> QED
          BY <1>12, <5>1, <5>2, StartTold
      <4>2. CASE step # 2
        <5>1. Story(tapes[p])
          BY <1>0, <2>2, <4>2 DEF OwnInv, StoryInv, Begun
        <5>2. OnTape(tapes[p], f) = Send(Push(tapes[p], "update"))
          BY <1>6, <3>1, <4>2 DEF OnTape
        <5> QED
          BY <1>12, <5>1, <5>2, UpdateTold
      <4> QED
        BY <4>1, <4>2
    <3>4. Numbered(p) /\ Begun(p)'
      BY <1>2, <1>5, <2>2 DEF Numbered, Begun
    <3>5. \A t \in Present :
           /\ Numbered(t)' => Numbered(t) /\ tapes'[t].uid = tapes[t].uid
           /\ Begun(t)' => Story(tapes'[t])
           /\ ~Begun(t)' => tapes'[t].toSend = <<"start">> /\ tapes'[t].msgs = <<>>
      <4>1. tapes'[p] = OnTape(tapes[p], f)
        BY <1>10, <1>12
      <4>2. ASSUME NEW t \in Present
            PROVE  Numbered(t) /\ tapes'[t].uid = tapes[t].uid /\ Story(tapes'[t]) /\ Begun(t)'
        <5>1. CASE t = p
          BY <3>2, <3>3, <3>4, <4>1, <5>1
        <5>2. CASE t # p
          BY <1>19, <5>2
        <5> QED
          BY <5>1, <5>2
      <4> QED
        BY <4>2
    <3> QED
      BY <1>1, <1>5, <1>9, <1>10, <1>14, <3>5, StoryKept DEF OwnInv
  <2>3. CASE p \in Present /\ step = 1
    <3>1. e.type = "uid" /\ e.uid[1] = calls
      BY <1>2, <1>15, <2>3 DEF Whole, e
    <3>2. f.uid = <<calls, m>> /\ f.type = "uid"
      BY <1>6, <3>1
    <3>3. /\ tapes'[p].uid = <<calls, m>> /\ tapes'[p].toSend = tapes[p].toSend
          /\ tapes'[p].msgs = tapes[p].msgs
      <4>1. tapes'[p] = [tapes[p] EXCEPT !.uid = f.uid]
        BY <1>10, <1>12, <3>2 DEF OnTape
      <4> QED
        BY <1>12, <3>2, <4>1 DEF TapeRecord
    <3>4. tapes[p].toSend = <<"start">> /\ tapes[p].msgs = <<>> /\ ~Begun(p)'
      BY <1>0, <1>5, <1>8, <2>3 DEF OwnInv, StoryInv, Begun
    <3>5. Whole(port.backlog) /\ port'.segmentNumber = m
      BY <1>8, <1>15, <2>3, <3>1
    <3>6. \A t \in Present : t # p => /\ tapes'[t].uid[1] = calls /\ tapes'[t].uid[2] > 0
                                      /\ tapes'[t].uid[2] < m /\ Story(tapes'[t]) /\ Begun(t)'
      <4>1. \A t \in Present : t # p => /\ tapes[t].uid[1] = calls /\ tapes[t].uid[2] > 0
                                        /\ tapes[t].uid[2] <= port.segmentNumber
        BY <1>19, <3>5 DEF OwnInv, StoryInv
      <4>2. \A t \in Present : tapes[t].uid[2] \in Nat
        BY <1>1, <1>13, OwnTypes
      <4>3. \A a \in Nat : a <= port.segmentNumber => a < m
        BY <1>2, <1>9
      <4> QED
        BY <1>19, <4>1, <4>2, <4>3
    <3>7. m > 0
      BY <1>2, <1>9
    <3>8. \A t \in Present' :
       /\ Numbered(t)' => /\ tapes'[t].uid[1] = calls' /\ tapes'[t].uid[2] > 0
                          /\ Whole(port.backlog)' => tapes'[t].uid[2] <= port'.segmentNumber
       /\ Begun(t)' => Story(tapes'[t])
       /\ ~Begun(t)' => tapes'[t].toSend = <<"start">> /\ tapes'[t].msgs = <<>>
      <4>1. ASSUME NEW t \in Present
            PROVE  /\ tapes'[t].uid[1] = calls /\ tapes'[t].uid[2] > 0 /\ tapes'[t].uid[2] <= m
                   /\ Begun(t)' => Story(tapes'[t])
                   /\ ~Begun(t)' => tapes'[t].toSend = <<"start">> /\ tapes'[t].msgs = <<>>
        <5>1. CASE t = p
          BY <1>9, <3>3, <3>4, <3>7, <5>1
        <5>2. CASE t # p
          <6>1. tapes'[t].uid[2] < m /\ tapes'[t].uid[2] \in Nat
            BY <1>1, <1>13, <1>19, <3>6, <5>2, OwnTypes
          <6> QED
            BY <1>9, <3>6, <5>2, <6>1
        <5> QED
          BY <5>1, <5>2
      <4> QED
        BY <1>5, <1>13, <3>5, <4>1
    <3>9. \A t, u \in Present' : t # u /\ Numbered(t)' /\ Numbered(u)' => tapes'[t].uid # tapes'[u].uid
      <4>1. ASSUME NEW t \in Present, t # p PROVE tapes'[t].uid # tapes'[p].uid
        <5>1. tapes'[t].uid[2] < m /\ tapes'[t].uid[2] \in Nat
          BY <1>1, <1>13, <1>19, <3>6, <4>1, OwnTypes
        <5>2. tapes'[p].uid[2] = m
          BY <3>3
        <5> QED
          BY <1>9, <5>1, <5>2
      <4>2. \A t, u \in Present : t # u /\ t # p /\ u # p => tapes'[t].uid # tapes'[u].uid
        BY <1>19 DEF OwnInv, StoryInv
      <4> QED
        BY <1>13, <4>1, <4>2
    <3> QED
      BY <3>8, <3>9 DEF StoryInv, Story
  <2> QED
    BY <2>1, <2>2, <2>3
<1> QED
  BY <1>16, <1>17, <1>18, <1>20 DEF OwnInv

-----------------------------------------------------------------------------
(* The other steps, and every behaviour.                                     *)

\* The clock tells nothing.
LEMMA TickOwn ==
  ASSUME IInv, OwnInv, Tick \/ UNCHANGED vars
  PROVE  OwnInv'
<1>1. TypeOK
  BY DEF IInv
<1>2. UNCHANGED <<plugin, calls, session, port, tapes, step>>
  BY DEF Tick, callVars, vars
<1>3. \A t \in DOMAIN tapes : Tale(tapes'[t], tapes[t])
  BY <1>2 DEF Tale
<1>4. port.capturing \/ port.needSendStop => port.tape \in DOMAIN tapes
  BY <1>1, PortFacts DEF IInv, PortSound
<1> QED
  BY <1>1, <1>2, <1>3, <1>4, QuietOwn

\* Nor does the immediate thread, which writes (AudioTape::Write).
LEMMA WriteOwn ==
  ASSUME IInv, OwnInv, NEW w \in DOMAIN tapes, Write(w)
  PROVE  OwnInv'
<1> DEFINE x == Written(tapes[w])
           new == [tapes EXCEPT ![w] = x]
<1>1. TypeOK /\ tapes[w] \in TapeRecord /\ tapes \in Seq(TapeRecord)
  BY TapeFacts DEF IInv, TypeOK
<1>2. tapes' = new /\ UNCHANGED <<plugin, calls, session, port, step>>
  BY DEF Write, callVars
<1>3. Tale(x, tapes[w])
  BY <1>1 DEF Tale, Written, TapeRecord
<1> HIDE DEF x
<1>4. DOMAIN new = DOMAIN tapes /\ \A t \in DOMAIN tapes : new[t] = IF t = w THEN x ELSE tapes[t]
  BY <1>1
<1> HIDE DEF new
<1>5. DOMAIN tapes' = DOMAIN tapes /\ \A t \in DOMAIN tapes : Tale(tapes'[t], tapes[t])
  <2>1. \A t \in DOMAIN tapes : t # w => Tale(new[t], tapes[t])
    BY <1>4 DEF Tale
  <2>2. Tale(new[w], tapes[w])
    BY <1>3, <1>4
  <2> QED
    BY <1>2, <1>4, <2>1, <2>2
<1>6. port.capturing \/ port.needSendStop => port.tape \in DOMAIN tapes
  BY <1>1, PortFacts DEF IInv, PortSound
<1> QED
  BY <1>1, <1>2, <1>5, <1>6, QuietOwn

\* A chunk goes to the tape as it is (AudioTape::AddAudioChunk).
LEMMA AddChunkOwn ==
  ASSUME IInv, OwnInv, AddChunk
  PROVE  OwnInv'
<1>1. TypeOK /\ tapes \in Seq(TapeRecord)
  BY DEF IInv, TypeOK
<1>2. step = Len(port.backlog) + 1 /\ step' = 0 /\ UNCHANGED <<plugin, calls, session, port>>
  BY DEF AddChunk, callVars
<1>3. port.capturing \/ port.needSendStop => port.tape \in DOMAIN tapes
  BY <1>1, PortFacts DEF IInv, PortSound
<1>4. DOMAIN tapes' = DOMAIN tapes /\ \A t \in DOMAIN tapes : Tale(tapes'[t], tapes[t])
  <2>1. CASE ~port.capturing
    BY <2>1 DEF AddChunk, Tale
  <2>2. CASE port.capturing
    <3> DEFINE x == Schedule(Take(tapes[port.tape]))
               new == [tapes EXCEPT ![port.tape] = x]
    <3>1. port.tape # NoTape /\ port.tape \in DOMAIN tapes /\ tapes[port.tape] \in TapeRecord
      BY <1>1, <1>3, <2>2, TapeFacts DEF IInv, PortSound
    <3>2. tapes' = new
      BY <2>2, <3>1 DEF AddChunk, PortTape
    <3>3. Tale(x, tapes[port.tape])
      BY <3>1 DEF Tale, Schedule, Take, TapeRecord
    <3> HIDE DEF x
    <3>4. /\ DOMAIN new = DOMAIN tapes
          /\ \A t \in DOMAIN tapes : new[t] = IF t = port.tape THEN x ELSE tapes[t]
      BY <1>1, <3>1
    <3> HIDE DEF new
    <3>5. \A t \in DOMAIN tapes : t # port.tape => Tale(new[t], tapes[t])
      BY <3>4 DEF Tale
    <3>6. Tale(new[port.tape], tapes[port.tape])
      BY <3>1, <3>3, <3>4
    <3> QED
      BY <3>2, <3>4, <3>5, <3>6
  <2> QED
    BY <2>1, <2>2
<1>5. /\ step \in {0, Len(port.backlog) + 1}
      /\ step' = 0 \/ (step' = Len(port.backlog) + 1 /\ Talking)
  BY <1>2
<1>6. /\ port'.tape = port.tape /\ port'.capturing = port.capturing
      /\ port'.needSendStop = port.needSendStop /\ port'.backlog = port.backlog
      /\ port'.segmentNumber = port.segmentNumber
  BY <1>2
<1>7. UNCHANGED <<plugin, calls, session>>
  BY <1>2
<1> QED
  BY <1>1, <1>3, <1>4, <1>5, <1>6, <1>7, QuietOwn

\* A chunk that neither begins nor ends a recording.
LEMMA GoesOnOwn ==
  ASSUME IInv, OwnInv, Idle, Talking, NEW pt \in PortRecord, GoesOn(pt),
         pt.tape = port.tape, pt.capturing = port.capturing, pt.needSendStop = port.needSendStop,
         pt.backlog = port.backlog, pt.segmentNumber = port.segmentNumber,
         UNCHANGED <<plugin, calls, session>>
  PROVE  OwnInv'
<1>1. TypeOK
  BY DEF IInv
<1>2. port' = [pt EXCEPT !.lastUpdated = now] /\ tapes' = tapes /\ step' = Len(port.backlog) + 1
  BY DEF GoesOn
<1>3. /\ port'.tape = port.tape /\ port'.capturing = port.capturing
      /\ port'.needSendStop = port.needSendStop /\ port'.backlog = port.backlog
      /\ port'.segmentNumber = port.segmentNumber
  BY <1>2 DEF PortRecord
<1>4. port.capturing \/ port.needSendStop => port.tape \in DOMAIN tapes
  BY <1>1, PortFacts DEF IInv, PortSound
<1>5. \A t \in DOMAIN tapes : Tale(tapes'[t], tapes[t])
  BY <1>2 DEF Tale
<1>6. step = 0
  BY DEF Idle
<1> QED
  BY <1>1, <1>2, <1>3, <1>4, <1>5, <1>6, QuietOwn

\* The stop of a recording by the port itself is part of its story.
LEMMA StoppedStories ==
  ASSUME IInv, OwnInv, Idle, Talking
  PROVE  Stories(PortTape(StopTape)) /\ PortTape(StopTape) \in Seq(TapeRecord)
<1>1. session = "started" \/ port.tape \notin Present
  <2>1. plugin = "sound" => \A t \in DOMAIN tapes : ~tapes[t].told
    BY DEF OwnInv, CallInv, Reported
  <2> QED
    BY <2>1 DEF Talking, Present
<1> QED
  BY <1>1, StopStories, StopEnds DEF IInv, Ended

\* A chunk (AddAudioChunk).
LEMMA ChunkOwn ==
  ASSUME IInv, OwnInv, NEW level \in Level, Chunk(level)
  PROVE  OwnInv'
<1>1. TypeOK /\ Idle /\ Talking /\ UNCHANGED <<plugin, calls, session>>
  BY DEF Chunk, callVars, IInv
<1>2. port \in PortRecord /\ port.below \in Nat /\ tapes \in Seq(TapeRecord) /\ now \in Nat
  BY <1>1, PortFacts DEF TypeOK
<1>3. Quieter(level) \in Nat
  BY <1>2 DEF Quieter
<1>4. CASE BeginTape(port, tapes)
  BY <1>1, <1>2, <1>4, IdleStories, BeginOwn
<1>5. CASE BeginTape(StopPort(port), PortTape(StopTape))
  <2> DEFINE pt == StopPort(port)
             before == PortTape(StopTape)
  <2>1. pt \in PortRecord /\ pt.backlog = port.backlog /\ pt.segmentNumber = port.segmentNumber
    BY <1>2 DEF StopPort, PortRecord
  <2>2. Stories(before) /\ before \in Seq(TapeRecord)
    BY <1>1, StoppedStories
  <2>3. BeginTape(pt, before)
    BY <1>5
  <2> HIDE DEF pt, before
  <2> QED
    BY <1>1, <2>1, <2>2, <2>3, BeginOwn
<1>6. CASE GoesOn(port)
  BY <1>1, <1>2, <1>6, GoesOnOwn
<1>7. CASE GoesOn([port EXCEPT !.below = Quieter(level)])
  <2> DEFINE pt == [port EXCEPT !.below = Quieter(level)]
  <2>1. /\ pt \in PortRecord /\ pt.backlog = port.backlog /\ pt.tape = port.tape
        /\ pt.capturing = port.capturing /\ pt.needSendStop = port.needSendStop
        /\ pt.segmentNumber = port.segmentNumber
    BY <1>2, <1>3 DEF PortRecord
  <2>2. GoesOn(pt)
    BY <1>7
  <2> HIDE DEF pt
  <2> QED
    BY <1>1, <2>1, <2>2, GoesOnOwn
<1>8. CASE /\ tapes' = PortTape(StopTape)
           /\ port' = [StopPort(port) EXCEPT !.vadUp = FALSE, !.below = Quieter(level),
                                             !.tape = NoTape, !.lastUpdated = now]
           /\ UNCHANGED step
  <2>1. Stories(tapes') /\ step' = 0
    BY <1>1, <1>8, StoppedStories DEF Idle
  <2>2. /\ ~port'.capturing /\ ~port'.needSendStop /\ port'.tape = NoTape
        /\ port'.backlog = port.backlog /\ port'.segmentNumber = port.segmentNumber
        /\ port'.segmentNumber \in Nat
    BY <1>2, <1>8 DEF StopPort, PortRecord
  <2> QED
    BY <1>1, <2>1, <2>2, EndOwn
<1>9. CASE /\ ~port.vadUp
           /\ \/ BeginTape([port EXCEPT !.vadUp = TRUE, !.below = 0], tapes)
              \/ GoesOn([port EXCEPT !.vadUp = TRUE, !.below = 0])
  <2> DEFINE up == [port EXCEPT !.vadUp = TRUE, !.below = 0]
  <2>1. /\ up \in PortRecord /\ up.backlog = port.backlog /\ up.tape = port.tape
        /\ up.capturing = port.capturing /\ up.needSendStop = port.needSendStop
        /\ up.segmentNumber = port.segmentNumber
    BY <1>2 DEF PortRecord
  <2>2. BeginTape(up, tapes) \/ GoesOn(up)
    BY <1>9
  <2> HIDE DEF up
  <2> QED
    BY <1>1, <1>2, <2>1, <2>2, IdleStories, BeginOwn, GoesOnOwn
<1>10. CASE ChunkSegments
  BY <1>4, <1>5, <1>6, <1>10 DEF ChunkSegments
<1>11. CASE ChunkVadUp(level)
  BY <1>6, <1>7, <1>8, <1>11 DEF ChunkVadUp
<1>12. CASE ChunkVadDown(level)
  BY <1>6, <1>9, <1>12 DEF ChunkVadDown
<1> QED
  BY <1>10, <1>11, <1>12 DEF Chunk

\* A port nobody called yet.
LEMMA InitOwn ==
  ASSUME Init
  PROVE  OwnInv
<1>1. session = "idle" /\ calls = 0 /\ port = NewPort /\ tapes = <<>> /\ step = 0
  BY DEF Init
<1>2. port.backlog = <<>> /\ ~port.capturing /\ ~port.needSendStop /\ DOMAIN tapes = {}
  BY <1>1 DEF NewPort
<1>3. Len(port.backlog) = 0 /\ DOMAIN port.backlog = {}
  BY <1>2
<1>4. Present = {}
  BY <1>2 DEF Present
<1>5. BacklogInv
  BY <1>1, <1>2 DEF BacklogInv
<1>6. CallInv
  BY <1>1, <1>2 DEF CallInv
<1>7. ReplayInv
  BY <1>1, <1>3 DEF ReplayInv
<1>8. StoryInv
  BY <1>4 DEF StoryInv
<1> QED
  BY <1>5, <1>6, <1>7, <1>8 DEF OwnInv

\* Every step, and none, keeps the stories.
LEMMA StepOwn ==
  ASSUME IInv, OwnInv, [Next]_vars
  PROVE  OwnInv'
<1>1. CASE StartCall
  BY <1>1, StartCallOwn
<1>2. CASE ReportUid \/ ReportEnd
  BY <1>2, MetadataOwn
<1>3. CASE ReportUpdate
  BY <1>3, UpdateOwn
<1>4. CASE StopCall \/ Expire
  BY <1>4, StopsOwn
<1>5. CASE \E level \in Level : Chunk(level)
  BY <1>5, ChunkOwn
<1>6. CASE Replay
  BY <1>6, ReplayOwn
<1>7. CASE AddChunk
  BY <1>7, AddChunkOwn
<1>8. CASE \E t \in DOMAIN tapes : Write(t)
  BY <1>8, WriteOwn
<1>9. CASE Tick \/ UNCHANGED vars
  BY <1>9, TickOwn
<1> QED
  BY <1>1, <1>2, <1>3, <1>4, <1>5, <1>6, <1>7, <1>8, <1>9 DEF Next

\* What the invariant says of every recording that is settled.
LEMMA StoriesAreOwn ==
  ASSUME TypeOK, OwnInv
  PROVE  OwnStory
<1>1. Settled \subseteq Present
  BY DEF Settled, Present, OwnInv, CallInv
<1>2. \A t \in Settled : Numbered(t) /\ Begun(t)
  BY DEF Settled, Numbered, Begun, Idle
<1>3. ASSUME NEW t \in Settled PROVE Told(tapes[t])
  <2>1. /\ tapes[t].uid[1] = calls /\ tapes[t].uid[2] > 0 /\ Story(tapes[t])
    BY <1>1, <1>2 DEF OwnInv, StoryInv
  <2>2. tapes[t].call = calls
    BY <1>1 DEF Present
  <2> QED
    BY <2>1, <2>2 DEF Told, Story
<1>4. \A t, u \in Settled : u # t => tapes[u].uid # tapes[t].uid
  BY <1>1, <1>2 DEF OwnInv, StoryInv
<1> QED
  BY <1>3, <1>4 DEF OwnStory

\* For any number of calls, segments and updates, and whatever the clock and the level of
\* the sound: every recording of a call has an identifier of its own under the call's, and
\* its messages are a start, updates and at last one stop (ReportEventBacklog).
THEOREM StoriesTold == Spec => []OwnStory
<1>1. Init => IInv /\ OwnInv
  BY InitHolds, InitOwn
<1>2. (IInv /\ OwnInv) /\ [Next]_vars => (IInv /\ OwnInv)'
  BY StepKeeps, StepOwn
<1>3. IInv /\ OwnInv => OwnStory
  BY StoriesAreOwn DEF IInv
<1> QED
  BY <1>1, <1>2, <1>3, PTL DEF Spec

===============================================================================
