--------------------------- MODULE ReportingProofs ---------------------------
(***************************************************************************)
(* Proofs about Reporting for any number of trackers and senders, any size *)
(* of the queues and any setting of the flags: queues and permits, the     *)
(* refinement of a queue, order, answers, skips.                           *)
(***************************************************************************)
EXTENDS Reporting, SequenceTheorems, FiniteSetTheorems, TLAPS

SenderState == [msg : Message \cup {NoMessage}, at : Nat]

\* The message in the hands of a sender or of a tracker's thread is a real one,
\* and a sender's place in the vector is a place (AddMessage, ReportingThread::Run).
HandsConsistent ==
  /\ \A s \in Sender : sender[s] # NotAdding => sender[s].msg \in Message /\ sender[s].at > 0
  /\ \A k \in Tracker : thread[k].pc \in {"try", "send"} => thread[k].msg \in Message

\* The inductive invariant.
IInv == TypeOK /\ HandsConsistent /\ ThreadAwake

-----------------------------------------------------------------------------
(* Steps of the threads *)

\* What a tracker's thread does next is recorded for that thread only.
LEMMA BecomesTyped ==
  ASSUME IInv, NEW k \in Tracker, NEW pc, NEW m, Becomes(k, At(pc, m)),
         pc \in {"new", "init", "idle", "try", "send", "exited"},
         m \in Message \/ (m = NoMessage /\ pc \notin {"try", "send"})
  PROVE  /\ thread' \in [Tracker -> ThreadState]
         /\ \A j \in Tracker : thread'[j].pc \in {"try", "send"} => thread'[j].msg \in Message
<1> DEFINE st == At(pc, m)
<1>1. thread \in [Tracker -> ThreadState]
  BY DEF IInv, TypeOK
<1>2. st \in ThreadState /\ st.pc = pc /\ st.msg = m
  BY DEF At, ThreadState
<1>3. \A j \in Tracker : thread[j].pc \in {"try", "send"} => thread[j].msg \in Message
  BY DEF IInv, HandsConsistent
<1>4. thread' = [thread EXCEPT ![k] = st]
  BY DEF Becomes
<1> HIDE DEF st
<1>5. thread' \in [Tracker -> ThreadState]
  BY <1>1, <1>2, <1>4
<1>6. \A j \in Tracker : thread'[j] = IF j = k THEN st ELSE thread[j]
  BY <1>1, <1>4
<1>7. QED
  BY <1>2, <1>3, <1>5, <1>6

\* A thread that is done with its message records which one, and goes idle.
LEMMA SettleTyped ==
  ASSUME IInv, NEW k \in Tracker, thread[k].pc \in {"try", "send"},
         NEW how \in {"answered", "unreadable", "dropped", "skipped", "ignored"}, Settle(k, how)
  PROVE  /\ settled' \in [Tracker -> Seq(Outcome)]
         /\ thread' \in [Tracker -> ThreadState]
         /\ \A j \in Tracker : thread'[j].pc \in {"try", "send"} => thread'[j].msg \in Message
<1> DEFINE o == [msg |-> thread[k].msg, how |-> how]
<1>1. o \in Outcome
  BY DEF Outcome, IInv, HandsConsistent
<1>2. settled \in [Tracker -> Seq(Outcome)]
  BY DEF IInv, TypeOK
<1>3. settled' = [settled EXCEPT ![k] = Append(@, o)]
  BY DEF Settle
<1> HIDE DEF o
<1>4. settled' \in [Tracker -> Seq(Outcome)]
  BY <1>1, <1>2, <1>3
<1>5. Becomes(k, At("idle", NoMessage))
  BY DEF Settle, Idle
<1>6. QED
  BY <1>4, <1>5, BecomesTyped

\* push() keeps a queue within its size, and its permits above its length.
LEMMA PushKeeps ==
  ASSUME IInv, NEW k \in Tracker, NEW m \in Message, Push(k, m)
  PROVE  /\ queue' \in [Tracker -> Seq(Message)]
         /\ \A j \in Tracker : Len(queue'[j]) <= QueueSize
         /\ permits' \in [Tracker -> Nat]
         /\ \A j \in Tracker : Len(queue'[j]) <= permits'[j]
<1> DEFINE q == IF HasRoom(k) THEN Append(queue[k], m) ELSE queue[k]
<1>1. /\ queue \in [Tracker -> Seq(Message)] /\ permits \in [Tracker -> Nat]
      /\ \A j \in Tracker : Len(queue[j]) <= QueueSize /\ Len(queue[j]) <= permits[j]
      /\ QueueSize \in Nat
  BY ReportingAssumption DEF IInv, TypeOK, ThreadAwake
<1>2. q \in Seq(Message) /\ Len(q) <= QueueSize /\ Len(q) <= permits[k] + 1
  BY <1>1 DEF HasRoom
<1>3. queue' = [queue EXCEPT ![k] = q] /\ permits' = [permits EXCEPT ![k] = permits[k] + 1]
  BY DEF Push
<1> HIDE DEF q
<1>4. \A j \in Tracker : /\ queue'[j] = IF j = k THEN q ELSE queue[j]
                         /\ permits'[j] = IF j = k THEN permits[k] + 1 ELSE permits[j]
  BY <1>1, <1>3
<1>5. queue' \in [Tracker -> Seq(Message)] /\ permits' \in [Tracker -> Nat]
  BY <1>1, <1>2, <1>3
<1>6. QED
  BY <1>1, <1>2, <1>4, <1>5

\* Answers are recorded as orders to the recorder.
LEMMA HandleTyped ==
  ASSUME IInv, NEW k \in Tracker, thread[k].pc \in {"try", "send"}, NEW delete \in BOOLEAN,
         HandleResponse(k, delete)
  PROVE  orders' \in [Tracker -> Seq(Order)]
<1> DEFINE o == [n |-> thread[k].msg.n, what |-> Response(thread[k].msg, delete), delete |-> delete]
<1>1. thread[k].msg \in Message
  BY DEF IInv, HandsConsistent
<1>2. thread[k].msg.n \in 1..MaxMessages
  BY <1>1 DEF Message
<1>3. Response(thread[k].msg, delete) \in {"delete", "pause", "capture", "none"}
  BY DEF Response
<1>4. o \in Order
  BY <1>2, <1>3 DEF Order
<1>5. orders \in [Tracker -> Seq(Order)] /\ orders' = [orders EXCEPT ![k] = Append(@, o)]
  BY DEF IInv, TypeOK, HandleResponse
<1> HIDE DEF o
<1>6. QED
  BY <1>4, <1>5

\* A tracker that processes a message processes the one in its thread's hand.
LEMMA ProcessesTyped ==
  ASSUME IInv, NEW k \in Tracker, thread[k].pc \in {"try", "send"}, Processes(k)
  PROVE  processed' \in [Tracker -> Seq(Message)]
BY DEF IInv, TypeOK, HandsConsistent, Processes

-----------------------------------------------------------------------------
(* Every action keeps the invariant *)

LEMMA InitIInv == Init => IInv
<1> SUFFICES ASSUME Init PROVE IInv
  OBVIOUS
<1>1. /\ registered \in Seq(Tracker) /\ byHost \in [Server -> Tracker \cup {NoTracker}]
      /\ queue \in [Tracker -> Seq(Message)] /\ permits \in [Tracker -> Nat]
      /\ \A k \in Tracker : queue[k] = <<>> /\ Len(queue[k]) = 0
  BY DEF Init
<1>2. thread \in [Tracker -> ThreadState] /\ \A k \in Tracker : thread[k].pc = "new"
  BY DEF Init, ThreadState, At
<1>3. sender \in [Sender -> SenderState] /\ \A s \in Sender : sender[s] = NotAdding
  BY DEF Init, SenderState, NotAdding
<1>4. /\ skip \in [Tracker -> Nat] /\ asked \in [Tracker -> Nat]
      /\ up \in [Tracker -> BOOLEAN] /\ stopping \in BOOLEAN
  BY DEF Init
<1>5. /\ settled \in [Tracker -> Seq(Outcome)] /\ processed \in [Tracker -> Seq(Message)]
      /\ orders \in [Tracker -> Seq(Order)]
  BY DEF Init
<1>6. added \in 0..MaxMessages /\ lost \in 0..MaxLost
  BY ReportingAssumption DEF Init
<1>7. \A k \in Tracker : Len(queue[k]) <= QueueSize /\ Len(queue[k]) <= permits[k]
  BY <1>1, ReportingAssumption
<1>8. TypeOK
  BY <1>1, <1>2, <1>3, <1>4, <1>5, <1>6, <1>7 DEF TypeOK, SenderState
<1>9. HandsConsistent /\ ThreadAwake
  BY <1>2, <1>3, <1>7 DEF HandsConsistent, ThreadAwake
<1>10. QED
  BY <1>8, <1>9 DEF IInv

LEMMA AddMessageIInv ==
  ASSUME IInv, NEW s \in Sender, NEW stage \in Stage, AddMessage(s, stage)
  PROVE  IInv'
<1> DEFINE m == [n |-> added + 1, stage |-> stage, by |-> s]
           st == [msg |-> m, at |-> 1]
<1>1. added + 1 \in 1..MaxMessages /\ added' \in 0..MaxMessages
  BY ReportingAssumption DEF IInv, TypeOK, AddMessage
<1>2. m \in Message
  BY <1>1 DEF Message
<1>3. sender \in [Sender -> SenderState] /\ sender' = [sender EXCEPT ![s] = st]
  BY DEF IInv, TypeOK, SenderState, AddMessage
<1> HIDE DEF m
<1>4. st \in SenderState /\ st.msg \in Message /\ st.at > 0
  BY <1>2 DEF SenderState
<1> HIDE DEF st
<1>5. sender' \in [Sender -> SenderState]
  BY <1>3, <1>4
<1>6. \A r \in Sender : sender'[r] # NotAdding => sender'[r].msg \in Message /\ sender'[r].at > 0
  BY <1>3, <1>4 DEF IInv, HandsConsistent
<1>7. UNCHANGED <<registered, byHost, queues, skip, thread, up, stopping, settled, processed, orders, asked, lost>>
  BY DEF AddMessage
<1>8. TypeOK'
  BY <1>1, <1>5, <1>7 DEF IInv, TypeOK, SenderState, queues
<1>9. HandsConsistent' /\ ThreadAwake'
  BY <1>6, <1>7 DEF IInv, HandsConsistent, ThreadAwake, queues
<1>10. QED
  BY <1>8, <1>9 DEF IInv

LEMMA AddNextIInv ==
  ASSUME IInv, NEW s \in Sender, AddNext(s)
  PROVE  IInv'
<1>1. /\ sender \in [Sender -> SenderState] /\ registered \in Seq(Tracker)
      /\ sender[s].msg \in Message /\ sender[s].at \in Nat /\ sender[s].at > 0
  BY DEF IInv, TypeOK, HandsConsistent, SenderState, AddNext
<1>2. CASE sender[s].at <= Len(registered) /\ Push(registered[sender[s].at], sender[s].msg)
           /\ sender' = [sender EXCEPT ![s].at = @ + 1]
  <2>1. registered[sender[s].at] \in Tracker
    BY <1>1, <1>2
  <2>2. /\ queue' \in [Tracker -> Seq(Message)]
        /\ \A j \in Tracker : Len(queue'[j]) <= QueueSize
        /\ permits' \in [Tracker -> Nat]
        /\ \A j \in Tracker : Len(queue'[j]) <= permits'[j]
    BY <1>1, <1>2, <2>1, PushKeeps
  <2> DEFINE st == [sender[s] EXCEPT !.at = @ + 1]
  <2>3. st \in SenderState /\ st.msg \in Message /\ st.at > 0
    BY <1>1 DEF SenderState
  <2>4. sender' = [sender EXCEPT ![s] = st]
    BY <1>2
  <2> HIDE DEF st
  <2>5. sender' \in [Sender -> SenderState]
    BY <1>1, <2>3, <2>4
  <2>6. \A r \in Sender : sender'[r] # NotAdding => sender'[r].msg \in Message /\ sender'[r].at > 0
    BY <1>1, <2>3, <2>4 DEF IInv, HandsConsistent
  <2>7. TypeOK'
    BY <2>2, <2>5 DEF IInv, TypeOK, SenderState, AddNext, history
  <2>8. HandsConsistent' /\ ThreadAwake'
    BY <2>2, <2>6 DEF IInv, HandsConsistent, ThreadAwake, AddNext
  <2>9. QED
    BY <2>7, <2>8 DEF IInv
<1>3. CASE sender' = [sender EXCEPT ![s] = NotAdding] /\ UNCHANGED queues
  <2>1. NotAdding \in SenderState
    BY DEF SenderState, NotAdding
  <2>2. sender' \in [Sender -> SenderState]
    BY <1>1, <1>3, <2>1
  <2>3. \A r \in Sender : sender'[r] # NotAdding => sender'[r].msg \in Message /\ sender'[r].at > 0
    BY <1>1, <1>3 DEF IInv, HandsConsistent
  <2>4. TypeOK'
    BY <1>3, <2>2 DEF IInv, TypeOK, SenderState, AddNext, history, queues
  <2>5. HandsConsistent' /\ ThreadAwake'
    BY <1>3, <2>3 DEF IInv, HandsConsistent, ThreadAwake, AddNext, queues
  <2>6. QED
    BY <2>4, <2>5 DEF IInv
<1>4. QED
  BY <1>2, <1>3 DEF AddNext

LEMMA SkipTapesIInv ==
  ASSUME IInv, NEW h \in Server \cup {NoServer}, SkipTapes(h)
  PROVE  IInv'
<1>1. SkipTarget(h) \subseteq Tracker
  BY DEF SkipTarget, IInv, TypeOK
<1>2. skip' \in [Tracker -> Nat] /\ asked' \in [Tracker -> Nat]
  BY <1>1 DEF SkipTapes, IInv, TypeOK
<1>3. TypeOK'
  BY <1>2 DEF IInv, TypeOK, SkipTapes, queues
<1>4. HandsConsistent' /\ ThreadAwake'
  BY DEF IInv, HandsConsistent, ThreadAwake, SkipTapes, queues
<1>5. QED
  BY <1>3, <1>4 DEF IInv

LEMMA RegisterIInv ==
  ASSUME IInv, NEW k \in Tracker, Register(k)
  PROVE  IInv'
<1>1. Becomes(k, At("init", NoMessage))
  BY DEF Register
<1>2. /\ thread' \in [Tracker -> ThreadState]
      /\ \A j \in Tracker : thread'[j].pc \in {"try", "send"} => thread'[j].msg \in Message
  BY <1>1, BecomesTyped
<1>3. registered' \in Seq(Tracker)
  BY DEF Register, IInv, TypeOK
<1>4. byHost' \in [Server -> Tracker \cup {NoTracker}]
  BY ReportingAssumption DEF Register, IInv, TypeOK
<1>5. TypeOK'
  BY <1>2, <1>3, <1>4 DEF IInv, TypeOK, Register, queues, history
<1>6. HandsConsistent' /\ ThreadAwake'
  BY <1>2 DEF IInv, HandsConsistent, ThreadAwake, Register, queues
<1>7. QED
  BY <1>5, <1>6 DEF IInv

LEMMA InitAnsweredIInv ==
  ASSUME IInv, NEW k \in Tracker, InitAnswered(k)
  PROVE  IInv'
<1>1. /\ thread' \in [Tracker -> ThreadState]
      /\ \A j \in Tracker : thread'[j].pc \in {"try", "send"} => thread'[j].msg \in Message
  BY BecomesTyped DEF InitAnswered, Idle
<1>2. TypeOK'
  BY <1>1 DEF IInv, TypeOK, InitAnswered, queues, history
<1>3. HandsConsistent' /\ ThreadAwake'
  BY <1>1 DEF IInv, HandsConsistent, ThreadAwake, InitAnswered, queues
<1>4. QED
  BY <1>2, <1>3 DEF IInv

LEMMA PopIInv ==
  ASSUME IInv, NEW k \in Tracker, Pop(k)
  PROVE  IInv'
<1> DEFINE m == Head(queue[k])
           q == Tail(queue[k])
           o == [msg |-> m, how |-> "ignored"]
<1>1. /\ queue \in [Tracker -> Seq(Message)] /\ permits \in [Tracker -> Nat]
      /\ \A j \in Tracker : Len(queue[j]) <= QueueSize /\ Len(queue[j]) <= permits[j]
      /\ settled \in [Tracker -> Seq(Outcome)] /\ QueueSize \in Nat
  BY ReportingAssumption DEF IInv, TypeOK, ThreadAwake
<1>2. /\ queue[k] # <<>> /\ permits[k] > 0
      /\ permits' = [permits EXCEPT ![k] = permits[k] - 1]
      /\ queue' = [queue EXCEPT ![k] = q]
  BY DEF Pop
<1>3. m \in Message /\ q \in Seq(Message) /\ Len(q) = Len(queue[k]) - 1
  BY <1>1, <1>2
<1>4. o \in Outcome
  BY <1>3 DEF Outcome
<1> HIDE DEF q
<1>5. \A j \in Tracker : /\ queue'[j] = IF j = k THEN q ELSE queue[j]
                         /\ permits'[j] = IF j = k THEN permits[k] - 1 ELSE permits[j]
  BY <1>1, <1>2
<1>6. queue' \in [Tracker -> Seq(Message)] /\ permits' \in [Tracker -> Nat]
  BY <1>1, <1>2, <1>3
<1>7. \A j \in Tracker : Len(queue'[j]) <= QueueSize /\ Len(queue'[j]) <= permits'[j]
  BY <1>1, <1>2, <1>3, <1>5
<1>8. /\ settled' \in [Tracker -> Seq(Outcome)]
      /\ thread' \in [Tracker -> ThreadState]
      /\ \A j \in Tracker : thread'[j].pc \in {"try", "send"} => thread'[j].msg \in Message
  <2>1. CASE Becomes(k, At("try", m)) /\ UNCHANGED settled
    <3>1. m \in Message
      BY <1>3
    <3> HIDE DEF m
    <3>2. QED
      BY <1>1, <2>1, <3>1, BecomesTyped
  <2>2. CASE settled' = [settled EXCEPT ![k] = Append(@, o)] /\ UNCHANGED thread
    <3> HIDE DEF o
    <3>1. settled' \in [Tracker -> Seq(Outcome)]
      BY <1>1, <1>4, <2>2
    <3>2. QED
      BY <2>2, <3>1 DEF IInv, TypeOK, HandsConsistent
  <2>3. QED
    BY <2>1, <2>2 DEF Pop
<1>9. UNCHANGED <<registered, byHost, skip, sender, up, stopping, added, processed, orders, asked, lost>>
  BY DEF Pop
<1>10. TypeOK'
  BY <1>6, <1>7, <1>8, <1>9 DEF IInv, TypeOK
<1>11. HandsConsistent' /\ ThreadAwake'
  BY <1>7, <1>8, <1>9 DEF IInv, HandsConsistent, ThreadAwake
<1>12. QED
  BY <1>10, <1>11 DEF IInv

LEMMA PopNothingIInv ==
  ASSUME IInv, NEW k \in Tracker, PopNothing(k)
  PROVE  IInv'
<1>1. /\ queue \in [Tracker -> Seq(Message)] /\ permits \in [Tracker -> Nat]
      /\ \A j \in Tracker : Len(queue[j]) <= permits[j]
      /\ permits[k] > 0 /\ queue[k] = <<>>
      /\ permits' = [permits EXCEPT ![k] = permits[k] - 1]
      /\ UNCHANGED <<registered, byHost, queue, skip, sender, up, stopping, history>>
  BY DEF IInv, TypeOK, ThreadAwake, PopNothing
<1>2. permits' \in [Tracker -> Nat] /\ \A j \in Tracker : Len(queue[j]) <= permits'[j]
  BY <1>1
<1>3. /\ thread' \in [Tracker -> ThreadState]
      /\ \A j \in Tracker : thread'[j].pc \in {"try", "send"} => thread'[j].msg \in Message
  <2>1. CASE Becomes(k, At("exited", NoMessage))
    BY <2>1, BecomesTyped
  <2>2. CASE UNCHANGED thread
    BY <2>2 DEF IInv, TypeOK, HandsConsistent
  <2>3. QED
    BY <2>1, <2>2 DEF PopNothing
<1>4. TypeOK'
  BY <1>1, <1>2, <1>3 DEF IInv, TypeOK, history
<1>5. HandsConsistent' /\ ThreadAwake'
  BY <1>1, <1>2, <1>3 DEF IInv, HandsConsistent, ThreadAwake
<1>6. QED
  BY <1>4, <1>5 DEF IInv

LEMMA CheckSkipIInv ==
  ASSUME IInv, NEW k \in Tracker, CheckSkip(k)
  PROVE  IInv'
<1>1. thread[k].pc = "try" /\ thread[k].msg \in Message /\ skip \in [Tracker -> Nat]
  BY DEF CheckSkip, IInv, TypeOK, HandsConsistent
<1>2. /\ settled' \in [Tracker -> Seq(Outcome)]
      /\ thread' \in [Tracker -> ThreadState]
      /\ \A j \in Tracker : thread'[j].pc \in {"try", "send"} => thread'[j].msg \in Message
      /\ skip' \in [Tracker -> Nat]
  <2>1. CASE skip[k] > 0 /\ Settle(k, "skipped") /\ skip' = [skip EXCEPT ![k] = @ - 1]
    BY <1>1, <2>1, SettleTyped
  <2>2. CASE Becomes(k, At("send", thread[k].msg)) /\ UNCHANGED <<skip, settled>>
    <3>1. settled \in [Tracker -> Seq(Outcome)]
      BY DEF IInv, TypeOK
    <3>2. QED
      BY <1>1, <2>2, <3>1, BecomesTyped
  <2>3. QED
    BY <2>1, <2>2 DEF CheckSkip
<1>3. UNCHANGED <<registered, byHost, queues, sender, up, stopping, added, processed, orders, asked, lost>>
  BY DEF CheckSkip
<1>4. TypeOK'
  BY <1>2, <1>3 DEF IInv, TypeOK, queues
<1>5. HandsConsistent' /\ ThreadAwake'
  BY <1>2, <1>3 DEF IInv, HandsConsistent, ThreadAwake, queues
<1>6. QED
  BY <1>4, <1>5 DEF IInv

LEMMA SendAnsweredIInv ==
  ASSUME IInv, NEW k \in Tracker, SendAnswered(k)
  PROVE  IInv'
<1>1. thread[k].pc = "send"
  BY DEF SendAnswered
<1>2. PICK how \in {"answered", "unreadable"} : Settle(k, how)
  BY DEF SendAnswered
<1>3. /\ settled' \in [Tracker -> Seq(Outcome)]
      /\ thread' \in [Tracker -> ThreadState]
      /\ \A j \in Tracker : thread'[j].pc \in {"try", "send"} => thread'[j].msg \in Message
  BY <1>1, <1>2, SettleTyped
<1>4. processed' \in [Tracker -> Seq(Message)]
  <2>1. Processes(k) \/ UNCHANGED processed
    BY DEF SendAnswered
  <2>2. QED
    BY <1>1, <2>1, ProcessesTyped DEF IInv, TypeOK
<1>5. orders' \in [Tracker -> Seq(Order)]
  <2>1. (\E delete \in BOOLEAN : HandleResponse(k, delete)) \/ UNCHANGED orders
    BY DEF SendAnswered
  <2>2. QED
    BY <1>1, <2>1, HandleTyped DEF IInv, TypeOK
<1>6. UNCHANGED <<registered, byHost, queues, skip, sender, up, stopping, added, asked, lost>>
  BY DEF SendAnswered
<1>7. TypeOK'
  BY <1>3, <1>4, <1>5, <1>6 DEF IInv, TypeOK, queues
<1>8. HandsConsistent' /\ ThreadAwake'
  BY <1>3, <1>6 DEF IInv, HandsConsistent, ThreadAwake, queues
<1>9. QED
  BY <1>7, <1>8 DEF IInv

LEMMA SendFailsIInv ==
  ASSUME IInv, NEW k \in Tracker, SendFails(k)
  PROVE  IInv'
<1>1. thread[k].pc = "send" /\ thread[k].msg \in Message
  BY DEF SendFails, IInv, HandsConsistent
<1>2. /\ settled' \in [Tracker -> Seq(Outcome)]
      /\ thread' \in [Tracker -> ThreadState]
      /\ \A j \in Tracker : thread'[j].pc \in {"try", "send"} => thread'[j].msg \in Message
  <2>1. CASE Settle(k, "dropped")
    BY <1>1, <2>1, SettleTyped
  <2>2. CASE Becomes(k, At("try", thread[k].msg)) /\ UNCHANGED settled
    <3>1. settled \in [Tracker -> Seq(Outcome)]
      BY DEF IInv, TypeOK
    <3>2. QED
      BY <1>1, <2>2, <3>1, BecomesTyped
  <2>3. QED
    BY <2>1, <2>2 DEF SendFails
<1>3. processed' \in [Tracker -> Seq(Message)] /\ lost' \in 0..MaxLost
  <2>1. CASE Processes(k) /\ lost < MaxLost /\ lost' = lost + 1
    <3>1. lost' \in 0..MaxLost
      BY <2>1, ReportingAssumption DEF IInv, TypeOK
    <3>2. QED
      BY <1>1, <2>1, <3>1, ProcessesTyped
  <2>2. CASE UNCHANGED <<processed, lost>>
    BY <2>2 DEF IInv, TypeOK
  <2>3. QED
    BY <2>1, <2>2 DEF SendFails
<1>4. UNCHANGED <<registered, byHost, queues, skip, sender, up, stopping, added, orders, asked>>
  BY DEF SendFails
<1>5. TypeOK'
  BY <1>2, <1>3, <1>4 DEF IInv, TypeOK, queues
<1>6. HandsConsistent' /\ ThreadAwake'
  BY <1>2, <1>4 DEF IInv, HandsConsistent, ThreadAwake, queues
<1>7. QED
  BY <1>5, <1>6 DEF IInv

LEMMA NextIInv == IInv /\ [Next]_vars => IInv'
<1> SUFFICES ASSUME IInv, [Next]_vars PROVE IInv'
  OBVIOUS
<1>1. CASE \E s \in Sender, stage \in Stage : AddMessage(s, stage)
  BY <1>1, AddMessageIInv
<1>2. CASE \E s \in Sender : AddNext(s)
  BY <1>2, AddNextIInv
<1>3. CASE \E h \in Server \cup {NoServer} : SkipTapes(h)
  BY <1>3, SkipTapesIInv
<1>4. CASE \E k \in Tracker : ThreadStep(k)
  BY <1>4, RegisterIInv, InitAnsweredIInv, PopIInv, PopNothingIInv, CheckSkipIInv,
     SendAnsweredIInv, SendFailsIInv DEF ThreadStep
<1>5. CASE \E k \in Tracker : UpDown(k)
  BY <1>5 DEF UpDown, IInv, TypeOK, HandsConsistent, ThreadAwake, queues, history
<1>6. CASE Shutdown
  BY <1>6 DEF Shutdown, IInv, TypeOK, HandsConsistent, ThreadAwake, queues, history
<1>7. CASE UNCHANGED vars
  BY <1>7 DEF vars, IInv, TypeOK, HandsConsistent, ThreadAwake, queues, history
<1>8. QED
  BY <1>1, <1>2, <1>3, <1>4, <1>5, <1>6, <1>7 DEF Next

\* Types, and that a queue's permits, its messages and the messages in hand agree,
\* hold throughout every behaviour of AddMessage, SkipTapes and the threads.
THEOREM ReportingInvariant == Spec => []IInv
<1>1. QED
  BY InitIInv, NextIInv, PTL DEF Spec

\* Queues, threads and histories keep their types, and no m_messageQueue
\* exceeds ReportingQueueSize.
THEOREM ReportingTypeCorrect == Spec => []TypeOK
<1>1. IInv => TypeOK
  BY DEF IInv
<1>2. QED
  BY <1>1, ReportingInvariant, PTL

\* No tracker's thread ever sleeps in pop() beside a message, however many
\* messages its full queue refused.
THEOREM ThreadsStayAwake == Spec => []ThreadAwake
<1>1. IInv => ThreadAwake
  BY DEF IInv
<1>2. QED
  BY <1>1, ReportingInvariant, PTL

-----------------------------------------------------------------------------
(* The refinement *)

\* The pipe of tracker k goes on: the message at its front is settled, one enters
\* at its back, or nothing happens to it.
PipeStep(k) == [Pipe(k)!FifoNext]_(Pipe(k)!fifoVars)

\* Nothing enters the pipe of tracker k: what is in it at most goes on.
PipeTakes(k) == Pipe(k)!Take \/ UNCHANGED Pipe(k)!fifoVars

\* What only goes on is a step of the pipe.
LEMMA TakingIsStep == ASSUME NEW k \in Tracker, PipeTakes(k) PROVE PipeStep(k)
BY DEF PipeTakes, PipeStep, Pipe!FifoNext

\* What Settled is when one more message is settled.
LEMMA SettledAppend ==
  ASSUME IInv, NEW k \in Tracker, NEW m \in Message,
         NEW how \in {"answered", "unreadable", "dropped", "skipped", "ignored"},
         settled' = [settled EXCEPT ![k] = Append(@, [msg |-> m, how |-> how])]
  PROVE  /\ Settled(k)' = Append(Settled(k), m)
         /\ \A j \in Tracker : j # k => Settled(j)' = Settled(j)
<1> DEFINE o == [msg |-> m, how |-> how]
<1>1. o \in Outcome /\ o.msg = m
  BY DEF Outcome
<1>2. settled[k] \in Seq(Outcome) /\ settled \in [Tracker -> Seq(Outcome)]
  BY DEF IInv, TypeOK
<1> HIDE DEF o
<1>3. settled'[k] = Append(settled[k], o) /\ \A j \in Tracker : j # k => settled'[j] = settled[j]
  BY <1>2 DEF o
<1>4. \A i \in DOMAIN settled[k] : settled[k][i].msg \in Message
  <2>1. \A i \in DOMAIN settled[k] : settled[k][i] \in Outcome
    BY <1>2
  <2>2. \A x \in Outcome : x.msg \in Message
    BY DEF Outcome
  <2>3. QED
    BY <2>1, <2>2
<1>5. Settled(k) \in Seq(Message) /\ Len(Settled(k)) = Len(settled[k])
  BY <1>2, <1>4 DEF Settled
<1>6. Settled(k)' \in Seq(Message) /\ Len(Settled(k)') = Len(settled[k]) + 1
  <2>1. settled'[k] \in Seq(Outcome) /\ Len(settled'[k]) = Len(settled[k]) + 1
    BY <1>1, <1>2, <1>3
  <2>2. \A i \in DOMAIN settled'[k] : settled'[k][i] \in Outcome
    BY <2>1
  <2>3. \A x \in Outcome : x.msg \in Message
    BY DEF Outcome
  <2>4. \A i \in DOMAIN settled'[k] : settled'[k][i].msg \in Message
    BY <2>2, <2>3
  <2>5. QED
    BY <2>1, <2>4 DEF Settled
<1>7. \A i \in 1..Len(settled[k]) + 1 : Settled(k)'[i] = Append(Settled(k), m)[i]
  <2> TAKE i \in 1..Len(settled[k]) + 1
  <2>1. settled'[k][i] = IF i <= Len(settled[k]) THEN settled[k][i] ELSE o
    BY <1>1, <1>2, <1>3
  <2>2. Settled(k)'[i] = settled'[k][i].msg
    BY <1>1, <1>2, <1>3 DEF Settled
  <2>3. Append(Settled(k), m)[i] = IF i <= Len(settled[k]) THEN Settled(k)[i] ELSE m
    BY <1>5
  <2>4. i <= Len(settled[k]) => Settled(k)[i] = settled[k][i].msg
    BY <1>2 DEF Settled
  <2>5. QED
    BY <1>1, <2>1, <2>2, <2>3, <2>4
<1>8. Settled(k)' = Append(Settled(k), m)
  <2>1. Append(Settled(k), m) \in Seq(Message) /\ Len(Append(Settled(k), m)) = Len(settled[k]) + 1
    BY <1>5
  <2>2. QED
    BY <1>6, <1>7, <2>1, SeqEqual
<1>9. \A j \in Tracker : j # k => Settled(j)' = Settled(j)
  BY <1>3 DEF Settled
<1>10. QED
  BY <1>8, <1>9

\* A step that leaves a tracker's queue, its thread's hand and its settled messages
\* alone does not touch its pipe.
LEMMA PipeAlone ==
  ASSUME NEW k \in Tracker, queue'[k] = queue[k], Hand(k)' = Hand(k), Settled(k)' = Settled(k)
  PROVE  PipeTakes(k)
BY DEF PipeTakes, Pipe!fifoVars

\* The hand of a tracker's thread is a sequence of no message or of one.
LEMMA HandTyped ==
  ASSUME IInv, NEW k \in Tracker
  PROVE  /\ Hand(k) \in Seq(Message) /\ queue[k] \in Seq(Message)
         /\ thread[k].pc \in {"try", "send"} => Hand(k) = <<thread[k].msg>> /\ thread[k].msg \in Message
         /\ thread[k].pc \notin {"try", "send"} => Hand(k) = <<>>
<1>1. queue[k] \in Seq(Message)
  BY DEF IInv, TypeOK
<1>2. thread[k].pc \in {"try", "send"} => thread[k].msg \in Message
  BY DEF IInv, HandsConsistent
<1>3. QED
  BY <1>1, <1>2 DEF Hand

\* What a thread's next activity makes of its hand.
LEMMA HandAfter ==
  ASSUME IInv, NEW k \in Tracker, NEW pc, NEW m, Becomes(k, At(pc, m))
  PROVE  /\ Hand(k)' = IF pc \in {"try", "send"} THEN <<m>> ELSE <<>>
         /\ \A j \in Tracker : j # k => Hand(j)' = Hand(j)
<1> DEFINE st == At(pc, m)
<1>1. st.pc = pc /\ st.msg = m
  BY DEF At
<1>2. thread \in [Tracker -> ThreadState] /\ thread' = [thread EXCEPT ![k] = st]
  BY DEF IInv, TypeOK, Becomes
<1> HIDE DEF st
<1>3. \A j \in Tracker : thread'[j] = IF j = k THEN st ELSE thread[j]
  BY <1>2
<1>4. QED
  BY <1>1, <1>3 DEF Hand

\* Settling a message takes it from the front of its tracker's pipe.
LEMMA SettleTakes ==
  ASSUME IInv, NEW k \in Tracker, thread[k].pc \in {"try", "send"}, UNCHANGED queue,
         NEW how \in {"answered", "unreadable", "dropped", "skipped", "ignored"}, Settle(k, how)
  PROVE  \A j \in Tracker : PipeTakes(j)
<1>1. /\ Hand(k) = <<thread[k].msg>> /\ thread[k].msg \in Message /\ queue[k] \in Seq(Message)
  BY HandTyped
<1>2. Hand(k)' = <<>> /\ \A j \in Tracker : j # k => Hand(j)' = Hand(j)
  BY HandAfter DEF Settle, Idle
<1>3. /\ Settled(k)' = Append(Settled(k), thread[k].msg)
      /\ \A j \in Tracker : j # k => Settled(j)' = Settled(j)
  <2> DEFINE m == thread[k].msg
  <2>1. m \in Message /\ settled' = [settled EXCEPT ![k] = Append(@, [msg |-> m, how |-> how])]
    BY <1>1 DEF Settle
  <2> HIDE DEF m
  <2>2. /\ Settled(k)' = Append(Settled(k), m)
        /\ \A j \in Tracker : j # k => Settled(j)' = Settled(j)
    BY <2>1, SettledAppend
  <2>3. QED
    BY <2>2 DEF m
<1>4. \A j \in Tracker : j # k => PipeTakes(j)
  BY <1>2, <1>3, PipeAlone
<1>5. /\ Hand(k) \o queue[k] # <<>>
      /\ Head(Hand(k) \o queue[k]) = thread[k].msg
      /\ Tail(Hand(k) \o queue[k]) = queue[k]
      /\ <<>> \o queue[k] = queue[k]
  <2>1. \A m \in Message, q \in Seq(Message) :
          <<m>> \o q # <<>> /\ Head(<<m>> \o q) = m /\ Tail(<<m>> \o q) = q /\ <<>> \o q = q
    <3> SUFFICES ASSUME NEW m \in Message, NEW q \in Seq(Message)
                 PROVE  <<m>> \o q # <<>> /\ Head(<<m>> \o q) = m /\ Tail(<<m>> \o q) = q /\ <<>> \o q = q
      OBVIOUS
    <3>1. <<m>> \o q \in Seq(Message) /\ Len(<<m>> \o q) = Len(q) + 1 /\ (<<m>> \o q)[1] = m
      OBVIOUS
    <3>2. \A i \in 1..Len(q) : (<<m>> \o q)[i + 1] = q[i]
      OBVIOUS
    <3>3. <<m>> \o q # <<>> /\ Head(<<m>> \o q) = m
      BY <3>1
    <3>4. Tail(<<m>> \o q) \in Seq(Message) /\ Len(Tail(<<m>> \o q)) = Len(q)
      BY <3>1, <3>3
    <3>5. \A i \in 1..Len(q) : Tail(<<m>> \o q)[i] = q[i]
      BY <3>1, <3>2, <3>3
    <3>6. Tail(<<m>> \o q) = q
      BY <3>4, <3>5, SeqEqual
    <3>7. <<>> \o q = q
      BY ConcatEmptySeq
    <3>8. QED
      BY <3>3, <3>6, <3>7
  <2>2. QED
    BY <1>1, <2>1
<1>6. Pipe(k)!Take
  BY <1>2, <1>3, <1>5 DEF Pipe!Take
<1>7. QED
  BY <1>4, <1>6 DEF PipeTakes

\* A push enters a message at the back of its tracker's pipe, or is refused.
LEMMA PushOffers ==
  ASSUME IInv, NEW k \in Tracker, NEW m \in Message, Push(k, m), UNCHANGED <<thread, settled>>
  PROVE  \A j \in Tracker : PipeStep(j)
<1>1. \A j \in Tracker : Hand(j)' = Hand(j) /\ Settled(j)' = Settled(j)
  BY DEF Hand, Settled
<1>2. queue \in [Tracker -> Seq(Message)]
  BY DEF IInv, TypeOK
<1>3. queue' = [queue EXCEPT ![k] = IF HasRoom(k) THEN Append(queue[k], m) ELSE queue[k]]
  BY DEF Push
<1>4. \A j \in Tracker : j # k => PipeStep(j)
  BY <1>1, <1>2, <1>3, PipeAlone, TakingIsStep
<1>5. CASE HasRoom(k)
  <2>1. queue'[k] = Append(queue[k], m)
    BY <1>2, <1>3, <1>5
  <2>2. Hand(k) \in Seq(Message) /\ queue[k] \in Seq(Message)
    BY HandTyped
  <2>3. Hand(k) \o Append(queue[k], m) = Append(Hand(k) \o queue[k], m)
    <3>1. \A r, q \in Seq(Message) : r \o Append(q, m) = Append(r \o q, m)
      <4> SUFFICES ASSUME NEW r \in Seq(Message), NEW q \in Seq(Message)
                   PROVE  r \o Append(q, m) = Append(r \o q, m)
        OBVIOUS
      <4>1. /\ r \o Append(q, m) \in Seq(Message) /\ Append(r \o q, m) \in Seq(Message)
            /\ Len(r \o Append(q, m)) = Len(Append(r \o q, m))
        OBVIOUS
      <4>2. \A i \in 1..Len(r \o Append(q, m)) : (r \o Append(q, m))[i] = Append(r \o q, m)[i]
        OBVIOUS
      <4>3. QED
        BY <4>1, <4>2
    <3>2. QED
      BY <2>2, <3>1
  <2>4. Pipe(k)!Offer(m)
    BY <1>1, <2>1, <2>3 DEF Pipe!Offer
  <2>5. QED
    BY <1>4, <2>4 DEF PipeStep, Pipe!FifoNext
<1>6. CASE ~HasRoom(k)
  BY <1>1, <1>2, <1>3, <1>4, <1>6, PipeAlone, TakingIsStep
<1>7. QED
  BY <1>5, <1>6

\* A pop moves the front of the queue to the thread's hand, where it stays at the
\* front of the pipe, or takes from the pipe a message to be ignored.
LEMMA PopMaps ==
  ASSUME IInv, NEW k \in Tracker, Pop(k)
  PROVE  \A j \in Tracker : PipeTakes(j)
<1> DEFINE m == Head(queue[k])
           q == Tail(queue[k])
<1>1. /\ queue[k] \in Seq(Message) /\ queue[k] # <<>>
      /\ queue' = [queue EXCEPT ![k] = Tail(queue[k])] /\ queue \in [Tracker -> Seq(Message)]
      /\ thread[k].pc = "idle"
  BY DEF Pop, IInv, TypeOK
<1>2. m \in Message /\ q \in Seq(Message) /\ <<m>> \o q = queue[k]
  <2>1. m \in Message /\ q \in Seq(Message)
    BY <1>1
  <2>2. <<m>> \o q \in Seq(Message) /\ Len(<<m>> \o q) = Len(queue[k])
    BY <1>1, <2>1
  <2>3. \A i \in 1..Len(queue[k]) : (<<m>> \o q)[i] = queue[k][i]
    BY <1>1, <2>1
  <2>4. QED
    BY <1>1, <2>1, <2>2, <2>3, SeqEqual
<1>3. queue'[k] = q /\ \A j \in Tracker : j # k => queue'[j] = queue[j]
  BY <1>1
<1>4. Hand(k) = <<>> /\ <<>> \o queue[k] = queue[k] /\ <<>> \o q = q
  BY <1>1, <1>2, HandTyped, ConcatEmptySeq
<1>5. CASE Becomes(k, At("try", m)) /\ UNCHANGED settled
  <2>1. Hand(k)' = <<m>> /\ \A j \in Tracker : j # k => Hand(j)' = Hand(j)
    BY <1>5, HandAfter
  <2>2. \A j \in Tracker : Settled(j)' = Settled(j)
    BY <1>5 DEF Settled
  <2>3. \A j \in Tracker : j # k => PipeTakes(j)
    BY <1>3, <2>1, <2>2, PipeAlone
  <2>4. Hand(k)' \o queue'[k] = Hand(k) \o queue[k]
    BY <1>2, <1>3, <1>4, <2>1
  <2>5. PipeTakes(k)
    BY <2>2, <2>4 DEF PipeTakes, Pipe!fifoVars
  <2>6. QED
    BY <2>3, <2>5
<1>6. CASE settled' = [settled EXCEPT ![k] = Append(@, [msg |-> m, how |-> "ignored"])] /\ UNCHANGED thread
  <2>1. \A j \in Tracker : Hand(j)' = Hand(j)
    BY <1>6 DEF Hand
  <2>2. /\ Settled(k)' = Append(Settled(k), m)
        /\ \A j \in Tracker : j # k => Settled(j)' = Settled(j)
    <3>1. m \in Message /\ settled' = [settled EXCEPT ![k] = Append(@, [msg |-> m, how |-> "ignored"])]
      BY <1>2, <1>6
    <3> HIDE DEF m
    <3>2. QED
      BY <3>1, SettledAppend
  <2>3. \A j \in Tracker : j # k => PipeTakes(j)
    BY <1>3, <2>1, <2>2, PipeAlone
  <2>4. Pipe(k)!Take
    BY <1>1, <1>3, <1>4, <2>1, <2>2 DEF Pipe!Take
  <2>5. QED
    BY <2>3, <2>4 DEF PipeTakes
<1>7. QED
  BY <1>5, <1>6 DEF Pop

\* An activity without a message, before and after, leaves the hand empty.
LEMMA EmptyHanded ==
  ASSUME IInv, NEW k \in Tracker, thread[k].pc \notin {"try", "send"}, UNCHANGED <<queue, settled>>,
         NEW pc, pc \notin {"try", "send"}, NEW m, Becomes(k, At(pc, m))
  PROVE  \A j \in Tracker : PipeTakes(j)
<1>1. \A j \in Tracker : Hand(j)' = Hand(j)
  BY HandTyped, HandAfter
<1>2. \A j \in Tracker : Settled(j)' = Settled(j) /\ queue'[j] = queue[j]
  BY DEF Settled
<1>3. QED
  BY <1>1, <1>2, PipeAlone

\* Between two attempts a thread keeps its message.
LEMMA FullHanded ==
  ASSUME IInv, NEW k \in Tracker, thread[k].pc \in {"try", "send"}, UNCHANGED <<queue, settled>>,
         NEW pc \in {"try", "send"}, Becomes(k, At(pc, thread[k].msg))
  PROVE  \A j \in Tracker : PipeTakes(j)
<1>1. \A j \in Tracker : Hand(j)' = Hand(j)
  BY HandTyped, HandAfter
<1>2. \A j \in Tracker : Settled(j)' = Settled(j) /\ queue'[j] = queue[j]
  BY DEF Settled
<1>3. QED
  BY <1>1, <1>2, PipeAlone

\* A step of anyone that leaves queues, threads and settled messages alone.
LEMMA Elsewhere ==
  ASSUME UNCHANGED <<queue, thread, settled>>
  PROVE  \A j \in Tracker : PipeTakes(j)
BY PipeAlone DEF Hand, Settled

\* Only a push of AddMessage brings a message into a pipe.
LEMMA StepTakes ==
  ASSUME IInv, [Next]_vars, ~ \E s \in Sender : AddNext(s)
  PROVE  \A j \in Tracker : PipeTakes(j)
<1>1. CASE \E s \in Sender, stage \in Stage : AddMessage(s, stage)
  BY <1>1, Elsewhere DEF AddMessage, queues
<1>2. CASE \E h \in Server \cup {NoServer} : SkipTapes(h)
  BY <1>2, Elsewhere DEF SkipTapes, queues
<1>3. CASE \E k \in Tracker : ThreadStep(k)
  <2> PICK k \in Tracker : ThreadStep(k)
    BY <1>3
  <2>1. CASE Register(k)
    BY <2>1, EmptyHanded DEF Register, queues, history
  <2>2. CASE InitAnswered(k)
    BY <2>2, EmptyHanded DEF InitAnswered, Idle, queues, history
  <2>3. CASE Pop(k)
    BY <2>3, PopMaps
  <2>4. CASE PopNothing(k)
    <3>1. thread[k].pc = "idle" /\ UNCHANGED <<queue, settled>>
      BY <2>4 DEF PopNothing, history
    <3>2. Becomes(k, At("exited", NoMessage)) \/ UNCHANGED thread
      BY <2>4 DEF PopNothing
    <3>3. QED
      BY <3>1, <3>2, EmptyHanded, Elsewhere
  <2>5. CASE CheckSkip(k)
    <3>1. thread[k].pc = "try" /\ UNCHANGED queue
      BY <2>5 DEF CheckSkip, queues
    <3>2. Settle(k, "skipped") \/ (Becomes(k, At("send", thread[k].msg)) /\ UNCHANGED settled)
      BY <2>5 DEF CheckSkip
    <3>3. QED
      BY <3>1, <3>2, SettleTakes, FullHanded
  <2>6. CASE SendAnswered(k)
    <3>1. thread[k].pc = "send" /\ UNCHANGED queue
      BY <2>6 DEF SendAnswered, queues
    <3>2. Settle(k, "answered") \/ Settle(k, "unreadable")
      BY <2>6 DEF SendAnswered
    <3>3. QED
      BY <3>1, <3>2, SettleTakes
  <2>7. CASE SendFails(k)
    <3>1. thread[k].pc = "send" /\ UNCHANGED queue
      BY <2>7 DEF SendFails, queues
    <3>2. Settle(k, "dropped") \/ (Becomes(k, At("try", thread[k].msg)) /\ UNCHANGED settled)
      BY <2>7 DEF SendFails
    <3>3. QED
      BY <3>1, <3>2, SettleTakes, FullHanded
  <2>8. QED
    BY <2>1, <2>2, <2>3, <2>4, <2>5, <2>6, <2>7 DEF ThreadStep
<1>4. CASE \E k \in Tracker : UpDown(k)
  BY <1>4, Elsewhere DEF UpDown, queues, history
<1>5. CASE Shutdown
  BY <1>5, Elsewhere DEF Shutdown, queues, history
<1>6. CASE UNCHANGED vars
  BY <1>6, Elsewhere DEF vars, queues, history
<1>7. QED
  BY <1>1, <1>2, <1>3, <1>4, <1>5, <1>6 DEF Next

\* Every step takes the pipe of every tracker on, or leaves it alone.
LEMMA NextMaps == IInv /\ [Next]_vars => \A j \in Tracker : PipeStep(j)
<1> SUFFICES ASSUME IInv, [Next]_vars PROVE \A j \in Tracker : PipeStep(j)
  OBVIOUS
<1>1. CASE ~ \E s \in Sender : AddNext(s)
  BY <1>1, StepTakes, TakingIsStep
<1>2. CASE \E s \in Sender : AddNext(s)
  <2> PICK s \in Sender : AddNext(s)
    BY <1>2
  <2>1. UNCHANGED <<thread, settled>>
    BY DEF AddNext, history
  <2>2. CASE sender[s].at <= Len(registered) /\ Push(registered[sender[s].at], sender[s].msg)
    <3>1. registered[sender[s].at] \in Tracker /\ sender[s].msg \in Message
      <4>1. sender[s] # NotAdding
        BY DEF AddNext
      <4>2. sender[s].msg \in Message /\ sender[s].at > 0
        BY <4>1 DEF IInv, HandsConsistent
      <4>3. registered \in Seq(Tracker) /\ sender[s].at \in Nat
        BY DEF IInv, TypeOK
      <4> QED
        BY <2>2, <4>2, <4>3
    <3>2. QED
      BY <2>1, <2>2, <3>1, PushOffers
  <2>3. CASE UNCHANGED queues
    BY <2>1, <2>3, Elsewhere, TakingIsStep DEF queues
  <2>4. QED
    BY <2>2, <2>3 DEF AddNext
<1> QED
  BY <1>1, <1>2

\* For every tracker, what AddMessage queues, the thread sends, retries, skips or
\* drops, passes through one first-in first-out queue, each message once.
THEOREM ReportingRefinement == Spec => ImplementsFifo
<1>1. Init => \A k \in Tracker : Pipe(k)!FifoInit
  <2> SUFFICES ASSUME Init, NEW k \in Tracker PROVE Pipe(k)!FifoInit
    OBVIOUS
  <2>1. queue[k] = <<>> /\ thread[k].pc = "new" /\ settled[k] = <<>>
    BY DEF Init, At
  <2>2. Hand(k) = <<>> /\ Settled(k) = <<>>
    BY <2>1 DEF Hand, Settled
  <2>3. Hand(k) \o queue[k] = <<>>
    BY <2>1, <2>2
  <2>4. QED
    BY <2>2, <2>3 DEF Pipe!FifoInit
<1>2. IInv /\ [Next]_vars => [\A k \in Tracker : [Pipe(k)!FifoNext]_(Pipe(k)!fifoVars)]_vars
  BY NextMaps DEF PipeStep
<1>3. QED
  BY <1>1, <1>2, ReportingInvariant, PTL DEF Spec, ImplementsFifo

-----------------------------------------------------------------------------
(* Order, answers and skips: the invariants that the remaining safety          *)
(* properties need.                                                           *)

\* The messages a tracker is done with and the one in its thread's hand, in order;
\* and after them those in its queue.
Begun(k) == Settled(k) \o Hand(k)
Flow(k) == Settled(k) \o Hand(k) \o queue[k]

\* A thread registers its tracker once (ReportingThreadEntryPoint).
RegisteredOnce ==
  /\ \A i, j \in DOMAIN registered : registered[i] = registered[j] => i = j
  /\ \A i \in DOMAIN registered : thread[registered[i]].pc # "new"

\* Number n was given to the message s is adding, and to no other being added.
NumbersFresh ==
  /\ \A s \in Sender : sender[s] # NotAdding => sender[s].msg.by = s /\ sender[s].msg.n <= added
  /\ \A s, r \in Sender :
       sender[s] # NotAdding /\ sender[r] # NotAdding /\ sender[s].msg.n = sender[r].msg.n => s = r
  /\ \A k \in Tracker : \A i \in DOMAIN Flow(k) : Flow(k)[i].n <= added

\* Of what s added, the message it is adding is the latest; and only trackers it
\* has passed in the vector have got it.
LatestComing ==
  \A k \in Tracker : \A i \in DOMAIN Flow(k) : \A s \in Sender :
    LET e == Flow(k)[i]  m == sender[s].msg IN
    sender[s] # NotAdding =>
      /\ e.by = s => e.n <= m.n
      /\ e.n = m.n => e.by = s /\ \E j \in DOMAIN registered : registered[j] = k /\ j < sender[s].at

\* What keeps the messages of one thread in order at every tracker.
OrderInv == RegisteredOnce /\ NumbersFresh /\ LatestComing /\ CallerOrder

\* Every order goes back to an answer that settled its message.
OrdersAnswered ==
  \A k \in Tracker : \A i \in DOMAIN orders[k] : \E j \in DOMAIN settled[k] :
    settled[k][j].how = "answered" /\ settled[k][j].msg.n = orders[k][i].n

\* What is made of the answers.
AnswerInv == OrdersAnswered /\ OneAnswerActedOn

\* A tracker processes messages that were begun, in their order, and repeats lasting
\* ones only.
ProcessedInOrder ==
  \A k \in Tracker :
    /\ \A i \in DOMAIN processed[k] : \E j \in DOMAIN Begun(k) : Begun(k)[j] = processed[k][i]
    /\ \A i, j \in DOMAIN processed[k] : \A x, y \in DOMAIN Begun(k) :
         i < j /\ Begun(k)[x] = processed[k][i] /\ Begun(k)[y] = processed[k][j] =>
           x < y \/ (x = y /\ ~IsRealtime(processed[k][i]))

\* A real-time message is processed before it is tried once, if ever.
RealtimeFresh ==
  \A k \in Tracker : thread[k].pc \in {"try", "send"} /\ IsRealtime(thread[k].msg) =>
    \A i \in DOMAIN processed[k] : processed[k][i] # thread[k].msg

\* What keeps the story of every tracker in order.
ProcessedInv == ProcessedInOrder /\ RealtimeFresh

-----------------------------------------------------------------------------
(* Skips *)

\* The places of the messages settled in one way.
SettledAs(s, how) == {i \in DOMAIN s : s[i].how = how}

\* Settling one more message adds its place, and only for its own way.
LEMMA CountAppend ==
  ASSUME NEW s \in Seq(Outcome), NEW o \in Outcome, NEW how
  PROVE  /\ Cardinality(SettledAs(s, how)) \in Nat
         /\ Cardinality(SettledAs(Append(s, o), how)) =
              Cardinality(SettledAs(s, how)) + (IF o.how = how THEN 1 ELSE 0)
<1> DEFINE S == SettledAs(s, how)
           T == SettledAs(Append(s, o), how)
<1>1. IsFiniteSet(1..Len(s)) /\ DOMAIN s = 1..Len(s)
  BY FS_Interval
<1>2. IsFiniteSet(S) /\ S \subseteq 1..Len(s)
  BY <1>1, FS_Subset DEF SettledAs
<1>3. Cardinality(S) \in Nat
  BY <1>2, FS_CardinalityType
<1>4. /\ DOMAIN Append(s, o) = 1..Len(s) + 1
      /\ \A i \in 1..Len(s) : Append(s, o)[i] = s[i]
      /\ Append(s, o)[Len(s) + 1] = o
      /\ Len(s) \in Nat
  OBVIOUS
<1>5. CASE o.how = how
  <2>1. T = S \cup {Len(s) + 1}
    BY <1>1, <1>4, <1>5 DEF SettledAs
  <2>2. Len(s) + 1 \notin S
    BY <1>2, <1>4
  <2>3. Cardinality(T) = Cardinality(S) + 1
    BY <1>2, <2>1, <2>2, FS_AddElement
  <2> QED
    BY <1>3, <1>5, <2>3
<1>6. CASE o.how # how
  <2>1. T = S
    BY <1>1, <1>4, <1>6 DEF SettledAs
  <2> QED
    BY <1>3, <1>6, <2>1
<1> QED
  BY <1>5, <1>6

\* What Settle, and a pop that ignores a message, add to the settled messages.
LEMMA SettledGrows ==
  ASSUME IInv, NEW k \in Tracker, NEW o \in Outcome, settled' = [settled EXCEPT ![k] = Append(@, o)]
  PROVE  /\ settled[k] \in Seq(Outcome) /\ settled'[k] = Append(settled[k], o)
         /\ \A j \in Tracker : j # k => settled'[j] = settled[j]
BY DEF IInv, TypeOK

\* The account of one tracker is right.
Accounted(k) ==
  /\ asked[k] = skip[k] + Cardinality(SettledAs(settled[k], "skipped"))
  /\ \A i \in DOMAIN settled[k] : settled[k][i].how = "dropped" => IsRealtime(settled[k][i].msg)

\* SkipsAccounted is about each tracker alone, now and after a step.
LEMMA AccountedDef ==
  /\ SkipsAccounted <=> \A k \in Tracker : Accounted(k)
  /\ SkipsAccounted' <=> \A k \in Tracker : Accounted(k)'
BY DEF SkipsAccounted, Accounted, SettledAs, IsRealtime

\* Settling a message keeps the account right, if a skip pays for it when it is
\* skipped, and if it is about a moment that has passed when it is dropped.
LEMMA SettleAccounted ==
  ASSUME IInv, SkipsAccounted, NEW k \in Tracker, NEW o \in Outcome,
         settled' = [settled EXCEPT ![k] = Append(@, o)], UNCHANGED asked,
         o.how = "dropped" => IsRealtime(o.msg),
         \A j \in Tracker : j # k => skip'[j] = skip[j],
         skip'[k] = IF o.how = "skipped" THEN skip[k] - 1 ELSE skip[k]
  PROVE  SkipsAccounted'
<1>1. /\ settled[k] \in Seq(Outcome) /\ settled'[k] = Append(settled[k], o)
      /\ \A j \in Tracker : j # k => settled'[j] = settled[j]
  BY SettledGrows
<1>2. \A j \in Tracker : j # k => Accounted(j)'
  BY <1>1, AccountedDef DEF Accounted
<1>3. asked[k] \in Nat /\ skip[k] \in Nat /\ Accounted(k)
  BY AccountedDef DEF IInv, TypeOK
<1>4. asked'[k] = skip'[k] + Cardinality(SettledAs(settled'[k], "skipped"))
  <2>1. /\ Cardinality(SettledAs(settled[k], "skipped")) \in Nat
        /\ Cardinality(SettledAs(settled'[k], "skipped")) =
             Cardinality(SettledAs(settled[k], "skipped")) + (IF o.how = "skipped" THEN 1 ELSE 0)
    BY <1>1, CountAppend
  <2> QED
    BY <1>3, <2>1 DEF Accounted
<1>5. \A i \in DOMAIN settled'[k] : settled'[k][i].how = "dropped" => IsRealtime(settled'[k][i].msg)
  <2>1. /\ DOMAIN settled'[k] = 1..Len(settled[k]) + 1 /\ DOMAIN settled[k] = 1..Len(settled[k])
        /\ \A i \in 1..Len(settled[k]) : settled'[k][i] = settled[k][i]
        /\ settled'[k][Len(settled[k]) + 1] = o
        /\ Len(settled[k]) \in Nat
    BY <1>1
  <2>2. \A i \in DOMAIN settled'[k] : i \in DOMAIN settled[k] \/ i = Len(settled[k]) + 1
    BY <2>1
  <2> QED
    BY <1>3, <2>1, <2>2 DEF Accounted
<1> QED
  BY <1>2, <1>4, <1>5, AccountedDef DEF Accounted

\* What settles the message in a thread's hand.
LEMMA SettleIs ==
  ASSUME IInv, NEW k \in Tracker, thread[k].pc \in {"try", "send"},
         NEW how \in {"answered", "unreadable", "dropped", "skipped", "ignored"}, Settle(k, how)
  PROVE  \E o \in Outcome : /\ o.msg = thread[k].msg /\ o.how = how
                            /\ settled' = [settled EXCEPT ![k] = Append(@, o)]
<1> DEFINE o == [msg |-> thread[k].msg, how |-> how]
<1>1. o \in Outcome /\ o.msg = thread[k].msg /\ o.how = how
  BY DEF Outcome, IInv, HandsConsistent
<1>2. settled' = [settled EXCEPT ![k] = Append(@, o)]
  BY DEF Settle
<1> HIDE DEF o
<1> QED
  BY <1>1, <1>2

\* A pop takes a real message: to try it, or to settle it as ignored.
LEMMA PopIs ==
  ASSUME IInv, NEW k \in Tracker, Pop(k)
  PROVE  \E m \in Message :
           /\ m = Head(queue[k])
           /\ \/ Becomes(k, At("try", m)) /\ UNCHANGED settled
              \/ /\ UNCHANGED thread
                 /\ \E o \in Outcome : /\ o.msg = m /\ o.how = "ignored"
                                       /\ settled' = [settled EXCEPT ![k] = Append(@, o)]
<1>1. PICK m \in Message : m = Head(queue[k])
  BY DEF Pop, IInv, TypeOK
<1>2. CASE Becomes(k, At("try", m)) /\ UNCHANGED settled
  BY <1>1, <1>2
<1>3. CASE settled' = [settled EXCEPT ![k] = Append(@, [msg |-> m, how |-> "ignored"])] /\ UNCHANGED thread
  <2> DEFINE o == [msg |-> m, how |-> "ignored"]
  <2>1. o \in Outcome /\ o.msg = m /\ o.how = "ignored"
    BY DEF Outcome
  <2>2. settled' = [settled EXCEPT ![k] = Append(@, o)]
    BY <1>3
  <2> HIDE DEF o
  <2> QED
    BY <1>1, <1>3, <2>1, <2>2
<1> QED
  BY <1>1, <1>2, <1>3 DEF Pop

\* Every step keeps the account of skips: SkipTapes, IsSkip, and what settles a message.
LEMMA NextAccounted == IInv /\ SkipsAccounted /\ [Next]_vars => SkipsAccounted'
<1> SUFFICES ASSUME IInv, SkipsAccounted, [Next]_vars PROVE SkipsAccounted'
  OBVIOUS
<1>1. CASE UNCHANGED <<asked, skip, settled>>
  BY <1>1 DEF SkipsAccounted
<1>2. CASE \E h \in Server \cup {NoServer} : SkipTapes(h)
  <2>1. UNCHANGED settled
    BY <1>2 DEF SkipTapes
  <2>2. PICK k : /\ skip' = [skip EXCEPT ![k] = @ + 1] /\ asked' = [asked EXCEPT ![k] = @ + 1]
    BY <1>2 DEF SkipTapes
  <2>3. asked \in [Tracker -> Nat] /\ skip \in [Tracker -> Nat]
    BY DEF IInv, TypeOK
  <2>4. \A j \in Tracker : Cardinality(SettledAs(settled[j], "skipped")) \in Nat
    <3> TAKE j \in Tracker
    <3>1. settled[j] \in Seq(Outcome)
      BY DEF IInv, TypeOK
    <3> DEFINE S == SettledAs(settled[j], "skipped")
    <3>2. IsFiniteSet(1..Len(settled[j])) /\ S \subseteq 1..Len(settled[j])
      BY <3>1, FS_Interval DEF SettledAs
    <3> QED
      BY <3>2, FS_Subset, FS_CardinalityType
  <2>5. \A j \in Tracker : Accounted(j)'
    <3> TAKE j \in Tracker
    <3>1. Accounted(j) /\ asked[j] \in Nat /\ skip[j] \in Nat
      BY <2>3, AccountedDef
    <3>2. asked'[j] - skip'[j] = asked[j] - skip[j] /\ asked'[j] \in Nat /\ skip'[j] \in Nat
      BY <2>2, <2>3
    <3> QED
      BY <2>1, <2>4, <3>1, <3>2 DEF Accounted
  <2> QED
    BY <2>5, AccountedDef
<1>3. CASE \E k \in Tracker : Pop(k)
  <2> PICK k \in Tracker : Pop(k)
    BY <1>3
  <2>1. UNCHANGED <<asked, skip>>
    BY DEF Pop
  <2>2. \/ UNCHANGED settled
        \/ \E o \in Outcome : o.how = "ignored" /\ settled' = [settled EXCEPT ![k] = Append(@, o)]
    BY PopIs
  <2> QED
    BY <1>1, <2>1, <2>2, SettleAccounted
<1>4. CASE \E k \in Tracker : CheckSkip(k)
  <2> PICK k \in Tracker : CheckSkip(k)
    BY <1>4
  <2>1. UNCHANGED asked /\ thread[k].pc = "try"
    BY DEF CheckSkip
  <2>2. CASE Settle(k, "skipped") /\ skip' = [skip EXCEPT ![k] = @ - 1]
    <3>1. PICK o \in Outcome : o.how = "skipped" /\ settled' = [settled EXCEPT ![k] = Append(@, o)]
      BY <2>1, <2>2, SettleIs
    <3>2. skip'[k] = skip[k] - 1 /\ \A j \in Tracker : j # k => skip'[j] = skip[j]
      BY <2>2 DEF IInv, TypeOK
    <3> QED
      BY <2>1, <3>1, <3>2, SettleAccounted
  <2>3. CASE UNCHANGED <<skip, settled>>
    BY <1>1, <2>1, <2>3
  <2> QED
    BY <2>2, <2>3 DEF CheckSkip
<1>5. CASE \E k \in Tracker : SendAnswered(k)
  <2> PICK k \in Tracker : SendAnswered(k)
    BY <1>5
  <2>1. UNCHANGED <<asked, skip>> /\ thread[k].pc = "send"
    BY DEF SendAnswered
  <2>2. Settle(k, "answered") \/ Settle(k, "unreadable")
    BY DEF SendAnswered
  <2>3. PICK o \in Outcome : /\ o.how \in {"answered", "unreadable"}
                             /\ settled' = [settled EXCEPT ![k] = Append(@, o)]
    BY <2>1, <2>2, SettleIs
  <2> QED
    BY <2>1, <2>3, SettleAccounted
<1>6. CASE \E k \in Tracker : SendFails(k)
  <2> PICK k \in Tracker : SendFails(k)
    BY <1>6
  <2>1. UNCHANGED <<asked, skip>> /\ thread[k].pc = "send"
    BY DEF SendFails
  <2>2. CASE IsRealtime(thread[k].msg) /\ Settle(k, "dropped")
    <3>1. PICK o \in Outcome : /\ o.how = "dropped" /\ IsRealtime(o.msg)
                               /\ settled' = [settled EXCEPT ![k] = Append(@, o)]
      BY <2>1, <2>2, SettleIs
    <3> QED
      BY <2>1, <3>1, SettleAccounted
  <2>3. CASE UNCHANGED settled
    BY <1>1, <2>1, <2>3
  <2> QED
    BY <2>2, <2>3 DEF SendFails
<1> QED
  BY <1>1, <1>2, <1>3, <1>4, <1>5, <1>6 DEF Next, ThreadStep, AddMessage, AddNext, Register, InitAnswered,
     PopNothing, UpDown, Shutdown, vars, history

\* A lasting message is given up unanswered only for a skip that was asked for.
THEOREM SkipsPaid == Spec => []SkipsAccounted
<1>1. Init => SkipsAccounted
  <2> SUFFICES ASSUME Init PROVE SkipsAccounted
    OBVIOUS
  <2>1. \A k \in Tracker : asked[k] = 0 /\ skip[k] = 0 /\ settled[k] = <<>>
    BY DEF Init
  <2>2. SettledAs(<<>>, "skipped") = {} /\ DOMAIN <<>> = {}
    BY DEF SettledAs
  <2>3. Cardinality({}) = 0
    BY FS_EmptySet
  <2>4. \A k \in Tracker : Accounted(k)
    <3> TAKE k \in Tracker
    <3>1. Cardinality(SettledAs(settled[k], "skipped")) = 0
      BY <2>1, <2>2, <2>3
    <3>2. \A i \in DOMAIN settled[k] : FALSE
      BY <2>1, <2>2
    <3> QED
      BY <2>1, <3>1, <3>2 DEF Accounted
  <2> QED
    BY <2>4, AccountedDef
<1> QED
  BY <1>1, NextAccounted, ReportingInvariant, PTL DEF Spec

-----------------------------------------------------------------------------
(* The flow of messages to one tracker *)

\* Concatenation of sequences of messages associates.
LEMMA MessagesAssociate == \A a, b, c \in Seq(Message) : (a \o b) \o c = a \o (b \o c)
<1> SUFFICES ASSUME NEW a \in Seq(Message), NEW b \in Seq(Message), NEW c \in Seq(Message)
             PROVE  (a \o b) \o c = a \o (b \o c)
  OBVIOUS
<1> QED
  BY ConcatAssociative

\* The parts of a flow are sequences of messages, and so are its fronts.
LEMMA FlowTyped ==
  ASSUME IInv, NEW k \in Tracker
  PROVE  /\ Settled(k) \in Seq(Message) /\ Hand(k) \in Seq(Message) /\ queue[k] \in Seq(Message)
         /\ Begun(k) \in Seq(Message) /\ Flow(k) \in Seq(Message)
         /\ Flow(k) = Settled(k) \o (Hand(k) \o queue[k])
<1>1. Hand(k) \in Seq(Message) /\ queue[k] \in Seq(Message)
  BY HandTyped
<1>2. Settled(k) \in Seq(Message)
  <2>1. settled[k] \in Seq(Outcome)
    BY DEF IInv, TypeOK
  <2>2. \A i \in DOMAIN settled[k] : settled[k][i] \in Outcome
    BY <2>1
  <2>3. \A i \in DOMAIN settled[k] : settled[k][i].msg \in Message
    BY <2>2 DEF Outcome
  <2> QED
    BY <2>1, <2>3 DEF Settled
<1>3. Begun(k) \in Seq(Message)
  BY <1>1, <1>2 DEF Begun
<1>4. Flow(k) = Begun(k) \o queue[k]
  BY DEF Flow, Begun
<1>5. Flow(k) \in Seq(Message)
  BY <1>1, <1>3, <1>4
<1>6. (Settled(k) \o Hand(k)) \o queue[k] = Settled(k) \o (Hand(k) \o queue[k])
  BY <1>1, <1>2, MessagesAssociate, Zenon
<1> QED
  BY <1>1, <1>2, <1>3, <1>5, <1>6 DEF Flow

\* Nothing enters the flow unless it is pushed.
LEMMA FlowKept ==
  ASSUME IInv, IInv', NEW k \in Tracker, PipeTakes(k)
  PROVE  Flow(k)' = Flow(k)
<1> DEFINE pipe == Hand(k) \o queue[k]
<1>1. /\ Settled(k) \in Seq(Message) /\ pipe \in Seq(Message)
      /\ Flow(k) = Settled(k) \o pipe /\ Flow(k)' = Settled(k)' \o pipe'
  <2>1. Flow(k)' = Settled(k)' \o pipe'
    <3>1. /\ Settled(k)' \in Seq(Message) /\ Hand(k)' \in Seq(Message) /\ queue'[k] \in Seq(Message)
      <4>1. queue'[k] \in Seq(Message) /\ settled'[k] \in Seq(Outcome)
        BY DEF IInv, TypeOK
      <4>2. Hand(k)' \in Seq(Message)
        BY DEF IInv, HandsConsistent, Hand
      <4>3. \A i \in DOMAIN settled'[k] : settled'[k][i] \in Outcome
        BY <4>1
      <4>4. \A i \in DOMAIN settled'[k] : settled'[k][i].msg \in Message
        BY <4>3 DEF Outcome
      <4> QED
        BY <4>1, <4>2, <4>4 DEF Settled
    <3>2. (Settled(k)' \o Hand(k)') \o queue'[k] = Settled(k)' \o (Hand(k)' \o queue'[k])
      BY <3>1, MessagesAssociate, Zenon
    <3> QED
      BY <3>2 DEF Flow
  <2> QED
    BY <2>1, FlowTyped
<1>2. CASE UNCHANGED Pipe(k)!fifoVars
  BY <1>1, <1>2 DEF Pipe!fifoVars
<1>3. CASE Pipe(k)!Take
  <2>1. pipe # <<>> /\ Settled(k)' = Append(Settled(k), Head(pipe)) /\ pipe' = Tail(pipe)
    BY <1>3 DEF Pipe!Take
  <2>2. \A a, b \in Seq(Message) : b # <<>> => Append(a, Head(b)) \o Tail(b) = a \o b
    <3> SUFFICES ASSUME NEW a \in Seq(Message), NEW b \in Seq(Message), b # <<>>
                 PROVE  Append(a, Head(b)) \o Tail(b) = a \o b
      OBVIOUS
    <3>1. /\ Append(a, Head(b)) \in Seq(Message) /\ Len(Append(a, Head(b))) = Len(a) + 1
          /\ Tail(b) \in Seq(Message) /\ Len(Tail(b)) = Len(b) - 1 /\ Len(b) \in Nat /\ Len(b) > 0
          /\ \A i \in 1..Len(Tail(b)) : Tail(b)[i] = b[i + 1]
          /\ \A i \in 1..Len(a) : Append(a, Head(b))[i] = a[i]
          /\ Append(a, Head(b))[Len(a) + 1] = b[1]
      OBVIOUS
    <3> DEFINE u == Append(a, Head(b))  v == Tail(b)
    <3>2. /\ u \o v \in Seq(Message) /\ a \o b \in Seq(Message)
          /\ Len(u \o v) = Len(a) + Len(b) /\ Len(a \o b) = Len(a) + Len(b)
      BY <3>1
    <3>3. \A i \in 1..Len(a) + Len(b) : (u \o v)[i] = (a \o b)[i]
      <4> HIDE DEF u, v
      <4> TAKE i \in 1..Len(a) + Len(b)
      <4>0. u \in Seq(Message) /\ v \in Seq(Message)
        BY <3>1 DEF u, v
      <4>1. (u \o v)[i] = IF i <= Len(a) + 1 THEN u[i] ELSE v[i - (Len(a) + 1)]
        BY <3>1, <4>0 DEF u, v
      <4>2. (a \o b)[i] = IF i <= Len(a) THEN a[i] ELSE b[i - Len(a)]
        BY <3>1
      <4>3. i <= Len(a) => u[i] = a[i]
        BY <3>1 DEF u
      <4>4. i = Len(a) + 1 => u[i] = b[i - Len(a)]
        BY <3>1 DEF u
      <4>5. i > Len(a) + 1 => v[i - (Len(a) + 1)] = b[i - Len(a)]
        BY <3>1 DEF v
      <4> QED
        BY <4>1, <4>2, <4>3, <4>4, <4>5
    <3> QED
      BY <3>2, <3>3, SeqEqual
  <2> HIDE DEF pipe
  <2> QED
    BY <1>1, <2>1, <2>2
<1> QED
  BY <1>2, <1>3 DEF PipeTakes

\* A push appends to the flow of its tracker, or is refused.
LEMMA FlowPushed ==
  ASSUME IInv, NEW k \in Tracker, NEW m \in Message, Push(k, m), UNCHANGED <<thread, settled>>
  PROVE  /\ \A j \in Tracker : j # k => Flow(j)' = Flow(j)
         /\ Flow(k)' = Flow(k) \/ Flow(k)' = Append(Flow(k), m)
<1>1. queue \in [Tracker -> Seq(Message)]
  BY DEF IInv, TypeOK
<1>2. \A j \in Tracker : Hand(j)' = Hand(j) /\ Settled(j)' = Settled(j)
  BY DEF Hand, Settled
<1>3. \A j \in Tracker : j # k => queue'[j] = queue[j]
  BY <1>1 DEF Push
<1>4. queue'[k] = queue[k] \/ queue'[k] = Append(queue[k], m)
  BY <1>1 DEF Push
<1>5. Begun(k) \in Seq(Message) /\ queue[k] \in Seq(Message)
  BY FlowTyped
<1>6. Begun(k) \o Append(queue[k], m) = Append(Begun(k) \o queue[k], m)
  BY <1>5, AppendIsConcat, ConcatAssociative, ConcatProperties
<1> QED
  BY <1>2, <1>3, <1>4, <1>6 DEF Flow, Begun

-----------------------------------------------------------------------------
(* Order of the messages of one thread *)

\* One copy of a message at most, and those of one thread in the order it added them.
Ordered(f) ==
  \A i, j \in DOMAIN f :
    /\ i # j => f[i].n # f[j].n
    /\ i < j /\ f[i].by = f[j].by => f[i].n < f[j].n

\* CallerOrder is about the flow of each tracker, now and after a step.
LEMMA CallerOrderDef ==
  /\ CallerOrder <=> \A k \in Tracker : Ordered(Flow(k))
  /\ CallerOrder' <=> \A k \in Tracker : Ordered(Flow(k)')
BY DEF CallerOrder, Ordered, Flow

\* No thread of a tracker starts over.
LEMMA NotNewAgain ==
  ASSUME IInv, [Next]_vars
  PROVE  \A j \in Tracker : thread[j].pc # "new" => thread'[j].pc # "new"
<1>1. CASE UNCHANGED thread
  BY <1>1
<1>2. CASE \E k \in Tracker, pc \in {"init", "idle", "exited", "try", "send"} : \E m : Becomes(k, At(pc, m))
  <2>1. PICK k \in Tracker, pc \in {"init", "idle", "exited", "try", "send"} : \E m : Becomes(k, At(pc, m))
    BY <1>2
  <2>2. PICK m : Becomes(k, At(pc, m))
    BY <2>1
  <2>3. thread' = [thread EXCEPT ![k] = At(pc, m)] /\ At(pc, m).pc = pc
    BY <2>2 DEF Becomes, At
  <2> QED
    BY <2>1, <2>3 DEF IInv, TypeOK
<1>3. \A k \in Tracker : ThreadStep(k) =>
        UNCHANGED thread \/ \E pc \in {"init", "idle", "exited", "try", "send"} : \E m : Becomes(k, At(pc, m))
  BY DEF ThreadStep, Register, InitAnswered, Pop, PopNothing, CheckSkip, SendAnswered, SendFails, Settle, Idle
<1> QED
  BY <1>1, <1>2, <1>3 DEF Next, AddMessage, AddNext, SkipTapes, UpDown, Shutdown, vars

\* A step that changes neither the flows nor the senders nor the vector.
LEMMA OrderFrame ==
  ASSUME OrderInv, UNCHANGED <<registered, sender, added>>,
         \A k \in Tracker : Flow(k)' = Flow(k),
         \A j \in Tracker : thread[j].pc # "new" => thread'[j].pc # "new",
         registered \in Seq(Tracker)
  PROVE  OrderInv'
<1>1. RegisteredOnce'
  BY DEF OrderInv, RegisteredOnce
<1>2. NumbersFresh'
  BY DEF OrderInv, NumbersFresh
<1>3. LatestComing'
  BY DEF OrderInv, LatestComing
<1>4. CallerOrder'
  BY CallerOrderDef DEF OrderInv
<1> QED
  BY <1>1, <1>2, <1>3, <1>4 DEF OrderInv

\* A new message gets a number beyond all others.
LEMMA AddMessageOrder ==
  ASSUME IInv, IInv', OrderInv, NEW s \in Sender, NEW stage \in Stage, AddMessage(s, stage),
         \A k \in Tracker : Flow(k)' = Flow(k)
  PROVE  OrderInv'
<1> DEFINE m == sender'[s].msg
<1>1. /\ m.n = added + 1 /\ m.by = s /\ added' = added + 1 /\ added \in Nat
      /\ \A r \in Sender : r # s => sender'[r] = sender[r]
      /\ UNCHANGED <<registered, thread>>
  BY DEF AddMessage, IInv, TypeOK
<1> HIDE DEF m
<1>2. RegisteredOnce'
  BY <1>1 DEF OrderInv, RegisteredOnce
<1>3. \A k \in Tracker : Flow(k) \in Seq(Message)
  BY FlowTyped
<1>4. \A k \in Tracker : \A i \in DOMAIN Flow(k) : Flow(k)[i].n \in Nat
  <2>1. \A k \in Tracker : \A i \in DOMAIN Flow(k) : Flow(k)[i] \in Message
    BY <1>3
  <2> QED
    BY <2>1, ReportingAssumption DEF Message
<1>5. \A r \in Sender : sender[r] # NotAdding => sender[r].msg.n \in Nat
  BY ReportingAssumption DEF IInv, HandsConsistent, Message
<1>6. NumbersFresh'
  <2>1. \A r \in Sender : sender'[r] # NotAdding => sender'[r].msg.by = r /\ sender'[r].msg.n <= added'
    BY <1>1, <1>5 DEF m, OrderInv, NumbersFresh
  <2>2. \A r \in Sender : r # s /\ sender'[r] # NotAdding => sender'[r].msg.n # m.n
    BY <1>1, <1>5 DEF OrderInv, NumbersFresh
  <2>3. \A q, r \in Sender :
          sender'[q] # NotAdding /\ sender'[r] # NotAdding /\ sender'[q].msg.n = sender'[r].msg.n => q = r
    <3> SUFFICES ASSUME NEW q \in Sender, NEW r \in Sender, sender'[q] # NotAdding, sender'[r] # NotAdding,
                        sender'[q].msg.n = sender'[r].msg.n, q # r
                 PROVE  FALSE
      OBVIOUS
    <3>1. q # s /\ r # s
      BY <2>2 DEF m
    <3> QED
      BY <1>1, <3>1 DEF OrderInv, NumbersFresh
  <2>4. \A k \in Tracker : \A i \in DOMAIN Flow(k)' : Flow(k)'[i].n <= added'
    BY <1>1, <1>4 DEF OrderInv, NumbersFresh
  <2> QED
    BY <2>1, <2>3, <2>4 DEF NumbersFresh
<1>7. LatestComing'
  <2>1. \A k \in Tracker : \A i \in DOMAIN Flow(k) : Flow(k)[i].n < m.n
    BY <1>1, <1>4 DEF OrderInv, NumbersFresh
  <2>2. \A k \in Tracker : \A i \in DOMAIN Flow(k) : Flow(k)[i].n <= m.n /\ Flow(k)[i].n # m.n
    BY <1>1, <1>4, <2>1
  <2> SUFFICES ASSUME NEW k \in Tracker, NEW i \in DOMAIN Flow(k), NEW r \in Sender, sender'[r] # NotAdding
               PROVE  /\ Flow(k)[i].by = r => Flow(k)[i].n <= sender'[r].msg.n
                      /\ Flow(k)[i].n = sender'[r].msg.n =>
                           /\ Flow(k)[i].by = r
                           /\ \E j \in DOMAIN registered : registered[j] = k /\ j < sender'[r].at
    BY <1>1 DEF LatestComing
  <2>3. CASE r = s
    BY <2>2, <2>3 DEF m
  <2>4. CASE r # s
    BY <1>1, <2>4 DEF OrderInv, LatestComing
  <2> QED
    BY <2>3, <2>4
<1>8. CallerOrder'
  BY CallerOrderDef DEF OrderInv
<1> QED
  BY <1>2, <1>6, <1>7, <1>8 DEF OrderInv

\* A tracker that registers comes last in the vector, where it was not before.
LEMMA RegisterOrder ==
  ASSUME IInv, IInv', OrderInv, NEW k \in Tracker, Register(k), \A j \in Tracker : Flow(j)' = Flow(j)
  PROVE  OrderInv'
<1>1. /\ registered \in Seq(Tracker) /\ registered' = Append(registered, k)
      /\ thread[k].pc = "new" /\ thread'[k].pc # "new" /\ UNCHANGED <<sender, added>>
      /\ \A j \in Tracker : j # k => thread'[j] = thread[j]
  BY DEF Register, IInv, TypeOK, Becomes, At, history
<1>2. /\ DOMAIN registered = 1..Len(registered) /\ DOMAIN registered' = 1..Len(registered) + 1
      /\ Len(registered) \in Nat
      /\ \A i \in 1..Len(registered) : registered'[i] = registered[i] /\ registered[i] \in Tracker
      /\ registered'[Len(registered) + 1] = k
  BY <1>1
<1>3. \A i \in DOMAIN registered : registered[i] # k
  BY <1>1 DEF OrderInv, RegisteredOnce
<1>4. RegisteredOnce'
  <2>1. \A i \in DOMAIN registered' : i \in DOMAIN registered \/ i = Len(registered) + 1
    BY <1>2
  <2>2. \A i, j \in DOMAIN registered' : registered'[i] = registered'[j] => i = j
    BY <1>2, <1>3, <2>1 DEF OrderInv, RegisteredOnce
  <2>3. \A i \in DOMAIN registered' : thread'[registered'[i]].pc # "new"
    BY <1>1, <1>2, <1>3, <2>1 DEF OrderInv, RegisteredOnce
  <2> QED
    BY <2>2, <2>3 DEF RegisteredOnce
<1>5. NumbersFresh'
  BY <1>1 DEF OrderInv, NumbersFresh
<1>6. LatestComing'
  <2>1. \A r \in Tracker : \A x : (\E j \in DOMAIN registered : registered[j] = r /\ j < x) =>
          \E j \in DOMAIN registered' : registered'[j] = r /\ j < x
    BY <1>2
  <2> SUFFICES ASSUME NEW r \in Tracker, NEW i \in DOMAIN Flow(r), NEW s \in Sender, sender[s] # NotAdding
               PROVE  /\ Flow(r)[i].by = s => Flow(r)[i].n <= sender[s].msg.n
                      /\ Flow(r)[i].n = sender[s].msg.n =>
                           /\ Flow(r)[i].by = s
                           /\ \E j \in DOMAIN registered' : registered'[j] = r /\ j < sender[s].at
    BY <1>1 DEF LatestComing
  <2> QED
    BY <2>1 DEF OrderInv, LatestComing
<1>7. CallerOrder'
  BY CallerOrderDef DEF OrderInv
<1> QED
  BY <1>4, <1>5, <1>6, <1>7 DEF OrderInv

\* The next tracker in the vector has no copy of the message yet, and none of a
\* later message of its sender.
LEMMA PushOrder ==
  ASSUME IInv, IInv', OrderInv, NEW s \in Sender, AddNext(s), sender[s].at <= Len(registered),
         Push(registered[sender[s].at], sender[s].msg), sender' = [sender EXCEPT ![s].at = @ + 1]
  PROVE  OrderInv'
<1>1. /\ sender[s] # NotAdding /\ sender[s].msg \in Message /\ sender[s].at \in Nat /\ sender[s].at > 0
      /\ registered \in Seq(Tracker) /\ sender \in [Sender -> SenderState]
      /\ UNCHANGED <<registered, thread, settled, added>>
  BY DEF AddNext, history, IInv, TypeOK, HandsConsistent, SenderState
<1>2. sender[s].at \in DOMAIN registered /\ registered[sender[s].at] \in Tracker
  BY <1>1
<1> PICK m \in Message : m = sender[s].msg
  BY <1>1
<1> PICK k \in Tracker : k = registered[sender[s].at]
  BY <1>2
<1>3. /\ sender'[s].msg = m /\ sender'[s].at = sender[s].at + 1 /\ sender'[s] # NotAdding
      /\ \A r \in Sender : r # s => sender'[r] = sender[r]
  BY <1>1 DEF SenderState, NotAdding
<1>4. \A j \in Tracker : Flow(j) \in Seq(Message)
  BY FlowTyped
<1>5. /\ \A j \in Tracker : j # k => Flow(j)' = Flow(j)
      /\ Flow(k)' = Flow(k) \/ Flow(k)' = Append(Flow(k), m)
  BY <1>1, <1>2, FlowPushed
<1>6. \A j \in Tracker : \A i \in DOMAIN Flow(j) : Flow(j)[i].n \in Nat /\ Flow(j)[i].by \in Sender
  <2>1. \A j \in Tracker : \A i \in DOMAIN Flow(j) : Flow(j)[i] \in Message
    BY <1>4
  <2> QED
    BY <2>1, ReportingAssumption DEF Message
<1>7. m.by = s /\ m.n \in Nat /\ m.n <= added
  BY <1>1, ReportingAssumption DEF OrderInv, NumbersFresh, Message
<1>8. \A i \in DOMAIN Flow(k) : Flow(k)[i].n # m.n /\ (Flow(k)[i].by = s => Flow(k)[i].n < m.n)
  <2> TAKE i \in DOMAIN Flow(k)
  <2>1. Flow(k)[i].n # m.n
    <3> SUFFICES ASSUME Flow(k)[i].n = m.n PROVE FALSE
      OBVIOUS
    <3>1. PICK j \in DOMAIN registered : registered[j] = k /\ j < sender[s].at
      BY <1>1, <1>2 DEF OrderInv, LatestComing
    <3> QED
      BY <1>1, <1>2, <3>1 DEF OrderInv, RegisteredOnce
  <2>2. Flow(k)[i].by = s => Flow(k)[i].n <= m.n
    BY <1>1, <1>2 DEF OrderInv, LatestComing
  <2> QED
    BY <1>2, <1>6, <1>7, <2>1, <2>2
<1>9. RegisteredOnce'
  BY <1>1 DEF OrderInv, RegisteredOnce
\* Every message in a flow was there before, or is the one pushed.
<1>10. \A j \in Tracker : \A i \in DOMAIN Flow(j)' :
         \/ i \in DOMAIN Flow(j) /\ Flow(j)'[i] = Flow(j)[i]
         \/ j = k /\ i = Len(Flow(k)) + 1 /\ Flow(j)'[i] = m
  <2>1. CASE Flow(k)' = Flow(k)
    BY <1>5, <2>1
  <2>2. CASE Flow(k)' = Append(Flow(k), m)
    <3>1. Flow(k) \in Seq(Message) /\ m \in Message
      BY <1>1, <1>2, <1>4
    <3>2. \A i \in DOMAIN Append(Flow(k), m) :
            \/ i \in DOMAIN Flow(k) /\ Append(Flow(k), m)[i] = Flow(k)[i]
            \/ i = Len(Flow(k)) + 1 /\ Append(Flow(k), m)[i] = m
      <4>1. \A f \in Seq(Message) : \A i \in DOMAIN Append(f, m) :
              \/ i \in DOMAIN f /\ Append(f, m)[i] = f[i]
              \/ i = Len(f) + 1 /\ Append(f, m)[i] = m
        BY <3>1
      <4> QED
        BY <3>1, <4>1
    <3> QED
      BY <1>5, <2>2, <3>2
  <2> QED
    BY <1>5, <2>1, <2>2
<1>11. NumbersFresh'
  <2>1. \A r \in Sender : sender'[r] # NotAdding => sender'[r].msg.by = r /\ sender'[r].msg.n <= added'
    BY <1>1, <1>3, <1>7 DEF OrderInv, NumbersFresh
  <2>2. \A r \in Sender : (sender'[r] # NotAdding <=> sender[r] # NotAdding) /\ sender'[r].msg = sender[r].msg
    BY <1>1, <1>3
  <2>3. \A q, r \in Sender :
          sender'[q] # NotAdding /\ sender'[r] # NotAdding /\ sender'[q].msg.n = sender'[r].msg.n => q = r
    BY <2>2 DEF OrderInv, NumbersFresh
  <2>4. \A j \in Tracker : \A i \in DOMAIN Flow(j)' : Flow(j)'[i].n <= added'
    BY <1>1, <1>7, <1>10 DEF OrderInv, NumbersFresh
  <2> QED
    BY <2>1, <2>3, <2>4 DEF NumbersFresh
<1>12. LatestComing'
  <2> SUFFICES ASSUME NEW j \in Tracker, NEW i \in DOMAIN Flow(j)', NEW r \in Sender, sender'[r] # NotAdding
               PROVE  /\ Flow(j)'[i].by = r => Flow(j)'[i].n <= sender'[r].msg.n
                      /\ Flow(j)'[i].n = sender'[r].msg.n =>
                           /\ Flow(j)'[i].by = r
                           /\ \E x \in DOMAIN registered : registered[x] = j /\ x < sender'[r].at
    BY <1>1 DEF LatestComing
  <2>1. sender[r] # NotAdding /\ sender'[r].msg = sender[r].msg
    BY <1>1, <1>3
  <2>2. \A x \in DOMAIN registered : x < sender[r].at => x < sender'[r].at
    <3>1. \A x \in DOMAIN registered : x \in Nat
      BY <1>1
    <3> QED
      BY <1>1, <1>3, <3>1
  <2>3. CASE i \in DOMAIN Flow(j) /\ Flow(j)'[i] = Flow(j)[i]
    BY <2>1, <2>2, <2>3 DEF OrderInv, LatestComing
  <2>4. CASE j = k /\ Flow(j)'[i] = m
    <3>1. CASE r = s
      <4>1. sender[s].at < sender'[s].at
        BY <1>1, <1>3
      <4>2. m.n <= m.n
        BY <1>7
      <4> QED
        BY <1>2, <1>3, <1>7, <2>4, <3>1, <4>1, <4>2
    <3>2. CASE r # s
      <4>1. m.n # sender[r].msg.n
        BY <1>1, <2>1, <3>2 DEF OrderInv, NumbersFresh
      <4> QED
        BY <1>7, <2>1, <2>4, <3>2, <4>1
    <3> QED
      BY <3>1, <3>2
  <2> QED
    BY <1>10, <2>3, <2>4
<1>13. CallerOrder'
  <2>1. \A j \in Tracker : Ordered(Flow(j))
    BY CallerOrderDef DEF OrderInv
  <2>2. Ordered(Flow(k)')
    <3>1. /\ DOMAIN Flow(k) = 1..Len(Flow(k)) /\ Len(Flow(k)) \in Nat
      BY <1>2, <1>4
    <3> SUFFICES ASSUME NEW i \in DOMAIN Flow(k)', NEW j \in DOMAIN Flow(k)'
                 PROVE  /\ i # j => Flow(k)'[i].n # Flow(k)'[j].n
                        /\ i < j /\ Flow(k)'[i].by = Flow(k)'[j].by => Flow(k)'[i].n < Flow(k)'[j].n
      BY DEF Ordered
    <3>2. CASE i \in DOMAIN Flow(k) /\ j \in DOMAIN Flow(k)
      <4>1. Flow(k)'[i] = Flow(k)[i] /\ Flow(k)'[j] = Flow(k)[j]
        BY <1>2, <1>10, <3>1, <3>2
      <4> QED
        BY <1>2, <2>1, <3>2, <4>1 DEF Ordered
    <3>3. CASE i \in DOMAIN Flow(k) /\ j \notin DOMAIN Flow(k)
      <4>1. Flow(k)'[i] = Flow(k)[i] /\ Flow(k)'[j] = m
        BY <1>2, <1>10, <3>1, <3>3
      <4> QED
        BY <1>7, <1>8, <3>3, <4>1
    <3>4. CASE i \notin DOMAIN Flow(k) /\ j \in DOMAIN Flow(k)
      <4>1. Flow(k)'[j] = Flow(k)[j] /\ Flow(k)'[i] = m /\ i = Len(Flow(k)) + 1 /\ j <= Len(Flow(k)) /\ j \in Nat
        BY <1>2, <1>10, <3>1, <3>4
      <4>2. ~(i < j)
        BY <3>1, <4>1
      <4> QED
        BY <1>7, <1>8, <3>4, <4>1, <4>2
    <3>5. CASE i \notin DOMAIN Flow(k) /\ j \notin DOMAIN Flow(k)
      <4>1. i = Len(Flow(k)) + 1 /\ j = Len(Flow(k)) + 1
        BY <1>2, <1>10, <3>5
      <4> QED
        BY <3>1, <4>1
    <3> QED
      BY <3>2, <3>3, <3>4, <3>5
  <2> QED
    BY <1>5, <2>1, <2>2, CallerOrderDef
<1> QED
  BY <1>9, <1>11, <1>12, <1>13 DEF OrderInv

\* The call of AddMessage returns.
LEMMA ReturnOrder ==
  ASSUME IInv, OrderInv, NEW s \in Sender, AddNext(s),
         sender' = [sender EXCEPT ![s] = NotAdding], UNCHANGED queues
  PROVE  OrderInv'
<1>1. /\ UNCHANGED <<registered, thread, settled, added>> /\ sender'[s] = NotAdding
      /\ \A r \in Sender : r # s => sender'[r] = sender[r]
      /\ registered \in Seq(Tracker)
  BY DEF AddNext, history, IInv, TypeOK
<1>2. \A k \in Tracker : Flow(k)' = Flow(k)
  BY <1>1 DEF Flow, Settled, Hand, queues
<1>3. \A r \in Sender : sender'[r] # NotAdding => sender'[r] = sender[r]
  BY <1>1
<1>4. RegisteredOnce'
  BY <1>1 DEF OrderInv, RegisteredOnce
<1>5. NumbersFresh'
  BY <1>1, <1>2, <1>3 DEF OrderInv, NumbersFresh
<1>6. LatestComing'
  BY <1>1, <1>2, <1>3 DEF OrderInv, LatestComing
<1>7. CallerOrder'
  BY <1>2, CallerOrderDef DEF OrderInv
<1> QED
  BY <1>4, <1>5, <1>6, <1>7 DEF OrderInv

\* Every step of AddMessage, of registration and of the threads keeps the order.
LEMMA NextOrder == IInv /\ OrderInv /\ [Next]_vars => OrderInv'
<1> SUFFICES ASSUME IInv, OrderInv, [Next]_vars PROVE OrderInv'
  OBVIOUS
<1>1. IInv'
  BY NextIInv
<1>2. CASE \E s \in Sender : AddNext(s)
  BY <1>1, <1>2, PushOrder, ReturnOrder DEF AddNext
<1>3. CASE ~ \E s \in Sender : AddNext(s)
  <2>1. \A k \in Tracker : Flow(k)' = Flow(k)
    BY <1>1, <1>3, StepTakes, FlowKept
  <2>2. CASE \E s \in Sender, stage \in Stage : AddMessage(s, stage)
    BY <1>1, <2>1, <2>2, AddMessageOrder
  <2>3. CASE \E k \in Tracker : Register(k)
    BY <1>1, <2>1, <2>3, RegisterOrder
  <2>4. CASE UNCHANGED <<registered, sender, added>>
    <3>1. registered \in Seq(Tracker)
      BY DEF IInv, TypeOK
    <3> QED
      BY <2>1, <2>4, <3>1, NotNewAgain, OrderFrame
  <2> QED
    BY <1>3, <2>2, <2>3, <2>4 DEF Next, ThreadStep, SkipTapes, InitAnswered, Pop, PopNothing, CheckSkip,
       SendAnswered, SendFails, UpDown, Shutdown, vars, history
<1> QED
  BY <1>2, <1>3

\* At the start there is no message at all.
LEMMA InitOrder == Init => OrderInv
<1> SUFFICES ASSUME Init PROVE OrderInv
  OBVIOUS
<1>1. /\ registered = <<>> /\ \A s \in Sender : sender[s] = NotAdding
      /\ \A k \in Tracker : settled[k] = <<>> /\ queue[k] = <<>> /\ thread[k].pc = "new"
  BY DEF Init, At
<1>2. \A k \in Tracker : Settled(k) = <<>> /\ Hand(k) = <<>>
  BY <1>1 DEF Settled, Hand
<1>3. \A k \in Tracker : Flow(k) = <<>>
  <2>1. <<>> \o <<>> \o <<>> = <<>>
    OBVIOUS
  <2> QED
    BY <1>1, <1>2, <2>1 DEF Flow
<1>4. DOMAIN <<>> = {}
  OBVIOUS
<1>5. RegisteredOnce /\ NumbersFresh /\ LatestComing
  BY <1>1, <1>3, <1>4 DEF RegisteredOnce, NumbersFresh, LatestComing
<1>6. CallerOrder
  BY <1>3, <1>4, CallerOrderDef DEF Ordered
<1> QED
  BY <1>5, <1>6 DEF OrderInv

\* The threads that call AddMessage at once never mix up the messages of one of
\* them at any tracker, nor give a tracker a second copy.
THEOREM CallersKeepOrder == Spec => []CallerOrder
<1>1. OrderInv => CallerOrder
  BY DEF OrderInv
<1> QED
  BY <1>1, InitOrder, NextOrder, ReportingInvariant, PTL DEF Spec

-----------------------------------------------------------------------------
(* Answers *)

\* The settled messages are the front of the flow, and the one in hand is next.
LEMMA FlowPlaces ==
  ASSUME IInv, NEW k \in Tracker
  PROVE  /\ settled[k] \in Seq(Outcome)
         /\ \A i \in DOMAIN settled[k] : i \in DOMAIN Flow(k) /\ Flow(k)[i] = settled[k][i].msg
         /\ thread[k].pc \in {"try", "send"} =>
              /\ Len(settled[k]) + 1 \in DOMAIN Flow(k)
              /\ Flow(k)[Len(settled[k]) + 1] = thread[k].msg
<1>1. /\ Settled(k) \in Seq(Message) /\ Hand(k) \in Seq(Message) /\ queue[k] \in Seq(Message)
      /\ Begun(k) \in Seq(Message) /\ Flow(k) \in Seq(Message) /\ Flow(k) = Begun(k) \o queue[k]
  BY FlowTyped DEF Flow, Begun
<1>2. settled[k] \in Seq(Outcome)
  BY DEF IInv, TypeOK
<1>3. /\ Len(Settled(k)) = Len(settled[k]) /\ DOMAIN settled[k] = 1..Len(settled[k])
      /\ \A i \in DOMAIN settled[k] : Settled(k)[i] = settled[k][i].msg
  BY <1>1, <1>2 DEF Settled
<1>4. \A a, b \in Seq(Message) :
        /\ \A i \in 1..Len(a) : i \in DOMAIN (a \o b) /\ (a \o b)[i] = a[i]
        /\ \A i \in 1..Len(b) : Len(a) + i \in DOMAIN (a \o b) /\ (a \o b)[Len(a) + i] = b[i]
        /\ Len(a \o b) = Len(a) + Len(b)
  <2> TAKE a, b \in Seq(Message)
  <2> QED
    OBVIOUS
<1>5. \A i \in DOMAIN settled[k] : i \in DOMAIN Flow(k) /\ Flow(k)[i] = settled[k][i].msg
  <2> TAKE i \in DOMAIN settled[k]
  <2>1. i \in 1..Len(Settled(k)) /\ Begun(k) = Settled(k) \o Hand(k)
    BY <1>3 DEF Begun
  <2>2. i \in DOMAIN Begun(k) /\ Begun(k)[i] = Settled(k)[i]
    BY <1>1, <1>4, <2>1
  <2>3. i \in 1..Len(Begun(k))
    BY <1>1, <2>2
  <2>4. i \in DOMAIN Flow(k) /\ Flow(k)[i] = Begun(k)[i]
    BY <1>1, <1>4, <2>3
  <2> QED
    BY <1>3, <2>2, <2>4
<1>6. ASSUME thread[k].pc \in {"try", "send"}
      PROVE  /\ Len(settled[k]) + 1 \in DOMAIN Flow(k)
             /\ Flow(k)[Len(settled[k]) + 1] = thread[k].msg
  <2>1. Hand(k) = <<thread[k].msg>> /\ Begun(k) = Settled(k) \o Hand(k)
    BY <1>6, HandTyped DEF Begun
  <2>2. 1 \in 1..Len(Hand(k)) /\ Hand(k)[1] = thread[k].msg
    BY <2>1
  <2>3. Len(Settled(k)) + 1 \in DOMAIN Begun(k) /\ Begun(k)[Len(Settled(k)) + 1] = thread[k].msg
    BY <1>1, <1>4, <2>1, <2>2
  <2>4. PICK n : n = Len(Settled(k)) + 1
    OBVIOUS
  <2>5. n \in 1..Len(Begun(k)) /\ Begun(k)[n] = thread[k].msg
    BY <1>1, <2>3, <2>4
  <2>6. n \in DOMAIN Flow(k) /\ Flow(k)[n] = Begun(k)[n]
    BY <1>1, <1>4, <2>5
  <2> QED
    BY <1>3, <2>4, <2>5, <2>6
<1> QED
  BY <1>2, <1>5, <1>6

\* A thread settles a message once: the one in its hand is none of the settled ones.
LEMMA HandUnsettled ==
  ASSUME IInv, CallerOrder, NEW k \in Tracker, thread[k].pc \in {"try", "send"}
  PROVE  \A i \in DOMAIN settled[k] : settled[k][i].msg.n # thread[k].msg.n
<1> TAKE i \in DOMAIN settled[k]
<1>1. i # Len(settled[k]) + 1
  BY FlowPlaces
<1>2. Ordered(Flow(k))
  BY CallerOrderDef
<1> QED
  BY <1>1, <1>2, FlowPlaces DEF Ordered

\* The answers of one tracker.
Answered(k) ==
  /\ \A i \in DOMAIN orders[k] : \E j \in DOMAIN settled[k] :
       settled[k][j].how = "answered" /\ settled[k][j].msg.n = orders[k][i].n
  /\ \A i, j \in DOMAIN orders[k] : i # j => orders[k][i].n # orders[k][j].n
  /\ Len(orders[k]) = Cardinality(SettledAs(settled[k], "answered"))

\* The answers are about each tracker alone, now and after a step.
LEMMA AnsweredDef ==
  /\ AnswerInv <=> \A k \in Tracker : Answered(k)
  /\ AnswerInv' <=> \A k \in Tracker : Answered(k)'
BY DEF AnswerInv, OrdersAnswered, OneAnswerActedOn, Answered, SettledAs

\* Settling a message without an answer brings no order.
LEMMA SettleUnanswered ==
  ASSUME IInv, AnswerInv, NEW k \in Tracker, NEW o \in Outcome,
         settled' = [settled EXCEPT ![k] = Append(@, o)], UNCHANGED orders, o.how # "answered"
  PROVE  AnswerInv'
<1>1. /\ settled[k] \in Seq(Outcome) /\ settled'[k] = Append(settled[k], o)
      /\ \A j \in Tracker : j # k => settled'[j] = settled[j]
  BY SettledGrows
<1>2. \A j \in Tracker : j # k => Answered(j)'
  BY <1>1, AnsweredDef DEF Answered
<1>3. Cardinality(SettledAs(settled'[k], "answered")) = Cardinality(SettledAs(settled[k], "answered"))
  BY <1>1, CountAppend
<1>4. \A j \in DOMAIN settled[k] : j \in DOMAIN settled'[k] /\ settled'[k][j] = settled[k][j]
  BY <1>1
<1>5. Answered(k)
  BY AnsweredDef
<1>6. Answered(k)'
  BY <1>3, <1>4, <1>5 DEF Answered
<1> QED
  BY <1>2, <1>6, AnsweredDef

\* An answer brings one order, for a message that had none.
LEMMA AnswerOrders ==
  ASSUME IInv, CallerOrder, AnswerInv, NEW k \in Tracker, thread[k].pc = "send",
         NEW delete \in BOOLEAN, HandleResponse(k, delete), Settle(k, "answered")
  PROVE  AnswerInv'
<1>1. PICK o \in Outcome : /\ o.msg = thread[k].msg /\ o.how = "answered"
                           /\ settled' = [settled EXCEPT ![k] = Append(@, o)]
  BY SettleIs
<1>2. /\ settled[k] \in Seq(Outcome) /\ settled'[k] = Append(settled[k], o)
      /\ \A j \in Tracker : j # k => settled'[j] = settled[j]
  BY <1>1, SettledGrows
<1>3. PICK r \in Order : orders' = [orders EXCEPT ![k] = Append(@, r)] /\ r.n = thread[k].msg.n
  <2> DEFINE a == [n |-> thread[k].msg.n, what |-> Response(thread[k].msg, delete), delete |-> delete]
  <2>1. thread[k].msg \in Message
    BY DEF IInv, HandsConsistent
  <2>2. Response(thread[k].msg, delete) \in {"delete", "pause", "capture", "none"}
    BY DEF Response
  <2>3. a \in Order /\ a.n = thread[k].msg.n
    BY <2>1, <2>2 DEF Order, Message
  <2>4. orders' = [orders EXCEPT ![k] = Append(@, a)]
    BY DEF HandleResponse
  <2> HIDE DEF a
  <2> QED
    BY <2>3, <2>4
<1>4. /\ orders[k] \in Seq(Order) /\ orders'[k] = Append(orders[k], r)
      /\ \A j \in Tracker : j # k => orders'[j] = orders[j]
  BY <1>3 DEF IInv, TypeOK
<1>5. \A j \in Tracker : j # k => Answered(j)'
  <2> SUFFICES ASSUME NEW j \in Tracker, j # k PROVE Answered(j)'
    OBVIOUS
  <2>1. orders'[j] = orders[j] /\ settled'[j] = settled[j] /\ Answered(j)
    BY <1>2, <1>4, AnsweredDef
  <2> QED
    BY <2>1 DEF Answered
<1>6. /\ DOMAIN settled'[k] = 1..Len(settled[k]) + 1 /\ DOMAIN settled[k] = 1..Len(settled[k])
      /\ Len(settled[k]) \in Nat
      /\ \A j \in 1..Len(settled[k]) : settled'[k][j] = settled[k][j]
      /\ settled'[k][Len(settled[k]) + 1] = o
  BY <1>2
<1>7. /\ DOMAIN orders'[k] = 1..Len(orders[k]) + 1 /\ DOMAIN orders[k] = 1..Len(orders[k])
      /\ Len(orders[k]) \in Nat /\ Len(orders'[k]) = Len(orders[k]) + 1
      /\ \A j \in 1..Len(orders[k]) : orders'[k][j] = orders[k][j]
      /\ orders'[k][Len(orders[k]) + 1] = r
  BY <1>4
<1>8. Answered(k)
  BY AnsweredDef
<1>9. \A i \in DOMAIN orders[k] : orders[k][i].n # r.n
  BY <1>3, <1>8, HandUnsettled DEF Answered
<1>10. \A i \in DOMAIN orders'[k] : i \in DOMAIN orders[k] \/ i = Len(orders[k]) + 1
  BY <1>7
<1>11. \A i \in DOMAIN orders'[k] : \E j \in DOMAIN settled'[k] :
         settled'[k][j].how = "answered" /\ settled'[k][j].msg.n = orders'[k][i].n
  <2> TAKE i \in DOMAIN orders'[k]
  <2>1. CASE i \in DOMAIN orders[k]
    <3>1. PICK j \in DOMAIN settled[k] : settled[k][j].how = "answered" /\ settled[k][j].msg.n = orders[k][i].n
      BY <1>8, <2>1 DEF Answered
    <3>2. j \in DOMAIN settled'[k] /\ settled'[k][j] = settled[k][j] /\ orders'[k][i] = orders[k][i]
      BY <1>6, <1>7, <2>1, <3>1
    <3> QED
      BY <3>1, <3>2
  <2>2. CASE i = Len(orders[k]) + 1
    BY <1>1, <1>3, <1>6, <1>7, <2>2
  <2> QED
    BY <1>10, <2>1, <2>2
<1>12. \A i, j \in DOMAIN orders'[k] : i # j => orders'[k][i].n # orders'[k][j].n
  <2> SUFFICES ASSUME NEW i \in DOMAIN orders'[k], NEW j \in DOMAIN orders'[k], i # j
               PROVE  orders'[k][i].n # orders'[k][j].n
    OBVIOUS
  <2>1. \A x \in DOMAIN orders[k] : orders'[k][x] = orders[k][x]
    BY <1>7
  <2>2. CASE i \in DOMAIN orders[k] /\ j \in DOMAIN orders[k]
    BY <1>8, <2>1, <2>2 DEF Answered
  <2>3. CASE i = Len(orders[k]) + 1 /\ j \in DOMAIN orders[k]
    BY <1>7, <1>9, <2>1, <2>3
  <2>4. CASE i \in DOMAIN orders[k] /\ j = Len(orders[k]) + 1
    BY <1>7, <1>9, <2>1, <2>4
  <2> QED
    BY <1>10, <2>2, <2>3, <2>4
<1>13. Len(orders'[k]) = Cardinality(SettledAs(settled'[k], "answered"))
  <2>1. Cardinality(SettledAs(settled'[k], "answered")) = Cardinality(SettledAs(settled[k], "answered")) + 1
    BY <1>1, <1>2, CountAppend
  <2> QED
    BY <1>7, <1>8, <2>1 DEF Answered
<1>14. Answered(k)'
  BY <1>11, <1>12, <1>13 DEF Answered
<1> QED
  BY <1>5, <1>14, AnsweredDef

\* Every step keeps one order to one answered message.
LEMMA NextAnswers == IInv /\ CallerOrder /\ AnswerInv /\ [Next]_vars => AnswerInv'
<1> SUFFICES ASSUME IInv, CallerOrder, AnswerInv, [Next]_vars PROVE AnswerInv'
  OBVIOUS
<1>1. CASE UNCHANGED <<orders, settled>>
  <2>1. OrdersAnswered'
    BY <1>1 DEF AnswerInv, OrdersAnswered
  <2>2. OneAnswerActedOn'
    BY <1>1 DEF AnswerInv, OneAnswerActedOn
  <2> QED
    BY <2>1, <2>2 DEF AnswerInv
<1>2. CASE \E k \in Tracker : Pop(k)
  <2> PICK k \in Tracker : Pop(k)
    BY <1>2
  <2>1. UNCHANGED orders
    BY DEF Pop
  <2>2. \/ UNCHANGED settled
        \/ \E o \in Outcome : o.how = "ignored" /\ settled' = [settled EXCEPT ![k] = Append(@, o)]
    BY PopIs
  <2> QED
    BY <1>1, <2>1, <2>2, SettleUnanswered
<1>3. CASE \E k \in Tracker : CheckSkip(k)
  <2> PICK k \in Tracker : CheckSkip(k)
    BY <1>3
  <2>1. UNCHANGED orders /\ thread[k].pc = "try" /\ (Settle(k, "skipped") \/ UNCHANGED settled)
    BY DEF CheckSkip
  <2>2. CASE Settle(k, "skipped")
    <3>1. PICK o \in Outcome : o.how = "skipped" /\ settled' = [settled EXCEPT ![k] = Append(@, o)]
      BY <2>1, <2>2, SettleIs
    <3> QED
      BY <2>1, <3>1, SettleUnanswered
  <2> QED
    BY <1>1, <2>1, <2>2
<1>4. CASE \E k \in Tracker : SendAnswered(k)
  <2> PICK k \in Tracker : SendAnswered(k)
    BY <1>4
  <2>1. thread[k].pc = "send"
    BY DEF SendAnswered
  <2>2. CASE \E delete \in BOOLEAN : HandleResponse(k, delete) /\ Settle(k, "answered")
    BY <2>1, <2>2, AnswerOrders
  <2>3. CASE Settle(k, "unreadable") /\ UNCHANGED orders
    <3>1. PICK o \in Outcome : o.how = "unreadable" /\ settled' = [settled EXCEPT ![k] = Append(@, o)]
      BY <2>1, <2>3, SettleIs
    <3> QED
      BY <2>3, <3>1, SettleUnanswered
  <2> QED
    BY <2>2, <2>3 DEF SendAnswered
<1>5. CASE \E k \in Tracker : SendFails(k)
  <2> PICK k \in Tracker : SendFails(k)
    BY <1>5
  <2>1. UNCHANGED orders /\ thread[k].pc = "send" /\ (Settle(k, "dropped") \/ UNCHANGED settled)
    BY DEF SendFails
  <2>2. CASE Settle(k, "dropped")
    <3>1. PICK o \in Outcome : o.how = "dropped" /\ settled' = [settled EXCEPT ![k] = Append(@, o)]
      BY <2>1, <2>2, SettleIs
    <3> QED
      BY <2>1, <3>1, SettleUnanswered
  <2> QED
    BY <1>1, <2>1, <2>2
<1> QED
  BY <1>1, <1>2, <1>3, <1>4, <1>5 DEF Next, ThreadStep, AddMessage, AddNext, SkipTapes, Register, InitAnswered,
     PopNothing, UpDown, Shutdown, vars, history

\* However often a message is sent, the recorder obeys one answer to it, and
\* every answer that settles a message is obeyed (TapeMsg::HandleResponse).
THEOREM OneAnswerEach == Spec => []OneAnswerActedOn
<1>1. Init => AnswerInv
  <2> SUFFICES ASSUME Init PROVE AnswerInv
    OBVIOUS
  <2>1. \A k \in Tracker : orders[k] = <<>> /\ settled[k] = <<>>
    BY DEF Init
  <2>2. SettledAs(<<>>, "answered") = {} /\ DOMAIN <<>> = {} /\ Len(<<>>) = 0
    BY DEF SettledAs
  <2>3. \A k \in Tracker : Answered(k)
    <3> TAKE k \in Tracker
    <3>1. Cardinality(SettledAs(settled[k], "answered")) = 0 /\ Len(orders[k]) = 0
      BY <2>1, <2>2, FS_EmptySet
    <3>2. \A i \in DOMAIN orders[k] : FALSE
      BY <2>1, <2>2
    <3> QED
      BY <3>1, <3>2 DEF Answered
  <2> QED
    BY <2>3, AnsweredDef
<1>2. AnswerInv => OneAnswerActedOn
  BY DEF AnswerInv
<1> QED
  BY <1>1, <1>2, NextAnswers, CallersKeepOrder, ReportingInvariant, PTL DEF Spec

-----------------------------------------------------------------------------
(* What the trackers process *)

\* Of the messages begun, no two have the same number; the one in hand comes last;
\* the next of the queue is none of them.
LEMMA BegunPlaces ==
  ASSUME IInv, CallerOrder, NEW k \in Tracker
  PROVE  /\ \A x, y \in DOMAIN Begun(k) : Begun(k)[x] = Begun(k)[y] => x = y
         /\ thread[k].pc \in {"try", "send"} =>
              Len(Begun(k)) \in DOMAIN Begun(k) /\ Begun(k)[Len(Begun(k))] = thread[k].msg
         /\ queue[k] # <<>> => \A x \in DOMAIN Begun(k) : Begun(k)[x] # Head(queue[k])
<1>1. /\ Settled(k) \in Seq(Message) /\ Hand(k) \in Seq(Message) /\ queue[k] \in Seq(Message)
      /\ Begun(k) \in Seq(Message) /\ Flow(k) = Begun(k) \o queue[k] /\ Begun(k) = Settled(k) \o Hand(k)
  BY FlowTyped DEF Flow, Begun
<1>2. \A a, b \in Seq(Message) :
        /\ \A i \in DOMAIN a : i \in DOMAIN (a \o b) /\ (a \o b)[i] = a[i] /\ i <= Len(a)
        /\ b # <<>> => Len(a) + 1 \in DOMAIN (a \o b) /\ (a \o b)[Len(a) + 1] = Head(b)
        /\ Len(a) \in Nat
  <2> TAKE a, b \in Seq(Message)
  <2> QED
    OBVIOUS
<1>3. Ordered(Flow(k))
  BY CallerOrderDef
<1>4. \A x \in DOMAIN Begun(k) : x \in DOMAIN Flow(k) /\ Flow(k)[x] = Begun(k)[x]
  <2>1. Begun(k) \in Seq(Message) /\ queue[k] \in Seq(Message) /\ Flow(k) = Begun(k) \o queue[k]
    BY <1>1
  <2>2. \A a, b \in Seq(Message) : \A i \in DOMAIN a : i \in DOMAIN (a \o b) /\ (a \o b)[i] = a[i]
    BY <1>2
  <2> QED
    BY <2>1, <2>2, Zenon
<1>5. \A x, y \in DOMAIN Begun(k) : Begun(k)[x] = Begun(k)[y] => x = y
  BY <1>3, <1>4 DEF Ordered
<1>6. ASSUME queue[k] # <<>>, NEW x \in DOMAIN Begun(k)
      PROVE  Begun(k)[x] # Head(queue[k])
  <2> DEFINE y == Len(Begun(k)) + 1
  <2>1. y \in DOMAIN Flow(k) /\ Flow(k)[y] = Head(queue[k])
    BY <1>1, <1>2, <1>6
  <2>2. x # y
    <3>1. x <= Len(Begun(k)) /\ Len(Begun(k)) \in Nat
      BY <1>1, <1>2, <1>6
    <3> QED
      BY <3>1
  <2>3. Flow(k)[x].n # Flow(k)[y].n
    BY <1>3, <1>4, <2>1, <2>2 DEF Ordered
  <2> QED
    BY <1>4, <2>1, <2>3
<1>7. ASSUME thread[k].pc \in {"try", "send"}
      PROVE  Len(Begun(k)) \in DOMAIN Begun(k) /\ Begun(k)[Len(Begun(k))] = thread[k].msg
  <2>1. Hand(k) = <<thread[k].msg>>
    BY <1>7, HandTyped
  <2>2. Hand(k) # <<>> /\ Head(Hand(k)) = thread[k].msg /\ Len(Hand(k)) = 1
    BY <2>1
  <2>3. Len(Begun(k)) = Len(Settled(k)) + 1
    <3>1. \A a, b \in Seq(Message) : Len(a \o b) = Len(a) + Len(b)
      OBVIOUS
    <3>2. Settled(k) \in Seq(Message) /\ Hand(k) \in Seq(Message) /\ Begun(k) = Settled(k) \o Hand(k)
      BY <1>1
    <3>3. Len(Begun(k)) = Len(Settled(k)) + Len(Hand(k))
      BY <3>1, <3>2, Zenon
    <3> QED
      BY <2>2, <3>3
  <2> QED
    BY <1>1, <1>2, <2>2, <2>3
<1> QED
  BY <1>5, <1>6, <1>7

\* A message that is settled has been begun before.
LEMMA SettleBegun ==
  ASSUME IInv, NEW k \in Tracker, thread[k].pc \in {"try", "send"},
         NEW how \in {"answered", "unreadable", "dropped", "skipped", "ignored"}, Settle(k, how)
  PROVE  /\ \A j \in Tracker : Begun(j)' = Begun(j)
         /\ thread'[k].pc = "idle" /\ \A j \in Tracker : j # k => thread'[j] = thread[j]
<1>1. /\ Hand(k) = <<thread[k].msg>> /\ thread[k].msg \in Message
  BY HandTyped
<1>2. PICK m \in Message : m = thread[k].msg
  BY <1>1
<1>3. Hand(k)' = <<>> /\ \A j \in Tracker : j # k => Hand(j)' = Hand(j)
  BY HandAfter DEF Settle, Idle
<1>4. settled' = [settled EXCEPT ![k] = Append(@, [msg |-> m, how |-> how])]
  BY <1>2 DEF Settle
<1>5. /\ Settled(k)' = Append(Settled(k), m)
      /\ \A j \in Tracker : j # k => Settled(j)' = Settled(j)
  BY <1>4, SettledAppend
<1>6. Settled(k) \in Seq(Message)
  BY FlowTyped
<1>7. Append(Settled(k), m) \o <<>> = Settled(k) \o <<m>>
  <2>1. \A s \in Seq(Message) : Append(s, m) \o <<>> = s \o <<m>>
    <3> TAKE s \in Seq(Message)
    <3>1. Append(s, m) = s \o <<m>> /\ Append(s, m) \in Seq(Message)
      BY AppendIsConcat
    <3> QED
      BY <3>1, ConcatEmptySeq
  <2> QED
    BY <1>6, <2>1
<1>8. Begun(k)' = Begun(k)
  BY <1>1, <1>2, <1>3, <1>5, <1>7 DEF Begun
<1>9. \A j \in Tracker : j # k => Begun(j)' = Begun(j)
  BY <1>3, <1>5 DEF Begun
<1>10. thread' = [thread EXCEPT ![k] = Idle] /\ Idle.pc = "idle" /\ thread \in [Tracker -> ThreadState]
  BY DEF Settle, Becomes, Idle, At, IInv, TypeOK
<1> QED
  BY <1>8, <1>9, <1>10

\* A pop begins the message at the front of the queue.
LEMMA PopBegun ==
  ASSUME IInv, NEW k \in Tracker, Pop(k)
  PROVE  \E m \in Message :
           /\ m = Head(queue[k]) /\ queue[k] # <<>>
           /\ Begun(k)' = Append(Begun(k), m)
           /\ thread'[k].pc \in {"try", "send"} => thread'[k].msg = m
           /\ \A j \in Tracker : j # k => Begun(j)' = Begun(j) /\ thread'[j] = thread[j]
<1>1. PICK m \in Message :
        /\ m = Head(queue[k])
        /\ \/ Becomes(k, At("try", m)) /\ UNCHANGED settled
           \/ /\ UNCHANGED thread
              /\ \E o \in Outcome : /\ o.msg = m /\ o.how = "ignored"
                                    /\ settled' = [settled EXCEPT ![k] = Append(@, o)]
  BY PopIs
<1>2. thread[k].pc = "idle" /\ queue[k] # <<>> /\ Hand(k) = <<>> /\ Settled(k) \in Seq(Message)
  BY HandTyped, FlowTyped DEF Pop
<1>3. \A s \in Seq(Message) : s \o <<m>> = Append(s \o <<>>, m) /\ Append(s, m) \o <<>> = Append(s \o <<>>, m)
  <2> TAKE s \in Seq(Message)
  <2>1. Append(s, m) = s \o <<m>> /\ Append(s, m) \in Seq(Message)
    BY AppendIsConcat
  <2>2. s \o <<>> = s /\ Append(s, m) \o <<>> = Append(s, m)
    BY <2>1, ConcatEmptySeq
  <2> QED
    BY <2>1, <2>2
<1>4. CASE Becomes(k, At("try", m)) /\ UNCHANGED settled
  <2>1. Hand(k)' = <<m>> /\ \A j \in Tracker : j # k => Hand(j)' = Hand(j)
    BY <1>4, HandAfter
  <2>2. \A j \in Tracker : Settled(j)' = Settled(j)
    BY <1>4 DEF Settled
  <2>3. Begun(k)' = Append(Begun(k), m) /\ \A j \in Tracker : j # k => Begun(j)' = Begun(j)
    BY <1>2, <1>3, <2>1, <2>2 DEF Begun
  <2>4. /\ thread' = [thread EXCEPT ![k] = At("try", m)] /\ At("try", m).msg = m
        /\ thread \in [Tracker -> ThreadState]
    BY <1>4 DEF Becomes, At, IInv, TypeOK
  <2> QED
    BY <1>1, <1>2, <2>3, <2>4
<1>5. CASE UNCHANGED thread /\ \E o \in Outcome : /\ o.msg = m /\ o.how = "ignored"
                                                  /\ settled' = [settled EXCEPT ![k] = Append(@, o)]
  <2>1. settled' = [settled EXCEPT ![k] = Append(@, [msg |-> m, how |-> "ignored"])]
    <3>1. \A o \in Outcome : o.msg = m /\ o.how = "ignored" => o = [msg |-> m, how |-> "ignored"]
      BY DEF Outcome
    <3> QED
      BY <1>5, <3>1
  <2>2. /\ Settled(k)' = Append(Settled(k), m)
        /\ \A j \in Tracker : j # k => Settled(j)' = Settled(j)
    BY <2>1, SettledAppend
  <2>3. \A j \in Tracker : Hand(j)' = Hand(j)
    BY <1>5 DEF Hand
  <2>4. Begun(k)' = Append(Begun(k), m) /\ \A j \in Tracker : j # k => Begun(j)' = Begun(j)
    BY <1>2, <1>3, <2>2, <2>3 DEF Begun
  <2> QED
    BY <1>1, <1>2, <1>5, <2>4
<1> QED
  BY <1>1, <1>4, <1>5

\* The story of one tracker is in order.
InPlace(k) ==
  /\ \A i \in DOMAIN processed[k] : \E x \in DOMAIN Begun(k) : Begun(k)[x] = processed[k][i]
  /\ \A i, j \in DOMAIN processed[k] : \A x, y \in DOMAIN Begun(k) :
       i < j /\ Begun(k)[x] = processed[k][i] /\ Begun(k)[y] = processed[k][j] =>
         x < y \/ (x = y /\ ~IsRealtime(processed[k][i]))
  /\ thread[k].pc \in {"try", "send"} /\ IsRealtime(thread[k].msg) =>
       \A i \in DOMAIN processed[k] : processed[k][i] # thread[k].msg

\* The story is about each tracker alone, now and after a step.
LEMMA InPlaceDef ==
  /\ ProcessedInv <=> \A k \in Tracker : InPlace(k)
  /\ ProcessedInv' <=> \A k \in Tracker : InPlace(k)'
BY DEF ProcessedInv, ProcessedInOrder, RealtimeFresh, InPlace

\* Nothing is begun or processed.
LEMMA PlacesKept ==
  ASSUME NEW k \in Tracker, InPlace(k), Begun(k)' = Begun(k), processed'[k] = processed[k],
         thread'[k].pc \in {"try", "send"} => thread[k].pc \in {"try", "send"} /\ thread'[k].msg = thread[k].msg
  PROVE  InPlace(k)'
BY DEF InPlace

\* A message that has just been taken has not been processed.
LEMMA PlaceBegun ==
  ASSUME IInv, NEW k \in Tracker, InPlace(k), processed'[k] = processed[k],
         NEW m \in Message, Begun(k)' = Append(Begun(k), m),
         \A x \in DOMAIN Begun(k) : Begun(k)[x] # m,
         thread'[k].pc \in {"try", "send"} => thread'[k].msg = m
  PROVE  InPlace(k)'
<1>1. Begun(k) \in Seq(Message)
  BY FlowTyped
<1>2. \A s \in Seq(Message) :
        /\ \A x \in DOMAIN Append(s, m) : (x \in DOMAIN s /\ Append(s, m)[x] = s[x]) \/ Append(s, m)[x] = m
        /\ \A x \in DOMAIN s : x \in DOMAIN Append(s, m) /\ Append(s, m)[x] = s[x]
  <2> TAKE s \in Seq(Message)
  <2> QED
    OBVIOUS
<1>3. /\ \A x \in DOMAIN Begun(k)' :
           (x \in DOMAIN Begun(k) /\ Begun(k)'[x] = Begun(k)[x]) \/ Begun(k)'[x] = m
      /\ \A x \in DOMAIN Begun(k) : x \in DOMAIN Begun(k)' /\ Begun(k)'[x] = Begun(k)[x]
  BY <1>1, <1>2
<1>4. \A i \in DOMAIN processed[k] : processed[k][i] # m
  BY DEF InPlace
<1>5. \A i \in DOMAIN processed[k] : \E x \in DOMAIN Begun(k)' : Begun(k)'[x] = processed[k][i]
  BY <1>3 DEF InPlace
<1>6. \A i, j \in DOMAIN processed[k] : \A x, y \in DOMAIN Begun(k)' :
        i < j /\ Begun(k)'[x] = processed[k][i] /\ Begun(k)'[y] = processed[k][j] =>
          x < y \/ (x = y /\ ~IsRealtime(processed[k][i]))
  BY <1>3, <1>4 DEF InPlace
<1> QED
  BY <1>4, <1>5, <1>6 DEF InPlace

\* The message in hand is processed: the last one begun, and again only if it lasts.
LEMMA PlaceProcessed ==
  ASSUME IInv, CallerOrder, NEW k \in Tracker, InPlace(k), thread[k].pc = "send",
         processed'[k] = Append(processed[k], thread[k].msg), Begun(k)' = Begun(k),
         thread'[k].pc \in {"try", "send"} => ~IsRealtime(thread'[k].msg)
  PROVE  InPlace(k)'
<1>1. /\ Begun(k) \in Seq(Message) /\ processed[k] \in Seq(Message) /\ thread[k].msg \in Message
  BY FlowTyped, HandTyped DEF IInv, TypeOK
<1>2. /\ DOMAIN processed'[k] = 1..Len(processed[k]) + 1 /\ DOMAIN processed[k] = 1..Len(processed[k])
      /\ Len(processed[k]) \in Nat
      /\ \A i \in 1..Len(processed[k]) : processed'[k][i] = processed[k][i]
      /\ processed'[k][Len(processed[k]) + 1] = thread[k].msg
      /\ DOMAIN Begun(k) = 1..Len(Begun(k)) /\ Len(Begun(k)) \in Nat
  BY <1>1
<1>3. /\ Len(Begun(k)) \in DOMAIN Begun(k) /\ Begun(k)[Len(Begun(k))] = thread[k].msg
      /\ \A x, y \in DOMAIN Begun(k) : Begun(k)[x] = Begun(k)[y] => x = y
  BY BegunPlaces
<1>4. \A i \in DOMAIN processed'[k] : i \in DOMAIN processed[k] \/ i = Len(processed[k]) + 1
  BY <1>2
<1>5. \A i \in DOMAIN processed'[k] : \E x \in DOMAIN Begun(k) : Begun(k)[x] = processed'[k][i]
  BY <1>2, <1>3, <1>4 DEF InPlace
<1>6. ASSUME NEW i \in DOMAIN processed'[k], NEW j \in DOMAIN processed'[k],
             NEW x \in DOMAIN Begun(k), NEW y \in DOMAIN Begun(k),
             i < j, Begun(k)[x] = processed'[k][i], Begun(k)[y] = processed'[k][j]
      PROVE  x < y \/ (x = y /\ ~IsRealtime(processed'[k][i]))
  <2>1. i \in DOMAIN processed[k] /\ processed'[k][i] = processed[k][i]
    BY <1>2, <1>6
  <2>2. CASE j \in DOMAIN processed[k]
    BY <1>2, <1>6, <2>1, <2>2 DEF InPlace
  <2>3. CASE j = Len(processed[k]) + 1
    <3>1. y = Len(Begun(k)) /\ (x < y \/ x = y)
      BY <1>2, <1>3, <1>6, <2>3, SMTT(30)
    <3>2. x = y => processed[k][i] = thread[k].msg
      BY <1>3, <1>6, <2>1, <3>1
    <3>3. IsRealtime(thread[k].msg) => processed[k][i] # thread[k].msg
      BY <2>1 DEF InPlace
    <3> QED
      BY <2>1, <3>1, <3>2, <3>3
  <2> QED
    BY <1>4, <2>2, <2>3
<1>7. \A i, j \in DOMAIN processed'[k] : \A x, y \in DOMAIN Begun(k) :
        i < j /\ Begun(k)[x] = processed'[k][i] /\ Begun(k)[y] = processed'[k][j] =>
          x < y \/ (x = y /\ ~IsRealtime(processed'[k][i]))
  BY <1>6
<1> QED
  BY <1>5, <1>7 DEF InPlace

\* Every step of Pop, IsSkip and the sending loop keeps the story in order.
LEMMA NextProcessed == IInv /\ CallerOrder /\ ProcessedInv /\ [Next]_vars => ProcessedInv'
<1> SUFFICES ASSUME IInv, CallerOrder, ProcessedInv, [Next]_vars PROVE ProcessedInv'
  OBVIOUS
<1>1. \A j \in Tracker : InPlace(j)
  BY InPlaceDef
<1>2. CASE UNCHANGED <<thread, settled, processed>>
  <2>1. \A j \in Tracker : Begun(j)' = Begun(j)
    BY <1>2 DEF Begun, Settled, Hand
  <2> QED
    BY <1>1, <1>2, <2>1, PlacesKept, InPlaceDef
<1>3. ASSUME NEW k \in Tracker, Pop(k)
      PROVE  ProcessedInv'
  <2>1. UNCHANGED processed
    BY <1>3 DEF Pop
  <2>2. PICK m \in Message :
          /\ m = Head(queue[k]) /\ queue[k] # <<>>
          /\ Begun(k)' = Append(Begun(k), m)
          /\ thread'[k].pc \in {"try", "send"} => thread'[k].msg = m
          /\ \A j \in Tracker : j # k => Begun(j)' = Begun(j) /\ thread'[j] = thread[j]
    BY <1>3, PopBegun
  <2>3. \A x \in DOMAIN Begun(k) : Begun(k)[x] # m
    BY <2>2, BegunPlaces
  <2>4. InPlace(k)'
    BY <1>1, <2>1, <2>2, <2>3, PlaceBegun
  <2>5. \A j \in Tracker : j # k => InPlace(j)'
    BY <1>1, <2>1, <2>2, PlacesKept
  <2> QED
    BY <2>4, <2>5, InPlaceDef
\* A thread that goes on without its message, or keeps the one it has.
<1>4. ASSUME NEW k \in Tracker, UNCHANGED <<settled, processed>>, NEW pc, NEW m, Becomes(k, At(pc, m)),
             pc \in {"try", "send"} => thread[k].pc \in {"try", "send"} /\ m = thread[k].msg,
             pc \notin {"try", "send"} => thread[k].pc \notin {"try", "send"}
      PROVE  ProcessedInv'
  <2>1. /\ thread' = [thread EXCEPT ![k] = At(pc, m)] /\ thread \in [Tracker -> ThreadState]
        /\ At(pc, m).pc = pc /\ At(pc, m).msg = m
    BY <1>4 DEF Becomes, At, IInv, TypeOK
  <2>2. thread'[k].pc = pc /\ thread'[k].msg = m /\ \A j \in Tracker : j # k => thread'[j] = thread[j]
    BY <2>1
  <2>3. \A j \in Tracker : Hand(j)' = Hand(j)
    BY <1>4, <2>2 DEF Hand
  <2>4. \A j \in Tracker : Begun(j)' = Begun(j)
    BY <1>4, <2>3 DEF Begun, Settled
  <2>5. \A j \in Tracker : thread'[j].pc \in {"try", "send"} =>
          thread[j].pc \in {"try", "send"} /\ thread'[j].msg = thread[j].msg
    BY <1>4, <2>2
  <2> QED
    BY <1>1, <1>4, <2>4, <2>5, PlacesKept, InPlaceDef
<1>5. ASSUME NEW k \in Tracker, thread[k].pc \in {"try", "send"},
             NEW how \in {"answered", "unreadable", "dropped", "skipped", "ignored"}, Settle(k, how),
             (thread[k].pc = "send" /\ Processes(k)) \/ UNCHANGED processed
      PROVE  ProcessedInv'
  <2>1. /\ \A j \in Tracker : Begun(j)' = Begun(j)
        /\ thread'[k].pc = "idle" /\ \A j \in Tracker : j # k => thread'[j] = thread[j]
    BY <1>5, SettleBegun
  <2>2. processed \in [Tracker -> Seq(Message)]
    BY DEF IInv, TypeOK
  <2>3. \A j \in Tracker : j # k => processed'[j] = processed[j]
    BY <1>5, <2>2 DEF Processes
  <2>4. \A j \in Tracker : j # k => InPlace(j)'
    BY <1>1, <2>1, <2>3, PlacesKept
  <2>5. InPlace(k)'
    <3>1. CASE thread[k].pc = "send" /\ Processes(k)
      <4>1. processed'[k] = Append(processed[k], thread[k].msg)
        BY <2>2, <3>1 DEF Processes
      <4> QED
        BY <1>1, <2>1, <3>1, <4>1, PlaceProcessed
    <3>2. CASE UNCHANGED processed
      BY <1>1, <2>1, <3>2, PlacesKept
    <3> QED
      BY <1>5, <3>1, <3>2
  <2> QED
    BY <2>4, <2>5, InPlaceDef
<1>6. ASSUME NEW k \in Tracker, CheckSkip(k)
      PROVE  ProcessedInv'
  <2>1. thread[k].pc = "try" /\ UNCHANGED processed
    BY <1>6 DEF CheckSkip
  <2>2. CASE Settle(k, "skipped")
    BY <1>5, <2>1, <2>2
  <2>3. CASE Becomes(k, At("send", thread[k].msg)) /\ UNCHANGED settled
    BY <1>4, <2>1, <2>3
  <2> QED
    BY <1>6, <2>2, <2>3 DEF CheckSkip
<1>7. ASSUME NEW k \in Tracker, SendAnswered(k)
      PROVE  ProcessedInv'
  <2>1. thread[k].pc = "send" /\ (Processes(k) \/ UNCHANGED processed)
    BY <1>7 DEF SendAnswered
  <2>2. Settle(k, "answered") \/ Settle(k, "unreadable")
    BY <1>7 DEF SendAnswered
  <2> QED
    BY <1>5, <2>1, <2>2
<1>8. ASSUME NEW k \in Tracker, SendFails(k)
      PROVE  ProcessedInv'
  <2>1. thread[k].pc = "send" /\ (Processes(k) \/ UNCHANGED processed)
    BY <1>8 DEF SendFails
  <2>2. CASE Settle(k, "dropped")
    BY <1>5, <2>1, <2>2
  <2>3. CASE ~IsRealtime(thread[k].msg) /\ Becomes(k, At("try", thread[k].msg)) /\ UNCHANGED settled
    <3>1. CASE UNCHANGED processed
      BY <1>4, <2>1, <2>3, <3>1
    <3>2. CASE Processes(k)
      <4>1. /\ Hand(k)' = <<thread[k].msg>> /\ Hand(k) = <<thread[k].msg>>
            /\ \A j \in Tracker : j # k => Hand(j)' = Hand(j)
        BY <2>1, <2>3, HandAfter, HandTyped
      <4>2. \A j \in Tracker : Begun(j)' = Begun(j)
        BY <2>3, <4>1 DEF Begun, Settled
      <4>3. /\ thread'[k].msg = thread[k].msg /\ \A j \in Tracker : j # k => thread'[j] = thread[j]
        BY <2>3 DEF Becomes, At, IInv, TypeOK
      <4>4. /\ processed'[k] = Append(processed[k], thread[k].msg)
            /\ \A j \in Tracker : j # k => processed'[j] = processed[j]
        BY <3>2 DEF Processes, IInv, TypeOK
      <4>5. InPlace(k)'
        BY <1>1, <2>1, <2>3, <4>2, <4>3, <4>4, PlaceProcessed
      <4>6. \A j \in Tracker : j # k => InPlace(j)'
        BY <1>1, <4>2, <4>3, <4>4, PlacesKept
      <4> QED
        BY <4>5, <4>6, InPlaceDef
    <3> QED
      BY <2>1, <3>1, <3>2
  <2> QED
    BY <1>8, <2>2, <2>3 DEF SendFails
<1>9. ASSUME NEW k \in Tracker, ThreadStep(k)
      PROVE  ProcessedInv'
  <2>1. CASE Register(k)
    <3>1. thread[k].pc = "new" /\ Becomes(k, At("init", NoMessage)) /\ UNCHANGED <<settled, processed>>
      BY <2>1 DEF Register, history
    <3> QED
      BY <1>4, <3>1
  <2>2. CASE InitAnswered(k)
    <3>1. thread[k].pc = "init" /\ Becomes(k, At("idle", NoMessage)) /\ UNCHANGED <<settled, processed>>
      BY <2>2 DEF InitAnswered, Idle, history
    <3> QED
      BY <1>4, <3>1
  <2>3. CASE PopNothing(k)
    <3>1. thread[k].pc = "idle" /\ UNCHANGED <<settled, processed>>
      BY <2>3 DEF PopNothing, history
    <3>2. Becomes(k, At("exited", NoMessage)) \/ UNCHANGED thread
      BY <2>3 DEF PopNothing
    <3> QED
      BY <1>2, <1>4, <3>1, <3>2
  <2> QED
    BY <1>3, <1>6, <1>7, <1>8, <1>9, <2>1, <2>2, <2>3 DEF ThreadStep
<1> QED
  BY <1>2, <1>9 DEF Next, AddMessage, AddNext, SkipTapes, UpDown, Shutdown, vars, history

\* What a tracker processes, it processes in the order of the queue; a message comes
\* again only as a retry, before the next, and a real-time one never.
THEOREM ProcessedAsQueued == Spec => []InOrder
<1>1. Init => ProcessedInv
  <2> SUFFICES ASSUME Init PROVE ProcessedInv
    OBVIOUS
  <2>1. \A k \in Tracker : processed[k] = <<>> /\ thread[k].pc = "new"
    BY DEF Init, At
  <2>2. DOMAIN <<>> = {}
    OBVIOUS
  <2>3. \A k \in Tracker : InPlace(k)
    BY <2>1, <2>2 DEF InPlace
  <2> QED
    BY <2>3, InPlaceDef
<1>2. IInv /\ CallerOrder /\ ProcessedInv => InOrder
  <2> SUFFICES ASSUME IInv, ProcessedInv, NEW k \in Tracker
               PROVE  LET flow == Settled(k) \o Hand(k)
                          Place(i) == CHOOSE j \in DOMAIN flow : flow[j] = processed[k][i]
                      IN /\ \A i \in DOMAIN processed[k] : \E j \in DOMAIN flow : flow[j] = processed[k][i]
                         /\ \A i, j \in DOMAIN processed[k] : i < j =>
                              \/ Place(i) < Place(j)
                              \/ Place(i) = Place(j) /\ processed[k][i].stage \notin {"start", "stop"}
    BY DEF InOrder
  <2> DEFINE Place(i) == CHOOSE x \in DOMAIN Begun(k) : Begun(k)[x] = processed[k][i]
  <2>1. InPlace(k)
    BY InPlaceDef
  <2>2. \A i \in DOMAIN processed[k] : \E x \in DOMAIN Begun(k) : Begun(k)[x] = processed[k][i]
    BY <2>1 DEF InPlace
  <2>3. \A i \in DOMAIN processed[k] : Place(i) \in DOMAIN Begun(k) /\ Begun(k)[Place(i)] = processed[k][i]
    BY <2>2
  <2> HIDE DEF Place
  <2>4. \A i, j \in DOMAIN processed[k] : i < j =>
          \/ Place(i) < Place(j)
          \/ Place(i) = Place(j) /\ processed[k][i].stage \notin {"start", "stop"}
    BY <2>1, <2>3 DEF InPlace, IsRealtime
  <2> QED
    BY <2>2, <2>4 DEF Place, Begun
<1> QED
  BY <1>1, <1>2, NextProcessed, CallersKeepOrder, ReportingInvariant, PTL DEF Spec
=============================================================================
