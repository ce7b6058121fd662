------------------------------ MODULE Reporting ------------------------------
(***************************************************************************)
(* Reporting (Reporting.cpp, messages/TapeMsg.cpp, OrkClient.cpp): every   *)
(* tracker has a queue and a thread that sends its messages one by one,    *)
(* over and over until the tracker answers, unless the message is about a  *)
(* moment that has passed (real-time) or somebody asked to skip it.        *)
(*                                                                         *)
(* Trackers come and go: up says whether a tracker answers in time.  One   *)
(* that does not may still have processed the request.  Messages come from *)
(* any thread: capture threads, batch threads.  The queue is that of       *)
(* ThreadSafeQueue, its semaphore included; with one consumer the two      *)
(* halves of pop() are one step.  HTTPS connections are left out.          *)
(***************************************************************************)
EXTENDS Naturals, Sequences, FiniteSets

CONSTANTS
  Tracker,                 \* the trackers of the configuration
  Server,                  \* host names
  Host,                    \* the host name of every tracker
  Sender,                  \* the threads that call AddMessage
  Stage,                   \* the message stages to consider
  NoTracker, NoSender, NoServer,  \* NoServer is the empty host name
  QueueSize,               \* ReportingQueueSize
  EnableReporting, PauseRecordingOnRejectedStart, LookBackRecording,
  AllowAutomaticRecording, \* the configuration flags
  MayShutDown,             \* TRUE iff the daemon may stop
  MaxMessages, MaxSkips, MaxLost   \* bounds: messages, skips asked for, answers lost

ASSUME ReportingAssumption ==
  /\ IsFiniteSet(Tracker) /\ NoTracker \notin Tracker /\ NoSender \notin Sender
  /\ Host \in [Tracker -> Server] /\ NoServer \notin Server
  /\ Stage \subseteq {"start", "stop", "ready", "metadata", "none"}
  /\ QueueSize \in Nat /\ MaxMessages \in Nat /\ MaxSkips \in Nat /\ MaxLost \in Nat
  /\ EnableReporting \in BOOLEAN /\ PauseRecordingOnRejectedStart \in BOOLEAN
  /\ LookBackRecording \in BOOLEAN /\ AllowAutomaticRecording \in BOOLEAN
  /\ MayShutDown \in BOOLEAN

\* A message of a tape, numbered as they are added; one of a tape that the party
\* filter rejected has neither record id nor stage ("none").  Who added it is history.
Message == [n : 1..MaxMessages, stage : Stage, by : Sender]

IsValid(m) == m.stage # "none"

\* TapeMsg::IsRealtime.
IsRealtime(m) == m.stage \in {"start", "stop"}

VARIABLES
  registered,  \* s_reportingThreadsVector
  byHost,      \* s_reportingThreads: the first tracker that registered for a host
  queue,       \* m_messageQueue: the elements
  permits,     \* m_messageQueue: the semaphore
  skip,        \* m_numTapesToSkip
  thread,      \* what every tracker's thread is doing, with which message
  sender,      \* the message a thread is adding, and the place in the vector
  up,          \* whether a tracker answers
  stopping,    \* Daemon::IsStopping()
  added,       \* history: how many messages were added
  settled,     \* history: per tracker, messages it is done with and how
  processed,   \* history: per tracker, messages it processed, repetitions included
  orders,      \* history: per tracker, what its answers made the recorder do
  asked,       \* history: per tracker, how many skips it was asked for
  lost         \* history: answers lost

queues == <<queue, permits>>
history == <<added, settled, processed, orders, asked, lost>>
vars == <<registered, byHost, queues, skip, thread, sender, up, stopping, history>>

NoMessage == [n |-> 0, stage |-> "none", by |-> NoSender]
At(pc, m) == [pc |-> pc, msg |-> m]
Idle == At("idle", NoMessage)
NotAdding == [msg |-> NoMessage, at |-> 0]

Init ==
  /\ registered = <<>>
  /\ byHost = [h \in Server |-> NoTracker]
  /\ queue = [k \in Tracker |-> <<>>]
  /\ permits = [k \in Tracker |-> 0]
  /\ skip = [k \in Tracker |-> 0]
  /\ thread = [k \in Tracker |-> At("new", NoMessage)]
  /\ sender = [s \in Sender |-> NotAdding]
  /\ up \in [Tracker -> BOOLEAN]
  /\ stopping = FALSE
  /\ added = 0
  /\ settled = [k \in Tracker |-> <<>>]
  /\ processed = [k \in Tracker |-> <<>>]
  /\ orders = [k \in Tracker |-> <<>>]
  /\ asked = [k \in Tracker |-> 0]
  /\ lost = 0

-----------------------------------------------------------------------------
(* Adding messages.  A definition named X_Y is X with a plausible mistake Y  *)
(* in it: it takes no part in the specification, and serves to see that a    *)
(* property notices.                                                         *)

\* A call of AddMessage begins with a message of any stage.
AddMessage(s, stage) ==
  /\ sender[s] = NotAdding
  /\ added < MaxMessages
  /\ added' = added + 1
  /\ sender' = [sender EXCEPT ![s] = [msg |-> [n |-> added + 1, stage |-> stage, by |-> s], at |-> 1]]
  /\ UNCHANGED <<registered, byHost, queues, skip, thread, up, stopping, settled, processed, orders, asked, lost>>

HasRoom(k) == Len(queue[k]) < QueueSize

Push_NoRelease(k, m) ==
  /\ queue' = [queue EXCEPT ![k] = IF HasRoom(k) THEN Append(@, m) ELSE @]
  /\ permits' = [permits EXCEPT ![k] = IF queue[k] = <<>> THEN @ + 1 ELSE @]

\* m_messageQueue.push(): refused or not, the semaphore is released.
Push(k, m) ==
  /\ queue' = [queue EXCEPT ![k] = IF HasRoom(k) THEN Append(@, m) ELSE @]
  /\ permits' = [permits EXCEPT ![k] = @ + 1]

AddNext_RetriesRefused(s) ==
  /\ sender[s] # NotAdding
  /\ \/ /\ sender[s].at <= Len(registered)
        /\ Push(registered[sender[s].at], sender[s].msg)
        /\ sender' = [sender EXCEPT ![s].at = IF \A k \in Tracker : HasRoom(k) THEN @ + 1 ELSE @]
     \/ /\ sender[s].at > Len(registered)
        /\ sender' = [sender EXCEPT ![s] = NotAdding]
        /\ UNCHANGED queues
  /\ UNCHANGED <<registered, byHost, skip, thread, up, stopping, history>>

\* A copy for the next tracker; the vector is read without a lock.
AddNext(s) ==
  /\ sender[s] # NotAdding
  /\ \/ /\ sender[s].at <= Len(registered)
        /\ Push(registered[sender[s].at], sender[s].msg)
        /\ sender' = [sender EXCEPT ![s].at = @ + 1]
     \/ /\ sender[s].at > Len(registered)
        /\ sender' = [sender EXCEPT ![s] = NotAdding]
        /\ UNCHANGED queues
  /\ UNCHANGED <<registered, byHost, skip, thread, up, stopping, history>>

-----------------------------------------------------------------------------
(* Skipping *)

\* Whom a request to skip is for: the tracker found under the host name, or,
\* without a name, the only one.
SkipTarget(h) ==
  IF h # NoServer THEN {byHost[h]} \ {NoTracker}
  ELSE {k \in Tracker : {byHost[g] : g \in Server} \ {NoTracker} = {k}}

\* ReportingSkipTapeMsg::Process calls SkipTapes with a number of 1.
SkipTapes(h) ==
  /\ \E k \in SkipTarget(h) :
       /\ asked[k] < MaxSkips
       /\ skip' = [skip EXCEPT ![k] = @ + 1]
       /\ asked' = [asked EXCEPT ![k] = @ + 1]
  /\ UNCHANGED <<registered, byHost, queues, thread, sender, up, stopping, added, settled, processed, orders, lost>>

-----------------------------------------------------------------------------
(* The thread of tracker k *)

Becomes(k, st) == thread' = [thread EXCEPT ![k] = st]

\* It is done with its message, for the reason given.
Settle(k, how) ==
  /\ settled' = [settled EXCEPT ![k] = Append(@, [msg |-> thread[k].msg, how |-> how])]
  /\ Becomes(k, Idle)

\* ReportingThreadEntryPoint: insert() keeps the tracker first registered for a host.
Register(k) ==
  /\ thread[k].pc = "new"
  /\ Becomes(k, At("init", NoMessage))
  /\ registered' = Append(registered, k)
  /\ byHost' = [byHost EXCEPT ![Host[k]] = IF @ = NoTracker THEN k ELSE @]
  /\ UNCHANGED <<queues, skip, sender, up, stopping, history>>

\* The initial message is repeated until it is answered.
InitAnswered(k) ==
  /\ thread[k].pc = "init" /\ up[k]
  /\ Becomes(k, Idle)
  /\ UNCHANGED <<registered, byHost, queues, skip, sender, up, stopping, history>>

\* m_messageQueue.pop() returns; a message that is not valid is ignored, and so
\* is every message if reporting is disabled.
Pop(k) ==
  LET m == Head(queue[k]) IN
  /\ thread[k].pc = "idle" /\ permits[k] > 0 /\ queue[k] # <<>>
  /\ permits' = [permits EXCEPT ![k] = @ - 1]
  /\ queue' = [queue EXCEPT ![k] = Tail(@)]
  /\ IF IsValid(m) /\ EnableReporting
     THEN Becomes(k, At("try", m)) /\ UNCHANGED settled
     ELSE /\ settled' = [settled EXCEPT ![k] = Append(@, [msg |-> m, how |-> "ignored"])]
          /\ UNCHANGED thread
  /\ UNCHANGED <<registered, byHost, skip, sender, up, stopping, added, processed, orders, asked, lost>>

\* It returns nothing, for the permit of a refused push: the only way to the exit.
PopNothing(k) ==
  /\ thread[k].pc = "idle" /\ permits[k] > 0 /\ queue[k] = <<>>
  /\ permits' = [permits EXCEPT ![k] = @ - 1]
  /\ IF stopping THEN Becomes(k, At("exited", NoMessage)) ELSE UNCHANGED thread
  /\ UNCHANGED <<registered, byHost, queue, skip, sender, up, stopping, history>>

CheckSkip_Peeks(k) ==
  /\ thread[k].pc = "try"
  /\ IF skip[k] > 0
     THEN Settle(k, "skipped") /\ UNCHANGED skip
     ELSE Becomes(k, At("send", thread[k].msg)) /\ UNCHANGED <<skip, settled>>
  /\ UNCHANGED <<registered, byHost, queues, sender, up, stopping, added, processed, orders, asked, lost>>

\* IsSkip(), before every attempt.
CheckSkip(k) ==
  /\ thread[k].pc = "try"
  /\ IF skip[k] > 0
     THEN Settle(k, "skipped") /\ skip' = [skip EXCEPT ![k] = @ - 1]
     ELSE Becomes(k, At("send", thread[k].msg)) /\ UNCHANGED <<skip, settled>>
  /\ UNCHANGED <<registered, byHost, queues, sender, up, stopping, added, processed, orders, asked, lost>>

\* TapeMsg::HandleResponse: what the answer makes the recorder do.
Response(m, delete) ==
  IF delete /\ m.stage = "ready" THEN "delete"
  ELSE IF delete /\ m.stage = "start" /\ PauseRecordingOnRejectedStart THEN "pause"
  ELSE IF ~LookBackRecording /\ AllowAutomaticRecording /\ m.stage = "start" THEN "capture"
  ELSE "none"

HandleResponse(k, delete) ==
  orders' = [orders EXCEPT ![k] =
    Append(@, [n |-> thread[k].msg.n, what |-> Response(thread[k].msg, delete), delete |-> delete])]

Processes(k) == processed' = [processed EXCEPT ![k] = Append(@, thread[k].msg)]

\* The tracker answers, or calls the request a bad one: both count as a success.
\* Reading an answer that is cut short in a truth value throws: the message is left.
SendAnswered(k) ==
  /\ thread[k].pc = "send" /\ up[k]
  /\ \/ Processes(k) /\ (\E delete \in BOOLEAN : HandleResponse(k, delete)) /\ Settle(k, "answered")
     \/ HandleResponse(k, FALSE) /\ Settle(k, "answered") /\ UNCHANGED processed
     \/ Processes(k) /\ Settle(k, "unreadable") /\ UNCHANGED orders
  /\ UNCHANGED <<registered, byHost, queues, skip, sender, up, stopping, added, asked, lost>>

SendFails_Requeues(k) ==
  /\ thread[k].pc = "send" /\ ~up[k]
  /\ \/ Processes(k) /\ lost < MaxLost /\ lost' = lost + 1
     \/ UNCHANGED <<processed, lost>>
  /\ \/ IsRealtime(thread[k].msg) /\ Settle(k, "dropped") /\ UNCHANGED queues
     \/ /\ ~IsRealtime(thread[k].msg) /\ Becomes(k, Idle) /\ UNCHANGED settled
        /\ queue' = [queue EXCEPT ![k] = Append(@, thread[k].msg)]
        /\ permits' = [permits EXCEPT ![k] = @ + 1]
  /\ UNCHANGED <<registered, byHost, skip, sender, up, stopping, added, orders, asked>>

SendFails_Handles(k) ==
  /\ thread[k].pc = "send" /\ ~up[k]
  /\ \/ Processes(k) /\ lost < MaxLost /\ lost' = lost + 1
     \/ UNCHANGED <<processed, lost>>
  /\ HandleResponse(k, FALSE)
  /\ \/ IsRealtime(thread[k].msg) /\ Settle(k, "dropped")
     \/ ~IsRealtime(thread[k].msg) /\ Becomes(k, At("try", thread[k].msg)) /\ UNCHANGED settled
  /\ UNCHANGED <<registered, byHost, queues, skip, sender, up, stopping, added, asked>>

\* No answer, or none in time: a real-time message is dropped, others are tried again.
SendFails(k) ==
  /\ thread[k].pc = "send" /\ ~up[k]
  /\ \/ Processes(k) /\ lost < MaxLost /\ lost' = lost + 1
     \/ UNCHANGED <<processed, lost>>
  /\ \/ IsRealtime(thread[k].msg) /\ Settle(k, "dropped")
     \/ ~IsRealtime(thread[k].msg) /\ Becomes(k, At("try", thread[k].msg)) /\ UNCHANGED settled
  /\ UNCHANGED <<registered, byHost, queues, skip, sender, up, stopping, added, orders, asked>>

-----------------------------------------------------------------------------
\* A tracker goes up or down, and the daemon is told to stop.
UpDown(k) ==
  /\ up' = [up EXCEPT ![k] = ~@]
  /\ UNCHANGED <<registered, byHost, queues, skip, thread, sender, stopping, history>>

Shutdown ==
  /\ MayShutDown /\ ~stopping
  /\ stopping' = TRUE
  /\ UNCHANGED <<registered, byHost, queues, skip, thread, sender, up, history>>

ThreadStep(k) ==
  \/ Register(k) \/ InitAnswered(k) \/ Pop(k) \/ PopNothing(k)
  \/ CheckSkip(k) \/ SendAnswered(k) \/ SendFails(k)

Next ==
  \/ \E s \in Sender, stage \in Stage : AddMessage(s, stage)
  \/ \E s \in Sender : AddNext(s)
  \/ \E h \in Server \cup {NoServer} : SkipTapes(h)
  \/ \E k \in Tracker : ThreadStep(k) \/ UpDown(k)
  \/ Shutdown

Spec == Init /\ [][Next]_vars

\* Every thread of a tracker goes on, and so does a call of AddMessage that has
\* begun; nothing is assumed of trackers, plugins or requests to skip.
FairSpec ==
  /\ Spec
  /\ \A k \in Tracker : WF_vars(ThreadStep(k))
  /\ \A s \in Sender : WF_vars(AddNext(s))

-----------------------------------------------------------------------------
ThreadState == [pc : {"new", "init", "idle", "try", "send", "exited"}, msg : Message \cup {NoMessage}]
Outcome == [msg : Message, how : {"answered", "unreadable", "dropped", "skipped", "ignored"}]
Order == [n : 1..MaxMessages, what : {"delete", "pause", "capture", "none"}, delete : BOOLEAN]

\* The type invariant: queues, threads and histories keep their shape, and no
\* queue exceeds its size.
TypeOK ==
  /\ registered \in Seq(Tracker)
  /\ byHost \in [Server -> Tracker \cup {NoTracker}]
  /\ queue \in [Tracker -> Seq(Message)]
  /\ \A k \in Tracker : Len(queue[k]) <= QueueSize
  /\ permits \in [Tracker -> Nat] /\ skip \in [Tracker -> Nat] /\ asked \in [Tracker -> Nat]
  /\ thread \in [Tracker -> ThreadState]
  /\ sender \in [Sender -> [msg : Message \cup {NoMessage}, at : Nat]]
  /\ up \in [Tracker -> BOOLEAN] /\ stopping \in BOOLEAN
  /\ added \in 0..MaxMessages /\ lost \in 0..MaxLost
  /\ settled \in [Tracker -> Seq(Outcome)]
  /\ processed \in [Tracker -> Seq(Message)]
  /\ orders \in [Tracker -> Seq(Order)]

\* The message a tracker's thread has taken and is not done with.
Hand(k) == IF thread[k].pc \in {"try", "send"} THEN <<thread[k].msg>> ELSE <<>>

\* The messages a tracker is done with, in order, those in hand and in the queue.
Settled(k) == [i \in DOMAIN settled[k] |-> settled[k][i].msg]

\* The tracker's thread never sleeps beside a message: the semaphore of its queue
\* counts at least its messages, whatever was refused (ThreadSafeQueue::push,
\* Reporting::AddMessage).
ThreadAwake == \A k \in Tracker : Len(queue[k]) <= permits[k]

\* A tracker processes the messages in the order in which they entered its queue.
\* One is repeated only as a retry, before any later one, and never if it is
\* real-time (ReportingThread::Run).
InOrder ==
  \A k \in Tracker :
    LET flow == Settled(k) \o Hand(k)
        Place(i) == CHOOSE j \in DOMAIN flow : flow[j] = processed[k][i]
    IN /\ \A i \in DOMAIN processed[k] : \E j \in DOMAIN flow : flow[j] = processed[k][i]
       /\ \A i, j \in DOMAIN processed[k] : i < j =>
            \/ Place(i) < Place(j)
            \/ Place(i) = Place(j) /\ processed[k][i].stage \notin {"start", "stop"}

\* Whatever thread a message comes from, every tracker gets one copy at most, and
\* the messages of one thread in the order it added them, though AddMessage
\* holds no lock while it goes from tracker to tracker.
CallerOrder ==
  \A k \in Tracker :
    LET flow == Settled(k) \o Hand(k) \o queue[k] IN
    \A i, j \in DOMAIN flow :
      /\ i # j => flow[i].n # flow[j].n
      /\ i < j /\ flow[i].by = flow[j].by => flow[i].n < flow[j].n

\* The recorder acts on one answer per message at most, and in their order,
\* however often a message is sent (TapeMsg::HandleResponse).
OneAnswerActedOn ==
  \A k \in Tracker :
    /\ \A i, j \in DOMAIN orders[k] : i # j => orders[k][i].n # orders[k][j].n
    /\ Len(orders[k]) = Cardinality({i \in DOMAIN settled[k] : settled[k][i].how = "answered"})

\* A message that lasts is only given up unanswered when somebody asked for a skip,
\* and every skip asked for costs one message at most (SkipTapes, IsSkip).
SkipsAccounted ==
  \A k \in Tracker :
    /\ asked[k] = skip[k] + Cardinality({i \in DOMAIN settled[k] : settled[k][i].how = "skipped"})
    /\ \A i \in DOMAIN settled[k] :
         settled[k][i].how = "dropped" => settled[k][i].msg.stage \in {"start", "stop"}

\* From AddMessage to the day it is settled, a message is in one first-in
\* first-out queue per tracker: none is forgotten, overtaken or settled twice.
Pipe(k) == INSTANCE BlockingFifo WITH
  Element <- Message, fifo <- Hand(k) \o queue[k], taken <- Settled(k)
ImplementsFifo ==
  /\ \A k \in Tracker : Pipe(k)!FifoInit
  /\ [][\A k \in Tracker : [Pipe(k)!FifoNext]_(Pipe(k)!fifoVars)]_vars

\* A tracker that is up from some time on gets done with every message that was
\* queued for it, unless the daemon stops (the retry loop of ReportingThread::Run).
EveryMessageSettled ==
  \A k \in Tracker : <>[]up[k] =>
    \A n \in 1..MaxMessages :
      (\E i \in DOMAIN queue[k] : queue[k][i].n = n) ~>
        (stopping \/ \E i \in DOMAIN settled[k] : settled[k][i].msg.n = n)

=============================================================================
