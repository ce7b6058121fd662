--------------------------- MODULE EventStreaming ---------------------------
(***************************************************************************)
(* Live event streaming (EventStreaming.cpp, and StreamingSvc of           *)
(* MultiThreadedServer.cpp): every message that Reporting accepts is also  *)
(* put on the queue of each client that is listening, by whatever thread   *)
(* reports it, and a thread for each client sends what its queue holds.    *)
(*                                                                         *)
(* The registry's mutex is held while a message is handed round, session   *)
(* by session; a session's own mutex makes each handing one step.  A       *)
(* message is the number of its turn with the registry's mutex.  A client  *)
(* connects once; what it does is leave.                                   *)
(***************************************************************************)
EXTENDS Naturals, Sequences, FiniteSets

CONSTANTS
  Client,        \* connections to the event streaming server
  Reporter,      \* threads that report messages
  MaxSessions,   \* the 100 sessions of StreamingSvc
  QueueLimit,    \* the 10000 messages of EventStreamingSession::AddMessage
  MaxMessages    \* bound: messages reported

ASSUME StreamingAssumption ==
  /\ IsFiniteSet(Client) /\ MaxSessions \in Nat
  /\ QueueLimit \in Nat /\ MaxMessages \in Nat

VARIABLES
  sessions,   \* m_sessions
  queue,      \* m_messages of every session
  permits,    \* m_semaphore of every session
  thread,     \* what a client's thread is at
  inHand,     \* the message it is to send, none or one
  listening,  \* whether the client is still there
  adding,     \* the sessions a reporter has still to hand its message to, each with it
  reported,   \* how many messages were reported
  sent        \* history: what was sent to every client

vars == <<sessions, queue, permits, thread, inHand, listening, adding, reported, sent>>

Phases == {"away", "added", "waiting", "draining", "sending", "leaving", "closed"}

Init ==
  /\ sessions = {}
  /\ queue = [c \in Client |-> <<>>]
  /\ permits = [c \in Client |-> 1]
  /\ thread = [c \in Client |-> "away"]
  /\ inHand = [c \in Client |-> <<>>]
  /\ listening = [c \in Client |-> FALSE]
  /\ adding = [r \in Reporter |-> {}]
  /\ reported = 0
  /\ sent = [c \in Client |-> <<>>]

reporting == <<adding, reported>>
mailbox == <<queue, permits>>

Unlocked_Always == TRUE
\* Nobody has the mutex of the registry.
Unlocked == \A r \in Reporter : adding[r] = {}

GoesTo(c, phase) == thread' = [thread EXCEPT ![c] = phase]

----------------------------------------------------------------------------
(* Reporting a message: Reporting::AddMessage calls EventStreaming::AddMessage.  *)

AddMessage(r) ==
  /\ adding[r] = {} /\ Unlocked
  /\ reported < MaxMessages
  /\ reported' = reported + 1
  /\ adding' = [adding EXCEPT ![r] = sessions \X {reported + 1}]
  /\ UNCHANGED <<sessions, mailbox, thread, inHand, listening, sent>>

\* A queue of more than QueueLimit messages loses its oldest.
Queued(q, m) == Append(IF Len(q) > QueueLimit THEN Tail(q) ELSE q, m)

AddToSession_Unannounced(r, c, m) ==
  /\ <<c, m>> \in adding[r]
  /\ queue' = [queue EXCEPT ![c] = Queued(@, m)]
  /\ adding' = [adding EXCEPT ![r] = @ \ {<<c, m>>}]
  /\ UNCHANGED <<sessions, permits, thread, inHand, listening, reported, sent>>

\* EventStreamingSession::AddMessage.
AddToSession(r, c, m) ==
  /\ <<c, m>> \in adding[r]
  /\ queue' = [queue EXCEPT ![c] = Queued(@, m)]
  /\ permits' = [permits EXCEPT ![c] = @ + 1]
  /\ adding' = [adding EXCEPT ![r] = @ \ {<<c, m>>}]
  /\ UNCHANGED <<sessions, thread, inHand, listening, reported, sent>>

----------------------------------------------------------------------------
(* The thread of a client.                                                       *)

\* A request with a well-formed address: AddSession.
Connect(c) ==
  /\ thread[c] = "away" /\ Unlocked
  /\ sessions' = sessions \cup {c}
  /\ listening' = [listening EXCEPT ![c] = TRUE]
  /\ GoesTo(c, "added")
  /\ UNCHANGED <<mailbox, inHand, reporting, sent>>

CountSessions_OneMore(c) ==
  /\ thread[c] = "added" /\ Unlocked
  /\ GoesTo(c, IF Cardinality(sessions) > MaxSessions + 1 THEN "leaving" ELSE "waiting")
  /\ UNCHANGED <<sessions, mailbox, inHand, listening, reporting, sent>>

\* GetNumSessions, after the session was added: with too many it leaves again.
CountSessions(c) ==
  /\ thread[c] = "added" /\ Unlocked
  /\ GoesTo(c, IF Cardinality(sessions) > MaxSessions THEN "leaving" ELSE "waiting")
  /\ UNCHANGED <<sessions, mailbox, inHand, listening, reporting, sent>>

WaitForMessages(c) ==
  /\ thread[c] = "waiting" /\ permits[c] > 0
  /\ permits' = [permits EXCEPT ![c] = @ - 1]
  /\ GoesTo(c, "draining")
  /\ UNCHANGED <<sessions, queue, inHand, listening, reporting, sent>>

\* GetNumMessages and GetTapeMessage: nobody else takes messages in between.
GetTapeMessage(c) ==
  /\ thread[c] = "draining"
  /\ IF queue[c] = <<>>
     THEN GoesTo(c, "waiting") /\ UNCHANGED <<queue, inHand>>
     ELSE /\ inHand' = [inHand EXCEPT ![c] = <<Head(queue[c])>>]
          /\ queue' = [queue EXCEPT ![c] = Tail(@)]
          /\ GoesTo(c, "sending")
  /\ UNCHANGED <<sessions, permits, listening, reporting, sent>>

\* apr_socket_send, which may fail once the client has left.
Send(c) ==
  /\ thread[c] = "sending"
  /\ \/ sent' = [sent EXCEPT ![c] = @ \o inHand[c]] /\ GoesTo(c, "draining")
     \/ ~listening[c] /\ GoesTo(c, "leaving") /\ UNCHANGED sent
  /\ inHand' = [inHand EXCEPT ![c] = <<>>]
  /\ UNCHANGED <<sessions, mailbox, listening, reporting>>

\* RemoveSession; then the socket is closed.
RemoveSession(c) ==
  /\ thread[c] = "leaving" /\ Unlocked
  /\ sessions' = sessions \ {c}
  /\ listening' = [listening EXCEPT ![c] = FALSE]
  /\ GoesTo(c, "closed")
  /\ UNCHANGED <<mailbox, inHand, reporting, sent>>

Disconnect(c) ==
  /\ listening[c]
  /\ listening' = [listening EXCEPT ![c] = FALSE]
  /\ UNCHANGED <<sessions, mailbox, thread, inHand, reporting, sent>>

ClientStep(c) ==
  CountSessions(c) \/ WaitForMessages(c) \/ GetTapeMessage(c) \/ Send(c) \/ RemoveSession(c)

HandRound(r) == \E c \in Client, m \in 1 .. MaxMessages : AddToSession(r, c, m)

Next ==
  \/ \E r \in Reporter : AddMessage(r) \/ HandRound(r)
  \/ \E c \in Client : Connect(c) \/ ClientStep(c) \/ Disconnect(c)

Spec == Init /\ [][Next]_vars

\* The threads go on: a reporter that has begun, a client's thread that can.
FairSpec ==
  /\ Spec
  /\ \A r \in Reporter : WF_vars(HandRound(r))
  /\ \A c \in Client : WF_vars(ClientStep(c))

----------------------------------------------------------------------------
TypeOK ==
  /\ sessions \subseteq Client
  /\ queue \in [Client -> Seq(1 .. reported)]
  /\ permits \in [Client -> Nat]
  /\ thread \in [Client -> Phases]
  /\ inHand \in [Client -> {<<>>} \cup {<<m>> : m \in 1 .. reported}]
  /\ listening \in [Client -> BOOLEAN]
  /\ adding \in [Reporter -> SUBSET (Client \X (1 .. reported))]
  /\ reported \in 0 .. MaxMessages
  /\ sent \in [Client -> Seq(1 .. reported)]

Served == {c \in Client : thread[c] \in {"waiting", "draining", "sending"}}

\* Though a client is added before the sessions are counted, no more than the limit of
\* them are ever served at a time, however many connect together (StreamingSvc).
ServedWithinLimit == Served \subseteq sessions /\ Cardinality(Served) <= MaxSessions

Stream(c) == sent[c] \o inHand[c] \o queue[c]
Increasing(s) == \A i, j \in DOMAIN s : i < j => s[i] < s[j]

\* All clients hear the same story: what a client got, is being sent or has queued comes
\* in the one order in which the messages were reported, by any threads, none of it
\* twice, whatever its full queue dropped (AddMessage, GetTapeMessage).
SameStory == \A c \in Client : Increasing(Stream(c))

\* What is queued is sent or dropped until the queue is empty, or its session ends: no
\* client's thread sleeps beside its queue, whether messages came while it was counted,
\* while it drained the queue or while the queue was full (WaitForMessages, AddMessage).
QueuedIsSent == \A c \in Client : queue[c] # <<>> ~> queue[c] = <<>> \/ thread[c] = "closed"
=============================================================================
