------------------------ MODULE EventStreamingProofs ------------------------
(***************************************************************************)
(* For any number of clients, reporters and messages and any limits: the   *)
(* types, the limit of clients served, and the one order of the messages.  *)
(* A stream is taken apart into what was sent, is in hand and is queued,   *)
(* and Below says that all of one part was reported before the other.      *)
(***************************************************************************)
EXTENDS EventStreaming, FiniteSetTheorems, TLAPS

Below(s, t) == \A i \in DOMAIN s, j \in DOMAIN t : s[i] < t[j]
OlderThan(s, m) == \A i \in DOMAIN s : s[i] < m

\* What has to hold of one client's stream.
Ordered(c) ==
  /\ Increasing(sent[c]) /\ Increasing(queue[c])
  /\ Below(sent[c], inHand[c]) /\ Below(sent[c], queue[c]) /\ Below(inHand[c], queue[c])

\* Only who has the mutex of the registry still hands a message round, the latest one.
OneHandsRound ==
  /\ \A r, s \in Reporter : adding[r] # {} /\ adding[s] # {} => r = s
  /\ \A r \in Reporter : \A d \in adding[r] : d[2] = reported

\* A client that is due a message has only older ones.
DueIsNewest ==
  \A r \in Reporter : \A d \in adding[r] :
    /\ OlderThan(sent[d[1]], reported)
    /\ OlderThan(inHand[d[1]], reported)
    /\ OlderThan(queue[d[1]], reported)

InOrder == (\A c \in Client : Ordered(c)) /\ OneHandsRound /\ DueIsNewest

Connected == {c \in Client : thread[c] \notin {"away", "closed"}}
Admitted ==
  /\ Connected \subseteq sessions
  /\ Cardinality(Served) <= MaxSessions

----------------------------------------------------------------------------
\* The parts of a stream that are in order make a stream in order (SameStory).
LEMMA StreamOfParts ==
  ASSUME NEW s \in Seq(Nat), NEW h \in Seq(Nat), NEW q \in Seq(Nat), Len(h) <= 1,
         Increasing(s), Increasing(q), Below(s, h), Below(s, q), Below(h, q)
  PROVE  Increasing(s \o h \o q)
<1>. DEFINE t == s \o h \o q
<1>1. /\ t \in Seq(Nat) /\ Len(t) = Len(s) + Len(h) + Len(q)
      /\ \A i \in 1 .. Len(t) :
           t[i] = IF i <= Len(s) THEN s[i]
                  ELSE IF i <= Len(s) + Len(h) THEN h[i - Len(s)] ELSE q[i - Len(s) - Len(h)]
  OBVIOUS
<1>. HIDE DEF t
<1>2. SUFFICES ASSUME NEW i \in 1 .. Len(t), NEW j \in 1 .. Len(t), i < j
               PROVE  t[i] < t[j]
  <2>1. DOMAIN t = 1 .. Len(t)
    BY <1>1
  <2>. QED BY <2>1 DEF Increasing, t
<1>3. /\ Len(s) \in Nat /\ Len(h) \in Nat /\ Len(q) \in Nat
      /\ DOMAIN s = 1 .. Len(s) /\ DOMAIN h = 1 .. Len(h) /\ DOMAIN q = 1 .. Len(q)
  OBVIOUS
<1>4. CASE j <= Len(s)
  <2>1. i \in DOMAIN s /\ j \in DOMAIN s BY <1>4, <1>2, <1>3
  <2>. QED BY <2>1, <1>1, <1>2, <1>4 DEF Increasing
<1>5. CASE i <= Len(s) /\ Len(s) < j
  <2>1. CASE j <= Len(s) + Len(h)
    <3>1. i \in DOMAIN s /\ j - Len(s) \in DOMAIN h BY <1>5, <2>1, <1>2, <1>3
    <3>. QED BY <3>1, <2>1, <1>1, <1>2, <1>5 DEF Below
  <2>2. CASE ~(j <= Len(s) + Len(h))
    <3>1. i \in DOMAIN s /\ j - Len(s) - Len(h) \in DOMAIN q BY <1>5, <2>2, <1>1, <1>2, <1>3
    <3>. QED BY <3>1, <2>2, <1>1, <1>2, <1>5 DEF Below
  <2>. QED BY <2>1, <2>2
<1>6. CASE Len(s) < i /\ i <= Len(s) + Len(h)
  <2>1. ~(j <= Len(s) + Len(h)) /\ i - Len(s) \in 1 .. Len(h)
    BY <1>6, <1>2, <1>3
  <2>2. j - Len(s) - Len(h) \in 1 .. Len(q)
    BY <2>1, <1>1, <1>2, <1>3
  <2>3. h[i - Len(s)] < q[j - Len(s) - Len(h)]
    BY <2>1, <2>2, <1>3 DEF Below
  <2>4. t[i] = h[i - Len(s)] /\ t[j] = q[j - Len(s) - Len(h)]
    BY <2>1, <1>1, <1>2, <1>3, <1>6
  <2>. QED BY <2>3, <2>4
<1>7. CASE Len(s) + Len(h) < i
  <2>1. i - Len(s) - Len(h) \in 1 .. Len(q) /\ j - Len(s) - Len(h) \in 1 .. Len(q)
    BY <1>7, <1>1, <1>2, <1>3
  <2>2. q[i - Len(s) - Len(h)] < q[j - Len(s) - Len(h)]
    <3>1. i - Len(s) - Len(h) < j - Len(s) - Len(h) BY <1>1, <1>2, <1>3
    <3>. QED BY <2>1, <3>1, <1>3 DEF Increasing
  <2>3. t[i] = q[i - Len(s) - Len(h)] /\ t[j] = q[j - Len(s) - Len(h)]
    BY <1>1, <1>2, <1>3, <1>7
  <2>. QED BY <2>2, <2>3
<1>. QED BY <1>2, <1>3, <1>4, <1>5, <1>6, <1>7

\* The oldest message dropped or taken (GetTapeMessage, AddMessage of a full queue).
LEMMA WithoutOldest ==
  ASSUME NEW q \in Seq(Nat), q # <<>>, Increasing(q)
  PROVE  /\ Tail(q) \in Seq(Nat) /\ Increasing(Tail(q)) /\ Below(<<Head(q)>>, Tail(q))
         /\ \A s \in Seq(Nat) : Below(s, q) => Below(s, <<Head(q)>>) /\ Below(s, Tail(q))
         /\ \A m \in Nat : OlderThan(q, m) => OlderThan(<<Head(q)>>, m) /\ OlderThan(Tail(q), m)
<1>1. /\ Tail(q) \in Seq(Nat) /\ Len(Tail(q)) = Len(q) - 1 /\ Len(q) \in Nat \ {0}
      /\ \A i \in DOMAIN Tail(q) : i + 1 \in DOMAIN q /\ Tail(q)[i] = q[i + 1]
      /\ Head(q) = q[1] /\ 1 \in DOMAIN q
  OBVIOUS
<1>2. DOMAIN Tail(q) \subseteq Nat /\ \A i \in DOMAIN Tail(q) : 1 < i + 1
  BY <1>1
<1>3. Increasing(Tail(q))
  BY <1>1, <1>2 DEF Increasing
<1>4. Below(<<Head(q)>>, Tail(q))
  BY <1>1, <1>2 DEF Increasing, Below
<1>5. ASSUME NEW s \in Seq(Nat), Below(s, q) PROVE Below(s, <<Head(q)>>) /\ Below(s, Tail(q))
  BY <1>5, <1>1 DEF Below
<1>6. ASSUME NEW m \in Nat, OlderThan(q, m)
      PROVE  OlderThan(<<Head(q)>>, m) /\ OlderThan(Tail(q), m)
  BY <1>6, <1>1 DEF OlderThan
<1>. QED BY <1>1, <1>3, <1>4, <1>5, <1>6

\* A newer message at the end (AddMessage).
LEMMA NewestLast ==
  ASSUME NEW q \in Seq(Nat), NEW m \in Nat, Increasing(q), OlderThan(q, m)
  PROVE  /\ Append(q, m) \in Seq(Nat) /\ Increasing(Append(q, m))
         /\ \A s \in Seq(Nat) : Below(s, q) /\ OlderThan(s, m) => Below(s, Append(q, m))
<1>. DEFINE p == Append(q, m)
<1>0. /\ p \in Seq(Nat) /\ Len(q) \in Nat /\ DOMAIN q = 1 .. Len(q)
      /\ DOMAIN p = 1 .. Len(q) + 1
      /\ \A i \in 1 .. Len(q) + 1 : p[i] = IF i <= Len(q) THEN q[i] ELSE m
  OBVIOUS
<1>. HIDE DEF p
<1>1. /\ p \in Seq(Nat)
      /\ \A i \in DOMAIN p :
           (i \in DOMAIN q /\ p[i] = q[i]) \/ (i = Len(q) + 1 /\ p[i] = m)
  BY <1>0
<1>2. \A i \in DOMAIN q : i < Len(q) + 1
  OBVIOUS
<1>3. Increasing(p)
  <2>. SUFFICES ASSUME NEW i \in DOMAIN p, NEW j \in DOMAIN p, i < j
                PROVE  p[i] < p[j]
    BY DEF Increasing
  <2>1. i \in DOMAIN q /\ p[i] = q[i]
    BY <1>1, <1>2
  <2>. QED BY <2>1, <1>1 DEF Increasing, OlderThan
<1>4. ASSUME NEW s \in Seq(Nat), Below(s, q), OlderThan(s, m) PROVE Below(s, p)
  BY <1>4, <1>1 DEF Below, OlderThan
<1>. QED BY <1>1, <1>3, <1>4 DEF p

\* What a session's AddMessage makes of its queue.
LEMMA QueuedInOrder ==
  ASSUME NEW q \in Seq(Nat), NEW m \in Nat, Increasing(q), OlderThan(q, m)
  PROVE  /\ Queued(q, m) \in Seq(Nat) /\ Increasing(Queued(q, m))
         /\ \A s \in Seq(Nat) : Below(s, q) /\ OlderThan(s, m) => Below(s, Queued(q, m))
<1>1. CASE Len(q) > QueueLimit
  <2>1. q # <<>> BY <1>1, StreamingAssumption
  <2>2. Tail(q) \in Seq(Nat) /\ Increasing(Tail(q)) /\ OlderThan(Tail(q), m)
    BY <2>1, WithoutOldest
  <2>3. \A s \in Seq(Nat) : Below(s, q) => Below(s, Tail(q))
    BY <2>1, WithoutOldest
  <2>4. Queued(q, m) = Append(Tail(q), m)
    BY <1>1 DEF Queued
  <2>. QED BY <2>2, <2>3, <2>4, NewestLast
<1>2. CASE ~(Len(q) > QueueLimit)
  <2>1. Queued(q, m) = Append(q, m)
    BY <1>2 DEF Queued
  <2>. QED BY <2>1, NewestLast
<1>. QED BY <1>1, <1>2

\* What is sent is taken from in front of the queue (Send).
LEMMA SentInOrder ==
  ASSUME NEW s \in Seq(Nat), NEW h \in Seq(Nat), NEW q \in Seq(Nat), Len(h) <= 1,
         Increasing(s), Below(s, h), Below(s, q), Below(h, q)
  PROVE  /\ s \o h \in Seq(Nat) /\ Increasing(s \o h) /\ Below(s \o h, q)
         /\ \A m \in Nat : OlderThan(s, m) /\ OlderThan(h, m) => OlderThan(s \o h, m)
<1>1. Increasing(s \o h \o <<>>)
  BY StreamOfParts, <<>> \in Seq(Nat) DEF Increasing, Below
<1>2. s \o h \o <<>> = s \o h /\ s \o h \in Seq(Nat)
  OBVIOUS
<1>. DEFINE p == s \o h
<1>0. /\ DOMAIN p = 1 .. Len(s) + Len(h) /\ Len(s) \in Nat /\ Len(h) \in Nat
      /\ DOMAIN s = 1 .. Len(s) /\ DOMAIN h = 1 .. Len(h)
      /\ \A i \in 1 .. Len(s) + Len(h) :
           p[i] = IF i <= Len(s) THEN s[i] ELSE h[i - Len(s)]
  OBVIOUS
<1>. HIDE DEF p
<1>3. \A i \in DOMAIN p :
        (i \in DOMAIN s /\ p[i] = s[i]) \/ (i - Len(s) \in DOMAIN h /\ p[i] = h[i - Len(s)])
  BY <1>0
<1>4. Below(p, q)
  BY <1>3 DEF Below
<1>5. ASSUME NEW m \in Nat, OlderThan(s, m), OlderThan(h, m) PROVE OlderThan(p, m)
  BY <1>5, <1>3 DEF OlderThan
<1>. QED BY <1>1, <1>2, <1>4, <1>5 DEF p

----------------------------------------------------------------------------
\* The types of all states (every handler of a reporter's and of a client's thread).
THEOREM TypeCorrect == Spec => []TypeOK
<1>1. Init => TypeOK
  BY StreamingAssumption DEF Init, TypeOK, Phases
<1>2. TypeOK /\ [Next]_vars => TypeOK'
  <2>. SUFFICES ASSUME TypeOK, [Next]_vars PROVE TypeOK'
    OBVIOUS
  <2>. USE DEF TypeOK, Phases, GoesTo
  <2>1. ASSUME NEW r \in Reporter, AddMessage(r) PROVE TypeOK'
    <3>1. reported \in Nat /\ reported' = reported + 1 /\ reported' \in 0 .. MaxMessages
          /\ 1 .. reported \subseteq 1 .. reported'
      BY <2>1, StreamingAssumption DEF AddMessage
    <3>2. queue' \in [Client -> Seq(1 .. reported')] /\ sent' \in [Client -> Seq(1 .. reported')]
      BY <2>1, <3>1 DEF AddMessage, mailbox
    <3>3. inHand' \in [Client -> {<<>>} \cup {<<m>> : m \in 1 .. reported'}]
      <4>1. {<<m>> : m \in 1 .. reported} \subseteq {<<m>> : m \in 1 .. reported'} BY <3>1
      <4>. QED BY <2>1, <4>1 DEF AddMessage
    <3>4. adding' \in [Reporter -> SUBSET (Client \X (1 .. reported'))]
      <4>1. Client \X (1 .. reported) \subseteq Client \X (1 .. reported') BY <3>1
      <4>2. sessions \X {reported + 1} \subseteq Client \X (1 .. reported') BY <3>1
      <4>. QED BY <2>1, <4>1, <4>2 DEF AddMessage
    <3>. QED BY <2>1, <3>1, <3>2, <3>3, <3>4 DEF AddMessage, mailbox
  <2>2. ASSUME NEW r \in Reporter, NEW c \in Client, NEW m \in 1 .. MaxMessages, AddToSession(r, c, m)
        PROVE  TypeOK'
    <3>1. m \in 1 .. reported
      BY <2>2 DEF AddToSession
    <3>2. Queued(queue[c], m) \in Seq(1 .. reported)
      <4>1. queue[c] \in Seq(1 .. reported) OBVIOUS
      <4>2. Len(queue[c]) > QueueLimit => queue[c] # <<>> BY StreamingAssumption
      <4>3. queue[c] # <<>> => Tail(queue[c]) \in Seq(1 .. reported) BY <4>1
      <4>4. \A q \in Seq(1 .. reported) : Append(q, m) \in Seq(1 .. reported) BY <3>1
      <4>5. CASE Len(queue[c]) > QueueLimit
        <5>1. Queued(queue[c], m) = Append(Tail(queue[c]), m) BY <4>5 DEF Queued
        <5>. QED BY <5>1, <4>2, <4>3, <4>4, <4>5
      <4>6. CASE ~(Len(queue[c]) > QueueLimit)
        <5>1. Queued(queue[c], m) = Append(queue[c], m) BY <4>6 DEF Queued
        <5>. QED BY <5>1, <4>1, <4>4
      <4>. QED BY <4>5, <4>6
    <3>3. queue' \in [Client -> Seq(1 .. reported')]
      BY <2>2, <3>2 DEF AddToSession
    <3>4. adding' \in [Reporter -> SUBSET (Client \X (1 .. reported'))]
      BY <2>2 DEF AddToSession
    <3>. QED BY <2>2, <3>3, <3>4 DEF AddToSession
  <2>3. ASSUME NEW c \in Client, Connect(c) PROVE TypeOK'
    BY <2>3 DEF Connect, mailbox, reporting
  <2>4. ASSUME NEW c \in Client, CountSessions(c) PROVE TypeOK'
    BY <2>4 DEF CountSessions, mailbox, reporting
  <2>5. ASSUME NEW c \in Client, WaitForMessages(c) PROVE TypeOK'
    BY <2>5 DEF WaitForMessages, reporting
  <2>6. ASSUME NEW c \in Client, GetTapeMessage(c) PROVE TypeOK'
    <3>1. CASE queue[c] = <<>>
      BY <2>6, <3>1 DEF GetTapeMessage, reporting
    <3>2. CASE queue[c] # <<>>
      <4>1. Head(queue[c]) \in 1 .. reported /\ Tail(queue[c]) \in Seq(1 .. reported)
        BY <3>2
      <4>2. <<Head(queue[c])>> \in {<<m>> : m \in 1 .. reported}
        BY <4>1
      <4>3. /\ inHand' = [inHand EXCEPT ![c] = <<Head(queue[c])>>]
            /\ queue' = [queue EXCEPT ![c] = Tail(queue[c])]
            /\ thread' = [thread EXCEPT ![c] = "sending"]
            /\ UNCHANGED <<sessions, permits, listening, adding, reported, sent>>
        BY <2>6, <3>2 DEF GetTapeMessage, reporting
      <4>4. inHand' \in [Client -> {<<>>} \cup {<<m>> : m \in 1 .. reported'}]
        BY <4>2, <4>3
      <4>5. queue' \in [Client -> Seq(1 .. reported')]
        BY <4>1, <4>3
      <4>. QED BY <4>3, <4>4, <4>5
    <3>. QED BY <3>1, <3>2
  <2>7. ASSUME NEW c \in Client, Send(c) PROVE TypeOK'
    <3>1. inHand[c] \in Seq(1 .. reported)
      <4>1. ASSUME NEW m \in 1 .. reported PROVE <<m>> \in Seq(1 .. reported) OBVIOUS
      <4>2. <<>> \in Seq(1 .. reported) OBVIOUS
      <4>3. inHand[c] \in {<<>>} \cup {<<m>> : m \in 1 .. reported} OBVIOUS
      <4>. QED BY <4>1, <4>2, <4>3
    <3>2. sent[c] \o inHand[c] \in Seq(1 .. reported)
      BY <3>1
    <3>. QED BY <2>7, <3>2 DEF Send, mailbox, reporting
  <2>8. ASSUME NEW c \in Client, RemoveSession(c) PROVE TypeOK'
    BY <2>8 DEF RemoveSession, mailbox, reporting
  <2>9. ASSUME NEW c \in Client, Disconnect(c) PROVE TypeOK'
    BY <2>9 DEF Disconnect, mailbox, reporting
  <2>10. CASE UNCHANGED vars
    BY <2>10 DEF vars
  <2>. QED BY <2>1, <2>2, <2>3, <2>4, <2>5, <2>6, <2>7, <2>8, <2>9, <2>10
       DEF Next, HandRound, ClientStep
<1>. QED BY <1>1, <1>2, PTL DEF Spec

----------------------------------------------------------------------------
\* No more clients than the limit are served, for any limit and any number of clients
\* that connect at once (StreamingSvc adds first and counts then).
THEOREM LimitKept == Spec => []ServedWithinLimit
<1>1. Init => Admitted
  <2>. SUFFICES ASSUME Init PROVE Admitted
    OBVIOUS
  <2>1. Connected = {} /\ Served = {}
    BY DEF Init, Connected, Served
  <2>. QED BY <2>1, FS_EmptySet, StreamingAssumption DEF Admitted
<1>2. TypeOK /\ Admitted /\ [Next]_vars => Admitted'
  <2>. SUFFICES ASSUME TypeOK, Admitted, [Next]_vars PROVE Admitted'
    OBVIOUS
  <2>1. IsFiniteSet(sessions) /\ IsFiniteSet(Served)
    BY StreamingAssumption, FS_Subset DEF TypeOK, Served
  <2>2. ASSUME Connected' \subseteq sessions', Served' \subseteq Served PROVE Admitted'
    <3>1. Cardinality(Served') <= Cardinality(Served)
      BY <2>1, <2>2, FS_Subset
    <3>2. Cardinality(Served) \in Nat /\ Cardinality(Served') \in Nat
      BY <2>1, <2>2, FS_Subset, FS_CardinalityType
    <3>. QED BY <2>2, <3>1, <3>2, StreamingAssumption DEF Admitted
  <2>3. ASSUME UNCHANGED <<thread, sessions>> PROVE Admitted'
    BY <2>2, <2>3 DEF Admitted, Connected, Served
  <2>4. ASSUME NEW c \in Client, NEW p \in Phases, thread[c] \notin {"away", "closed"},
               GoesTo(c, p), thread[c] = "added" => p = "leaving", UNCHANGED sessions,
               thread[c] # "leaving"
        PROVE  Admitted'
    <3>1. thread' = [thread EXCEPT ![c] = p] /\ thread \in [Client -> Phases]
      BY <2>4 DEF GoesTo, TypeOK
    <3>2. Connected' \subseteq Connected
      BY <2>4, <3>1 DEF Connected
    <3>3. Served' \subseteq Served
      BY <2>4, <3>1 DEF Served, Phases
    <3>. QED BY <2>2, <2>4, <3>2, <3>3 DEF Admitted
  <2>5. ASSUME NEW r \in Reporter, AddMessage(r) PROVE Admitted'
    BY <2>3, <2>5 DEF AddMessage
  <2>6. ASSUME NEW r \in Reporter, HandRound(r) PROVE Admitted'
    BY <2>3, <2>6 DEF HandRound, AddToSession
  <2>7. ASSUME NEW c \in Client, Connect(c) PROVE Admitted'
    <3>1. thread' = [thread EXCEPT ![c] = "added"] /\ sessions' = sessions \cup {c}
      BY <2>7 DEF Connect, GoesTo
    <3>2. Connected' \subseteq sessions' /\ Served' \subseteq Served
      BY <2>7, <3>1 DEF Admitted, Connected, Served, TypeOK
    <3>. QED BY <2>2, <3>2
  <2>8. ASSUME NEW c \in Client, CountSessions(c) PROVE Admitted'
    <3>1. CASE Cardinality(sessions) > MaxSessions
      BY <2>4, <2>8, <3>1 DEF CountSessions, Phases
    <3>2. CASE ~(Cardinality(sessions) > MaxSessions)
      <4>1. thread' = [thread EXCEPT ![c] = "waiting"] /\ sessions' = sessions
        BY <2>8, <3>2 DEF CountSessions, GoesTo
      <4>2. Connected' \subseteq sessions'
        BY <2>8, <4>1 DEF Admitted, Connected, TypeOK, CountSessions
      <4>3. Served' \subseteq sessions
        BY <4>1, <4>2 DEF Connected, Served
      <4>4. Cardinality(Served') <= Cardinality(sessions) /\ IsFiniteSet(Served')
        BY <4>3, <2>1, FS_Subset
      <4>5. Cardinality(Served') \in Nat /\ Cardinality(sessions) \in Nat
        BY <4>4, <2>1, FS_CardinalityType
      <4>. QED BY <3>2, <4>2, <4>4, <4>5, StreamingAssumption DEF Admitted
    <3>. QED BY <3>1, <3>2
  <2>9. ASSUME NEW c \in Client, WaitForMessages(c) PROVE Admitted'
    BY <2>4, <2>9 DEF WaitForMessages, Phases
  <2>10. ASSUME NEW c \in Client, GetTapeMessage(c) PROVE Admitted'
    BY <2>4, <2>10 DEF GetTapeMessage, Phases
  <2>11. ASSUME NEW c \in Client, Send(c) PROVE Admitted'
    BY <2>4, <2>11 DEF Send, Phases
  <2>12. ASSUME NEW c \in Client, RemoveSession(c) PROVE Admitted'
    <3>1. thread' = [thread EXCEPT ![c] = "closed"] /\ sessions' = sessions \ {c}
          /\ thread[c] = "leaving"
      BY <2>12 DEF RemoveSession, GoesTo
    <3>2. Connected' \subseteq sessions'
      BY <3>1 DEF Admitted, Connected, TypeOK
    <3>3. Served' \subseteq Served
      BY <3>1 DEF Served, TypeOK
    <3>. QED BY <2>2, <3>2, <3>3
  <2>13. ASSUME NEW c \in Client, Disconnect(c) PROVE Admitted'
    BY <2>3, <2>13 DEF Disconnect
  <2>14. CASE UNCHANGED vars
    BY <2>3, <2>14 DEF vars
  <2>. QED BY <2>5, <2>6, <2>7, <2>8, <2>9, <2>10, <2>11, <2>12, <2>13, <2>14
       DEF Next, ClientStep
<1>3. Admitted => ServedWithinLimit
  BY DEF Admitted, ServedWithinLimit, Connected, Served
<1>. QED BY <1>1, <1>2, <1>3, TypeCorrect, PTL DEF Spec

----------------------------------------------------------------------------
\* The parts of a stream are sequences of numbers, and at most one message is in hand.
LEMMA StreamTypes ==
  ASSUME TypeOK, NEW c \in Client
  PROVE  /\ sent[c] \in Seq(Nat) /\ inHand[c] \in Seq(Nat) /\ queue[c] \in Seq(Nat)
         /\ Len(inHand[c]) <= 1 /\ reported \in Nat
         /\ OlderThan(sent[c], reported + 1) /\ OlderThan(inHand[c], reported + 1)
         /\ OlderThan(queue[c], reported + 1)
<1>1. reported \in Nat
  BY StreamingAssumption DEF TypeOK
<1>2. \A s \in Seq(1 .. reported) : s \in Seq(Nat) /\ OlderThan(s, reported + 1)
  <2>. SUFFICES ASSUME NEW s \in Seq(1 .. reported) PROVE s \in Seq(Nat) /\ OlderThan(s, reported + 1)
    OBVIOUS
  <2>1. \A i \in DOMAIN s : s[i] \in 1 .. reported
    <3>1. ASSUME NEW S, NEW w \in Seq(S) PROVE \A i \in DOMAIN w : w[i] \in S
      OBVIOUS
    <3>. QED BY <3>1
  <2>2. \A i \in DOMAIN s : s[i] < reported + 1 BY <2>1, <1>1
  <2>. QED BY <1>1, <2>2 DEF OlderThan
<1>3. inHand[c] \in Seq(1 .. reported) /\ Len(inHand[c]) <= 1
  <2>1. inHand[c] \in {<<>>} \cup {<<m>> : m \in 1 .. reported} BY DEF TypeOK
  <2>2. CASE inHand[c] = <<>> BY <2>2
  <2>3. ASSUME NEW m \in 1 .. reported, inHand[c] = <<m>>
        PROVE  inHand[c] \in Seq(1 .. reported) /\ Len(inHand[c]) <= 1
    BY <2>3
  <2>. QED BY <2>1, <2>2, <2>3
<1>. QED BY <1>1, <1>2, <1>3 DEF TypeOK

\* One client's step leaves the others' streams as they are, and what is due stays due.
LEMMA OneClientMoves ==
  ASSUME InOrder, NEW c \in Client, UNCHANGED <<adding, reported>>,
         \A d \in Client \ {c} : UNCHANGED <<sent[d], inHand[d], queue[d]>>,
         TypeOK, Ordered(c)',
         \A m \in Nat : OlderThan(sent[c], m) /\ OlderThan(inHand[c], m) /\ OlderThan(queue[c], m) =>
           OlderThan(sent[c]', m) /\ OlderThan(inHand[c]', m) /\ OlderThan(queue[c]', m)
  PROVE  InOrder'
<1>1. OneHandsRound'
  BY DEF InOrder, OneHandsRound
<1>2. ASSUME NEW d \in Client PROVE Ordered(d)'
  <2>1. CASE d = c BY <2>1
  <2>2. CASE d # c BY <2>2 DEF InOrder, Ordered
  <2>. QED BY <2>1, <2>2
<1>3. DueIsNewest'
  <2>. SUFFICES ASSUME NEW r \in Reporter, NEW d \in adding[r]
                PROVE  /\ OlderThan(sent'[d[1]], reported) /\ OlderThan(inHand'[d[1]], reported)
                       /\ OlderThan(queue'[d[1]], reported)
    BY DEF DueIsNewest
  <2>1. d[1] \in Client /\ reported \in Nat
    BY StreamingAssumption DEF TypeOK
  <2>2. /\ OlderThan(sent[d[1]], reported) /\ OlderThan(inHand[d[1]], reported)
        /\ OlderThan(queue[d[1]], reported)
    BY DEF InOrder, DueIsNewest
  <2>3. CASE d[1] = c BY <2>1, <2>2, <2>3
  <2>4. CASE d[1] # c BY <2>1, <2>2, <2>4
  <2>. QED BY <2>3, <2>4
<1>. QED BY <1>1, <1>2, <1>3 DEF InOrder

\* Every client hears the messages in the one order they were reported in, none twice
\* (EventStreaming::AddMessage holds the registry's mutex for the whole round).
THEOREM StoryKept == Spec => []SameStory
<1>1. Init => InOrder
  <2>. SUFFICES ASSUME Init PROVE InOrder
    OBVIOUS
  <2>. QED BY DEF Init, InOrder, Ordered, OneHandsRound, DueIsNewest, Increasing, Below
<1>2. TypeOK /\ InOrder /\ [Next]_vars => InOrder'
  <2>. SUFFICES ASSUME TypeOK, InOrder, [Next]_vars PROVE InOrder'
    OBVIOUS
  <2>1. ASSUME NEW r \in Reporter, AddMessage(r) PROVE InOrder'
    <3>1. /\ UNCHANGED <<sent, inHand, queue>> /\ reported' = reported + 1
          /\ adding' = [adding EXCEPT ![r] = sessions \X {reported + 1}]
          /\ \A s \in Reporter : adding[s] = {}
      BY <2>1 DEF AddMessage, mailbox, Unlocked
    <3>2. \A s \in Reporter : adding'[s] # {} => s = r
      BY <3>1 DEF TypeOK
    <3>3. \A s \in Reporter : \A d \in adding'[s] : d[1] \in Client /\ d[2] = reported'
      BY <3>1, <3>2 DEF TypeOK
    <3>4. OneHandsRound'
      BY <3>2, <3>3 DEF OneHandsRound
    <3>5. DueIsNewest'
      BY <3>1, <3>3, StreamTypes DEF DueIsNewest
    <3>6. \A c \in Client : Ordered(c)'
      BY <3>1 DEF InOrder, Ordered
    <3>. QED BY <3>4, <3>5, <3>6 DEF InOrder
  <2>2. ASSUME NEW r \in Reporter, NEW c \in Client, NEW m \in 1 .. MaxMessages, AddToSession(r, c, m)
        PROVE  InOrder'
    <3>1. /\ UNCHANGED <<sent, inHand, reported>> /\ <<c, m>> \in adding[r]
          /\ queue' = [queue EXCEPT ![c] = Queued(queue[c], m)]
          /\ adding' = [adding EXCEPT ![r] = adding[r] \ {<<c, m>>}]
      BY <2>2 DEF AddToSession
    <3>2. /\ m = reported /\ m \in Nat
          /\ OlderThan(sent[c], m) /\ OlderThan(inHand[c], m) /\ OlderThan(queue[c], m)
      BY <3>1, StreamTypes DEF InOrder, OneHandsRound, DueIsNewest
    <3>3. \A s \in Reporter : adding'[s] \subseteq adding[s]
      BY <3>1 DEF TypeOK
    <3>4. OneHandsRound'
      BY <3>1, <3>3 DEF InOrder, OneHandsRound
    <3>5. \A s \in Reporter : \A d \in adding'[s] : d[1] \in Client /\ d[1] # c
      <4>. SUFFICES ASSUME NEW s \in Reporter, NEW d \in adding'[s] PROVE d[1] \in Client /\ d[1] # c
        OBVIOUS
      <4>1. d \in adding[s] /\ adding[s] # {} /\ adding[r] # {} BY <3>1, <3>3
      <4>2. s = r BY <4>1 DEF InOrder, OneHandsRound
      <4>3. d # <<c, m>> BY <3>1, <4>2 DEF TypeOK
      <4>4. d[2] = m BY <4>1, <3>2 DEF InOrder, OneHandsRound
      <4>5. d \in Client \X (1 .. reported) BY <4>1 DEF TypeOK
      <4>. QED BY <4>3, <4>4, <4>5
    <3>6. DueIsNewest'
      BY <3>1, <3>3, <3>5 DEF InOrder, DueIsNewest, TypeOK
    <3>7. Ordered(c)'
      <4>1. queue'[c] = Queued(queue[c], m) BY <3>1 DEF TypeOK
      <4>2. /\ Increasing(Queued(queue[c], m))
            /\ \A s \in Seq(Nat) : Below(s, queue[c]) /\ OlderThan(s, m) => Below(s, Queued(queue[c], m))
        BY <3>2, StreamTypes, QueuedInOrder DEF InOrder, Ordered
      <4>. QED BY <3>1, <3>2, <4>1, <4>2, StreamTypes DEF InOrder, Ordered
    <3>8. \A d \in Client \ {c} : Ordered(d)'
      BY <3>1 DEF InOrder, Ordered, TypeOK
    <3>. QED BY <3>4, <3>6, <3>7, <3>8 DEF InOrder
  <2>3. ASSUME NEW c \in Client, GetTapeMessage(c) PROVE InOrder'
    <3>1. CASE queue[c] = <<>>
      BY <2>3, <3>1 DEF GetTapeMessage, reporting, InOrder, Ordered, OneHandsRound, DueIsNewest
    <3>2. CASE queue[c] # <<>>
      <4>. DEFINE h == Head(queue[c])
                  t == Tail(queue[c])
      <4>1. /\ inHand' = [inHand EXCEPT ![c] = <<h>>] /\ queue' = [queue EXCEPT ![c] = t]
            /\ UNCHANGED <<sent, adding, reported>>
        BY <2>3, <3>2 DEF GetTapeMessage, reporting
      <4>2. inHand'[c] = <<h>> /\ queue'[c] = t /\ sent'[c] = sent[c]
        BY <4>1 DEF TypeOK
      <4>3. \A d \in Client \ {c} : UNCHANGED <<sent[d], inHand[d], queue[d]>>
        BY <4>1 DEF TypeOK
      <4>4. /\ Increasing(sent[c]) /\ Increasing(queue[c]) /\ Below(sent[c], queue[c])
            /\ sent[c] \in Seq(Nat) /\ queue[c] \in Seq(Nat)
        BY StreamTypes DEF InOrder, Ordered
      <4>5. /\ Increasing(t) /\ Below(<<h>>, t) /\ Below(sent[c], <<h>>) /\ Below(sent[c], t)
            /\ \A m \in Nat : OlderThan(queue[c], m) => OlderThan(<<h>>, m) /\ OlderThan(t, m)
        BY <3>2, <4>4, WithoutOldest
      <4>. HIDE DEF h, t
      <4>6. Ordered(c)'
        BY <4>2, <4>4, <4>5 DEF Ordered
      <4>. QED BY <4>1, <4>2, <4>3, <4>5, <4>6, OneClientMoves
    <3>. QED BY <3>1, <3>2
  <2>4. ASSUME NEW c \in Client, Send(c) PROVE InOrder'
    <3>1. /\ inHand' = [inHand EXCEPT ![c] = <<>>] /\ UNCHANGED <<queue, adding, reported>>
          /\ sent' = [sent EXCEPT ![c] = sent[c] \o inHand[c]] \/ UNCHANGED sent
      BY <2>4 DEF Send, mailbox, reporting
    <3>2. /\ inHand'[c] = <<>> /\ queue'[c] = queue[c]
          /\ sent'[c] = sent[c] \o inHand[c] \/ sent'[c] = sent[c]
          /\ \A d \in Client \ {c} : UNCHANGED <<sent[d], inHand[d], queue[d]>>
      BY <3>1 DEF TypeOK
    <3>3. /\ Increasing(sent[c]) /\ Increasing(queue[c]) /\ Below(sent[c], inHand[c])
          /\ Below(sent[c], queue[c]) /\ Below(inHand[c], queue[c])
          /\ sent[c] \in Seq(Nat) /\ inHand[c] \in Seq(Nat) /\ queue[c] \in Seq(Nat)
          /\ Len(inHand[c]) <= 1
      BY StreamTypes DEF InOrder, Ordered
    <3>4. /\ Increasing(sent[c] \o inHand[c]) /\ Below(sent[c] \o inHand[c], queue[c])
          /\ \A m \in Nat : OlderThan(sent[c], m) /\ OlderThan(inHand[c], m) =>
               OlderThan(sent[c] \o inHand[c], m)
      BY <3>3, SentInOrder
    <3>5. /\ Increasing(sent'[c]) /\ Below(sent'[c], queue[c])
          /\ \A m \in Nat : OlderThan(sent[c], m) /\ OlderThan(inHand[c], m) => OlderThan(sent'[c], m)
      BY <3>2, <3>3, <3>4
    <3>6. /\ Below(sent'[c], <<>>) /\ Below(<<>>, queue[c])
          /\ \A m \in Nat : OlderThan(<<>>, m)
      BY DEF Below, OlderThan
    <3>7. Ordered(c)'
      BY <3>2, <3>3, <3>5, <3>6 DEF Ordered
    <3>. QED BY <3>1, <3>2, <3>5, <3>6, <3>7, OneClientMoves
  <2>5. ASSUME UNCHANGED <<sent, inHand, queue, adding, reported>> PROVE InOrder'
    BY <2>5 DEF InOrder, Ordered, OneHandsRound, DueIsNewest
  <2>6. ASSUME NEW c \in Client,
               Connect(c) \/ CountSessions(c) \/ WaitForMessages(c) \/ RemoveSession(c) \/ Disconnect(c)
        PROVE  InOrder'
    BY <2>5, <2>6 DEF Connect, CountSessions, WaitForMessages, RemoveSession, Disconnect, mailbox, reporting
  <2>7. CASE UNCHANGED vars
    BY <2>5, <2>7 DEF vars
  <2>. QED BY <2>1, <2>2, <2>3, <2>4, <2>6, <2>7 DEF Next, HandRound, ClientStep
<1>3. TypeOK /\ InOrder => SameStory
  BY StreamTypes, StreamOfParts DEF InOrder, Ordered, SameStory, Stream
<1>. QED BY <1>1, <1>2, <1>3, TypeCorrect, PTL DEF Spec
=============================================================================
