-------------------------- MODULE VoIpSessionsProofs --------------------------
(***************************************************************************)
(* Proofs about VoIpSessions for every set of sessions, addresses, call    *)
(* identifiers and streams, every configuration and every bound: types,    *)
(* the maps of calls and of media addresses agree with the sessions they   *)
(* lead to, a recording that goes on is attended, a command to stop all    *)
(* leaves no recording going on, what talks is recorded, and every port    *)
(* hears its recording in turn.                                            *)
(*                                                                         *)
(* Every operation is told twice: from what it does to the maps (Sound is  *)
(* what holds in every configuration, Tidy that whatever the maps lead to  *)
(* goes on, Led that whatever goes on is led to), then from what it tells  *)
(* the ports (AllRight of each session by itself, InTurn of the ports).    *)
(***************************************************************************)
EXTENDS VoIpSessions, TLAPS


\* What a handler works on (Now).
State ==
  [session : [Session -> SessionRecord \cup {None}],
   byAddr : [Address \cup {None} -> Session \cup {None}],
   byCall : [Call \cup {None} -> Session \cup {None}],
   open : SUBSET (Session \cup {None}), misheard : SUBSET (Session \cup {None})]

-----------------------------------------------------------------------------
(* One session.                                                              *)

\* The counters and times that the model bounds.
LEMMA Bounds ==
  /\ MaxCount \in Nat /\ MaxAge \in Nat /\ MinPackets \in Nat
  /\ \A n \in 0 .. MaxCount : Bump(n) \in 0 .. MaxCount
  /\ 0 \in 0 .. MaxCount /\ 0 \in 0 .. MaxAge
BY SessionsAssumption DEF Bump

\* What the maps and the ports go by stays as it is in a session.
SameMarks(r, q) ==
  /\ q \in SessionRecord
  /\ q.proto \in {r.proto, "RawRtp"}
  /\ q.callId = r.callId /\ q.addr = r.addr /\ q.addrs = r.addrs
  /\ q.stopped = r.stopped /\ q.started = r.started /\ q.metadata = r.metadata /\ q.port = r.port

\* What a packet, a hold or a command changes in a session leaves those alone.
LEMMA Edits ==
  ASSUME NEW r \in SessionRecord
  PROVE  /\ \A x \in 0 .. MaxAge : SameMarks(r, [r EXCEPT !.age = x])
         /\ \A x \in 0 .. MaxCount : SameMarks(r, [r EXCEPT !.rtp = x])
         /\ \A x \in 0 .. MaxCount : SameMarks(r, [r EXCEPT !.ignored = x])
         /\ \A x \in BOOLEAN : SameMarks(r, [r EXCEPT !.keep = x])
         /\ \A x \in BOOLEAN : SameMarks(r, [r EXCEPT !.early = x])
         /\ \A x \in BOOLEAN : SameMarks(r, [r EXCEPT !.waitS2 = x])
         /\ \A x \in BOOLEAN : SameMarks(r, [r EXCEPT !.hold = x])
         /\ \A x \in BOOLEAN : SameMarks(r, [r EXCEPT !.last = x])
         /\ \A x \in Stream \cup {None} : SameMarks(r, [r EXCEPT !.s1 = x])
         /\ \A x \in Stream \cup {None} : SameMarks(r, [r EXCEPT !.s2 = x])
<1>1. \A x \in 0 .. MaxAge : SameMarks(r, [r EXCEPT !.age = x])
  BY DEF SameMarks, SessionRecord
<1>2. \A x \in 0 .. MaxCount : SameMarks(r, [r EXCEPT !.rtp = x])
  BY DEF SameMarks, SessionRecord
<1>3. \A x \in 0 .. MaxCount : SameMarks(r, [r EXCEPT !.ignored = x])
  BY DEF SameMarks, SessionRecord
<1>4. \A x \in BOOLEAN : SameMarks(r, [r EXCEPT !.keep = x])
  BY DEF SameMarks, SessionRecord
<1>5. \A x \in BOOLEAN : SameMarks(r, [r EXCEPT !.early = x])
  BY DEF SameMarks, SessionRecord
<1>6. \A x \in BOOLEAN : SameMarks(r, [r EXCEPT !.waitS2 = x])
  BY DEF SameMarks, SessionRecord
<1>7. \A x \in BOOLEAN : SameMarks(r, [r EXCEPT !.hold = x])
  BY DEF SameMarks, SessionRecord
<1>8. \A x \in BOOLEAN : SameMarks(r, [r EXCEPT !.last = x])
  BY DEF SameMarks, SessionRecord
<1>9. \A x \in Stream \cup {None} : SameMarks(r, [r EXCEPT !.s1 = x])
  BY DEF SameMarks, SessionRecord
<1>10. \A x \in Stream \cup {None} : SameMarks(r, [r EXCEPT !.s2 = x])
  BY DEF SameMarks, SessionRecord
<1> QED
  BY <1>1, <1>2, <1>3, <1>4, <1>5, <1>6, <1>7, <1>8, <1>9, <1>10

\* A handler's state, field by field.
LEMMA StateFacts ==
  ASSUME NEW t \in State
  PROVE  /\ t.session \in [Session -> SessionRecord \cup {None}]
         /\ t.byAddr \in [Address \cup {None} -> Session \cup {None}]
         /\ t.byCall \in [Call \cup {None} -> Session \cup {None}]
         /\ t.open \subseteq Session \cup {None} /\ t.misheard \subseteq Session \cup {None}
         /\ \A s \in Session : t.session[s] # None => t.session[s] \in SessionRecord
         /\ \A r \in SessionRecord : r # None
BY NoneAssumption DEF State

\* One session in place of what its tracking id has.
LEMMA PutIs ==
  ASSUME NEW t \in State, NEW s \in Session, NEW r \in SessionRecord
  PROVE  /\ Put(t, s, r) \in State
         /\ Put(t, s, r).session[s] = r
         /\ \A x \in Session \ {s} : Put(t, s, r).session[x] = t.session[x]
         /\ Put(t, s, r).byAddr = t.byAddr /\ Put(t, s, r).byCall = t.byCall
         /\ Put(t, s, r).open = t.open /\ Put(t, s, r).misheard = t.misheard
<1> DEFINE new == [t.session EXCEPT ![s] = r]
<1>1. new \in [Session -> SessionRecord \cup {None}]
  BY StateFacts
<1>2. new[s] = r /\ \A x \in Session \ {s} : new[x] = t.session[x]
  BY StateFacts
<1>3. Put(t, s, r) = [t EXCEPT !.session = new]
  BY DEF Put
<1> HIDE DEF new
<1>4. /\ Put(t, s, r).session = new /\ Put(t, s, r) \in State
      /\ Put(t, s, r).byAddr = t.byAddr /\ Put(t, s, r).byCall = t.byCall
      /\ Put(t, s, r).open = t.open /\ Put(t, s, r).misheard = t.misheard
  BY <1>1, <1>3 DEF State
<1> QED
  BY <1>2, <1>4

\* What a packet does: it changes its session, not the maps; it may start the recording.
Heard(t, u, s) ==
  LET r == t.session[s]
      q == u.session[s]
  IN  /\ u \in State /\ u.byAddr = t.byAddr /\ u.byCall = t.byCall
      /\ \A x \in Session \ {s} : u.session[x] = t.session[x]
      /\ q \in SessionRecord /\ q # None
      /\ q.proto \in {r.proto, "RawRtp"}
      /\ q.callId = r.callId /\ q.addr = r.addr /\ q.addrs = r.addrs
      /\ q.stopped = r.stopped
      /\ r.metadata => q.metadata /\ q.port = r.port
      /\ q.port \in {r.port, s}
      /\ \/ (q.started <=> r.started) /\ u.open = t.open
         \/ q.started /\ q.metadata /\ u.open = t.open \cup {q.port}

LEMMA HeardOnce ==
  ASSUME NEW t \in State, NEW s \in Session, t.session[s] # None
  PROVE  Heard(t, t, s)
BY StateFacts DEF Heard

LEMMA HeardTwice ==
  ASSUME NEW t \in State, NEW s \in Session, NEW u, NEW v, Heard(t, u, s), Heard(u, v, s)
  PROVE  Heard(t, v, s)
<1> DEFINE r == t.session[s]
           q == u.session[s]
           p == v.session[s]
<1>1. /\ v \in State /\ v.byAddr = t.byAddr /\ v.byCall = t.byCall
      /\ \A x \in Session \ {s} : v.session[x] = t.session[x]
      /\ p \in SessionRecord /\ p # None
      /\ p.proto \in {r.proto, "RawRtp"}
      /\ p.callId = r.callId /\ p.addr = r.addr /\ p.addrs = r.addrs
      /\ p.stopped = r.stopped
  BY DEF Heard
<1>2. /\ r.metadata => p.metadata /\ p.port = r.port
      /\ p.port \in {r.port, s}
  BY DEF Heard
<1>3. \/ (p.started <=> r.started) /\ v.open = t.open
      \/ p.started /\ p.metadata /\ v.open = t.open \cup {p.port}
  <2>1. q.metadata => p.metadata /\ p.port = q.port
    BY DEF Heard
  <2>2. CASE (p.started <=> q.started) /\ v.open = u.open
    BY <2>1, <2>2 DEF Heard
  <2>3. CASE p.started /\ p.metadata /\ v.open = u.open \cup {p.port}
    <3>1. CASE (q.started <=> r.started) /\ u.open = t.open
      BY <2>3, <3>1
    <3>2. CASE q.started /\ q.metadata /\ u.open = t.open \cup {q.port}
      BY <2>1, <2>3, <3>2
    <3> QED
      BY <3>1, <3>2 DEF Heard
  <2> QED
    BY <2>2, <2>3 DEF Heard
<1> QED
  BY <1>1, <1>2, <1>3 DEF Heard

LEMMA PutHeard ==
  ASSUME NEW t \in State, NEW s \in Session, t.session[s] # None, NEW q,
         SameMarks(t.session[s], q)
  PROVE  Heard(t, Put(t, s, q), s)
<1>1. q \in SessionRecord /\ q # None
  BY StateFacts DEF SameMarks
<1> QED
  BY <1>1, PutIs DEF Heard, SameMarks

\* The same for a field changed in place.
LEMMA EditsHeard ==
  ASSUME NEW t \in State, NEW s \in Session, t.session[s] # None
  PROVE  /\ \A x \in 0 .. MaxAge : Heard(t, [t EXCEPT !.session[s].age = x], s)
         /\ \A x \in 0 .. MaxCount : Heard(t, [t EXCEPT !.session[s].rtp = x], s)
         /\ \A x \in 0 .. MaxCount : Heard(t, [t EXCEPT !.session[s].ignored = x], s)
         /\ \A x \in BOOLEAN : Heard(t, [t EXCEPT !.session[s].keep = x], s)
         /\ \A x \in BOOLEAN : Heard(t, [t EXCEPT !.session[s].early = x], s)
         /\ \A x \in BOOLEAN : Heard(t, [t EXCEPT !.session[s].waitS2 = x], s)
         /\ \A x \in BOOLEAN : Heard(t, [t EXCEPT !.session[s].hold = x], s)
         /\ \A x \in BOOLEAN : Heard(t, [t EXCEPT !.session[s].last = x], s)
         /\ \A x \in Stream \cup {None} : Heard(t, [t EXCEPT !.session[s].s1 = x], s)
         /\ \A x \in Stream \cup {None} : Heard(t, [t EXCEPT !.session[s].s2 = x], s)
<1> DEFINE r == t.session[s]
<1>0. r \in SessionRecord
  BY StateFacts
<1>1. /\ \A x : [t EXCEPT !.session[s].age = x] = Put(t, s, [r EXCEPT !.age = x])
      /\ \A x : [t EXCEPT !.session[s].rtp = x] = Put(t, s, [r EXCEPT !.rtp = x])
      /\ \A x : [t EXCEPT !.session[s].ignored = x] = Put(t, s, [r EXCEPT !.ignored = x])
      /\ \A x : [t EXCEPT !.session[s].keep = x] = Put(t, s, [r EXCEPT !.keep = x])
      /\ \A x : [t EXCEPT !.session[s].early = x] = Put(t, s, [r EXCEPT !.early = x])
  BY DEF Put
<1>2. /\ \A x : [t EXCEPT !.session[s].waitS2 = x] = Put(t, s, [r EXCEPT !.waitS2 = x])
      /\ \A x : [t EXCEPT !.session[s].hold = x] = Put(t, s, [r EXCEPT !.hold = x])
      /\ \A x : [t EXCEPT !.session[s].last = x] = Put(t, s, [r EXCEPT !.last = x])
      /\ \A x : [t EXCEPT !.session[s].s1 = x] = Put(t, s, [r EXCEPT !.s1 = x])
      /\ \A x : [t EXCEPT !.session[s].s2 = x] = Put(t, s, [r EXCEPT !.s2 = x])
  BY DEF Put
<1> HIDE DEF r
<1>3. \A q : SameMarks(r, q) => Heard(t, Put(t, s, q), s)
  BY PutHeard DEF r
<1>4. \A x \in 0 .. MaxAge : Heard(t, [t EXCEPT !.session[s].age = x], s)
  <2> TAKE x \in 0 .. MaxAge
  <2>1. SameMarks(r, [r EXCEPT !.age = x])
    BY <1>0, Edits, Zenon
  <2>2. [t EXCEPT !.session[s].age = x] = Put(t, s, [r EXCEPT !.age = x])
    BY <1>1, Zenon
  <2> QED
    BY <1>3, <2>1, <2>2, Zenon
<1>5. \A x \in 0 .. MaxCount : Heard(t, [t EXCEPT !.session[s].rtp = x], s)
  <2> TAKE x \in 0 .. MaxCount
  <2>1. SameMarks(r, [r EXCEPT !.rtp = x])
    BY <1>0, Edits, Zenon
  <2>2. [t EXCEPT !.session[s].rtp = x] = Put(t, s, [r EXCEPT !.rtp = x])
    BY <1>1, Zenon
  <2> QED
    BY <1>3, <2>1, <2>2, Zenon
<1>6. \A x \in 0 .. MaxCount : Heard(t, [t EXCEPT !.session[s].ignored = x], s)
  <2> TAKE x \in 0 .. MaxCount
  <2>1. SameMarks(r, [r EXCEPT !.ignored = x])
    BY <1>0, Edits, Zenon
  <2>2. [t EXCEPT !.session[s].ignored = x] = Put(t, s, [r EXCEPT !.ignored = x])
    BY <1>1, Zenon
  <2> QED
    BY <1>3, <2>1, <2>2, Zenon
<1>7. \A x \in BOOLEAN : Heard(t, [t EXCEPT !.session[s].keep = x], s)
  <2> TAKE x \in BOOLEAN
  <2>1. SameMarks(r, [r EXCEPT !.keep = x])
    BY <1>0, Edits, Zenon
  <2>2. [t EXCEPT !.session[s].keep = x] = Put(t, s, [r EXCEPT !.keep = x])
    BY <1>1, Zenon
  <2> QED
    BY <1>3, <2>1, <2>2, Zenon
<1>8. \A x \in BOOLEAN : Heard(t, [t EXCEPT !.session[s].early = x], s)
  <2> TAKE x \in BOOLEAN
  <2>1. SameMarks(r, [r EXCEPT !.early = x])
    BY <1>0, Edits, Zenon
  <2>2. [t EXCEPT !.session[s].early = x] = Put(t, s, [r EXCEPT !.early = x])
    BY <1>1, Zenon
  <2> QED
    BY <1>3, <2>1, <2>2, Zenon
<1>9. \A x \in BOOLEAN : Heard(t, [t EXCEPT !.session[s].waitS2 = x], s)
  <2> TAKE x \in BOOLEAN
  <2>1. SameMarks(r, [r EXCEPT !.waitS2 = x])
    BY <1>0, Edits, Zenon
  <2>2. [t EXCEPT !.session[s].waitS2 = x] = Put(t, s, [r EXCEPT !.waitS2 = x])
    BY <1>2, Zenon
  <2> QED
    BY <1>3, <2>1, <2>2, Zenon
<1>10. \A x \in BOOLEAN : Heard(t, [t EXCEPT !.session[s].hold = x], s)
  <2> TAKE x \in BOOLEAN
  <2>1. SameMarks(r, [r EXCEPT !.hold = x])
    BY <1>0, Edits, Zenon
  <2>2. [t EXCEPT !.session[s].hold = x] = Put(t, s, [r EXCEPT !.hold = x])
    BY <1>2, Zenon
  <2> QED
    BY <1>3, <2>1, <2>2, Zenon
<1>11. \A x \in BOOLEAN : Heard(t, [t EXCEPT !.session[s].last = x], s)
  <2> TAKE x \in BOOLEAN
  <2>1. SameMarks(r, [r EXCEPT !.last = x])
    BY <1>0, Edits, Zenon
  <2>2. [t EXCEPT !.session[s].last = x] = Put(t, s, [r EXCEPT !.last = x])
    BY <1>2, Zenon
  <2> QED
    BY <1>3, <2>1, <2>2, Zenon
<1>12. \A x \in Stream \cup {None} : Heard(t, [t EXCEPT !.session[s].s1 = x], s)
  <2> TAKE x \in Stream \cup {None}
  <2>1. SameMarks(r, [r EXCEPT !.s1 = x])
    BY <1>0, Edits, Zenon
  <2>2. [t EXCEPT !.session[s].s1 = x] = Put(t, s, [r EXCEPT !.s1 = x])
    BY <1>2, Zenon
  <2> QED
    BY <1>3, <2>1, <2>2, Zenon
<1>13. \A x \in Stream \cup {None} : Heard(t, [t EXCEPT !.session[s].s2 = x], s)
  <2> TAKE x \in Stream \cup {None}
  <2>1. SameMarks(r, [r EXCEPT !.s2 = x])
    BY <1>0, Edits, Zenon
  <2>2. [t EXCEPT !.session[s].s2 = x] = Put(t, s, [r EXCEPT !.s2 = x])
    BY <1>2, Zenon
  <2> QED
    BY <1>3, <2>1, <2>2, Zenon
<1> QED
  BY <1>4, <1>5, <1>6, <1>7, <1>8, <1>9, <1>10, <1>11, <1>12, <1>13, Zenon

\* Two fields at once.
LEMMA SameMarksTwice ==
  ASSUME NEW r, NEW p, NEW q, SameMarks(r, p), SameMarks(p, q)
  PROVE  SameMarks(r, q)
  BY DEF SameMarks

\* What the handlers do with two fields of a session.
LEMMA TwoEdits ==
  ASSUME NEW t \in State, NEW s \in Session, t.session[s] # None
  PROVE  /\ Heard(t, GoOffHold(t, s), s)
         /\ \A n \in 0 .. MaxCount : Heard(t, [t EXCEPT !.session[s].age = 0, !.session[s].ignored = n], s)
         /\ \A n \in 0 .. MaxCount : Heard(t, [t EXCEPT !.session[s].rtp = n, !.session[s].age = 0], s)
<1> DEFINE r == t.session[s]
<1>0. r \in SessionRecord /\ 0 \in 0 .. MaxAge
  BY StateFacts, Bounds
<1>1. GoOffHold(t, s) = Put(t, s, [r EXCEPT !.hold = FALSE, !.age = 0])
  BY DEF GoOffHold, Put
<1>2. \A n : [t EXCEPT !.session[s].age = 0, !.session[s].ignored = n] =
                Put(t, s, [r EXCEPT !.age = 0, !.ignored = n])
  BY DEF Put
<1>3. \A n : [t EXCEPT !.session[s].rtp = n, !.session[s].age = 0] =
                Put(t, s, [r EXCEPT !.rtp = n, !.age = 0])
  BY DEF Put
<1>a. ASSUME NEW p, SameMarks(r, p), NEW n \in 0 .. MaxCount
      PROVE  SameMarks(r, [p EXCEPT !.age = 0]) /\ SameMarks(r, [p EXCEPT !.ignored = n])
  <2>1. p \in SessionRecord
    BY <1>a DEF SameMarks
  <2>2. SameMarks(p, [p EXCEPT !.age = 0]) /\ SameMarks(p, [p EXCEPT !.ignored = n])
    BY <1>0, <2>1, Edits, Zenon
  <2> QED
    BY <1>a, <2>2, SameMarksTwice, Zenon
<1>4. SameMarks(r, [r EXCEPT !.hold = FALSE, !.age = 0])
  <2> DEFINE p == [r EXCEPT !.hold = FALSE]
  <2>1. SameMarks(r, p) /\ 0 \in 0 .. MaxCount
    BY <1>0, Edits, Bounds
  <2>2. [r EXCEPT !.hold = FALSE, !.age = 0] = [p EXCEPT !.age = 0]
    OBVIOUS
  <2> HIDE DEF p
  <2> QED
    BY <1>a, <2>1, <2>2
<1>5. \A n \in 0 .. MaxCount : SameMarks(r, [r EXCEPT !.age = 0, !.ignored = n])
  <2> TAKE n \in 0 .. MaxCount
  <2> DEFINE p == [r EXCEPT !.age = 0]
  <2>1. SameMarks(r, p)
    BY <1>0, Edits
  <2>2. [r EXCEPT !.age = 0, !.ignored = n] = [p EXCEPT !.ignored = n]
    OBVIOUS
  <2> HIDE DEF p
  <2> QED
    BY <1>a, <2>1, <2>2
<1>6. \A n \in 0 .. MaxCount : SameMarks(r, [r EXCEPT !.rtp = n, !.age = 0])
  <2> TAKE n \in 0 .. MaxCount
  <2> DEFINE p == [r EXCEPT !.rtp = n]
  <2>1. SameMarks(r, p)
    BY <1>0, Edits
  <2>2. [r EXCEPT !.rtp = n, !.age = 0] = [p EXCEPT !.age = 0]
    OBVIOUS
  <2> HIDE DEF p
  <2> QED
    BY <1>a, <2>1, <2>2
<1> HIDE DEF r
<1>7. \A q : SameMarks(r, q) => Heard(t, Put(t, s, q), s)
  BY PutHeard DEF r
<1>8. Heard(t, GoOffHold(t, s), s)
  BY <1>1, <1>4, <1>7, Zenon
<1>9. \A n \in 0 .. MaxCount : Heard(t, [t EXCEPT !.session[s].age = 0, !.session[s].ignored = n], s)
  <2> TAKE n \in 0 .. MaxCount
  <2>1. SameMarks(r, [r EXCEPT !.age = 0, !.ignored = n])
    BY <1>5
  <2>2. [t EXCEPT !.session[s].age = 0, !.session[s].ignored = n] =
                Put(t, s, [r EXCEPT !.age = 0, !.ignored = n])
    BY <1>2, Zenon
  <2> QED
    BY <1>7, <2>1, <2>2, Zenon
<1>10. \A n \in 0 .. MaxCount : Heard(t, [t EXCEPT !.session[s].rtp = n, !.session[s].age = 0], s)
  <2> TAKE n \in 0 .. MaxCount
  <2>1. SameMarks(r, [r EXCEPT !.rtp = n, !.age = 0])
    BY <1>6
  <2>2. [t EXCEPT !.session[s].rtp = n, !.session[s].age = 0] =
                Put(t, s, [r EXCEPT !.rtp = n, !.age = 0])
    BY <1>3, Zenon
  <2> QED
    BY <1>7, <2>1, <2>2, Zenon
<1> QED
  BY <1>8, <1>9, <1>10

\* What a session tells its port of the audio.
LEMMA AudioHeard ==
  ASSUME NEW t \in State, NEW s \in Session, t.session[s] # None,
         NEW p \in Session \cup {None}
  PROVE  Heard(t, TellAudio(t, p), s)
<1>1. /\ TellAudio(t, p) \in State
      /\ TellAudio(t, p).session = t.session /\ TellAudio(t, p).byAddr = t.byAddr
      /\ TellAudio(t, p).byCall = t.byCall /\ TellAudio(t, p).open = t.open
  BY DEF TellAudio, State
<1> QED
  BY <1>1, StateFacts DEF Heard

\* The start of a recording, once the first packet has named the port.
LEMMA StartHeard ==
  ASSUME NEW t \in State, NEW s \in Session, t.session[s] # None, t.session[s].metadata
  PROVE  Heard(t, Start(t, s), s)
<1> DEFINE r == t.session[s]
           q == [r EXCEPT !.started = TRUE]
           u == Put(t, s, q)
<1>0. r \in SessionRecord
  BY StateFacts
<1>n. q \in SessionRecord => q # None
  BY NoneAssumption
<1>1. /\ q \in SessionRecord
      /\ q.proto = r.proto /\ q.callId = r.callId /\ q.addr = r.addr /\ q.addrs = r.addrs
      /\ q.stopped = r.stopped /\ q.metadata = r.metadata /\ q.port = r.port
      /\ q.started /\ r.port \in Session \cup {None}
  BY <1>0 DEF SessionRecord
<1> HIDE DEF q
<1>2. /\ u \in State /\ u.session[s] = q
      /\ \A x \in Session \ {s} : u.session[x] = t.session[x]
      /\ u.byAddr = t.byAddr /\ u.byCall = t.byCall
      /\ u.open = t.open /\ u.misheard = t.misheard
  BY <1>1, PutIs
<1>3. Start(t, s) = TellStart(u, r.port)
  BY DEF Start, q
<1> HIDE DEF u
<1>4. /\ TellStart(u, r.port) \in State
      /\ TellStart(u, r.port).session = u.session /\ TellStart(u, r.port).byAddr = u.byAddr
      /\ TellStart(u, r.port).byCall = u.byCall
      /\ TellStart(u, r.port).open = u.open \cup {r.port}
  <2>1. u.misheard \cup {r.port} \subseteq Session \cup {None}
    BY <1>1, <1>2, StateFacts
  <2>2. u.open \cup {r.port} \subseteq Session \cup {None}
    BY <1>1, <1>2, StateFacts
  <2> QED
    BY <1>2, <2>1, <2>2 DEF TellStart, State
<1> DEFINE v == TellStart(u, r.port)
<1>5. /\ v \in State /\ v.byAddr = t.byAddr /\ v.byCall = t.byCall /\ v.session[s] = q
      /\ \A x \in Session \ {s} : v.session[x] = t.session[x]
      /\ v.open = t.open \cup {q.port}
  BY <1>1, <1>2, <1>4
<1> HIDE DEF v
<1>6. v = Start(t, s)
  BY <1>3 DEF v
<1>7. q.proto = t.session[s].proto /\ q.callId = t.session[s].callId /\ q.addr = t.session[s].addr
      /\ q.addrs = t.session[s].addrs /\ q.stopped = t.session[s].stopped
      /\ q.metadata /\ q.port = t.session[s].port /\ q.started /\ q # None
  BY <1>n, <1>1
<1> HIDE DEF r
<1>8. Heard(t, v, s)
  BY <1>1, <1>5, <1>7 DEF Heard
<1> QED
  BY <1>6, <1>8

LEMMA StartOrWaitHeard ==
  ASSUME NEW t \in State, NEW s \in Session, t.session[s] # None, t.session[s].metadata
  PROVE  /\ Heard(t, StartOrWait(t, s), s)
         /\ StartOrWait(t, s).session[s].metadata
<1>1. Heard(t, StartOrWait(t, s), s)
  BY StartHeard, EditsHeard DEF StartOrWait
<1> QED
  BY <1>1 DEF Heard

LEMMA DetectHeard ==
  ASSUME NEW t \in State, NEW s \in Session, t.session[s] # None, t.session[s].metadata,
         NEW stream \in Stream
  PROVE  Heard(t, DetectChannel(t, s, stream), s)
<1> DEFINE r == t.session[s]
           heard == IF Channel(r, stream) = 1
                    THEN [t EXCEPT !.session[s].s1 = stream]
                    ELSE [t EXCEPT !.session[s].s2 = stream]
           late == [heard EXCEPT !.session[s].early = @ \/ ~conf.lookBack]
<1>1. Heard(t, heard, s)
  BY EditsHeard
<1>2. heard \in State /\ heard.session[s] # None /\ heard.session[s].metadata
  BY <1>1 DEF Heard
<1>3. \/ DetectChannel(t, s, stream) = t
      \/ DetectChannel(t, s, stream) = heard
      \/ DetectChannel(t, s, stream) = Start(late, s)
  BY DEF DetectChannel
<1> HIDE DEF heard
<1>4. Heard(heard, late, s)
  <2> PICK x \in BOOLEAN : x <=> (heard.session[s].early \/ ~conf.lookBack)
    OBVIOUS
  <2>1. heard.session[s].early \in BOOLEAN
    BY <1>2, StateFacts DEF SessionRecord
  <2>2. (heard.session[s].early \/ ~conf.lookBack) = x
    BY <2>1
  <2>3. late = [heard EXCEPT !.session[s].early = x]
    BY <2>2
  <2> QED
    BY <1>2, <2>3, EditsHeard
<1>5. late \in State /\ late.session[s] # None /\ late.session[s].metadata
  BY <1>2, <1>4 DEF Heard
<1> HIDE DEF late
<1>6. Heard(late, Start(late, s), s)
  BY <1>5, StartHeard
<1>7. Heard(t, Start(late, s), s)
  BY <1>1, <1>2, <1>4, <1>5, <1>6, HeardTwice
<1>8. Heard(t, t, s)
  BY HeardOnce
<1> QED
  BY <1>1, <1>3, <1>7, <1>8

LEMMA NamedHeard ==
  ASSUME NEW t \in State, NEW s \in Session, t.session[s] # None
  PROVE  Heard(t, Named(t, s), s) /\ Named(t, s).session[s].metadata
<1>1. CASE t.session[s].metadata
  BY <1>1, HeardOnce DEF Named
<1>2. CASE ~t.session[s].metadata
  <2> DEFINE r == t.session[s]
             q == [r EXCEPT !.metadata = TRUE, !.port = s]
  <2>0. r \in SessionRecord
    BY StateFacts
  <2>n. q \in SessionRecord => q # None
    BY NoneAssumption
  <2>1. /\ q \in SessionRecord
        /\ q.proto = r.proto /\ q.callId = r.callId /\ q.addr = r.addr /\ q.addrs = r.addrs
        /\ q.stopped = r.stopped /\ q.metadata /\ q.port = s /\ q.started = r.started
    BY <2>0 DEF SessionRecord
  <2>2. Named(t, s) = Put(t, s, q)
    BY <1>2 DEF Named, Put
  <2> HIDE DEF q
  <2>3. /\ Put(t, s, q) \in State /\ Put(t, s, q).session[s] = q
        /\ \A x \in Session \ {s} : Put(t, s, q).session[x] = t.session[x]
        /\ Put(t, s, q).byAddr = t.byAddr /\ Put(t, s, q).byCall = t.byCall
        /\ Put(t, s, q).open = t.open
    BY <2>1, PutIs
  <2> QED
    BY <1>2, <2>n, <2>1, <2>2, <2>3 DEF Heard
<1> QED
  BY <1>1, <1>2

LEMMA PreparedHeard ==
  ASSUME NEW t \in State, NEW s \in Session, t.session[s] # None
  PROVE  Heard(t, Prepared(t, s), s) /\ Prepared(t, s).session[s].metadata
<1> DEFINE n == Named(t, s)
           w == StartOrWait(n, s)
           e == [w EXCEPT !.session[s].early = TRUE]
<1>1. Heard(t, n, s) /\ n.session[s].metadata
  BY NamedHeard
<1>2. n \in State /\ n.session[s] # None
  BY <1>1 DEF Heard
<1>3. Prepared(t, s) \in {n, w, e}
  BY DEF Prepared
<1> HIDE DEF n
<1>4. Heard(n, w, s) /\ w.session[s].metadata
  BY <1>1, <1>2, StartOrWaitHeard
<1>5. w \in State /\ w.session[s] # None
  BY <1>4 DEF Heard
<1> HIDE DEF w
<1>6. Heard(w, e, s)
  BY <1>5, EditsHeard
<1>7. e.session[s].metadata
  BY <1>4, <1>6 DEF Heard
<1> HIDE DEF e
<1>8. Heard(t, w, s)
  BY <1>1, <1>4, HeardTwice
<1>9. Heard(t, e, s)
  BY <1>8, <1>6, HeardTwice
<1> QED
  BY <1>1, <1>3, <1>4, <1>7, <1>8, <1>9

\* Packets of the wire.
PacketRecord == [stream: Stream, kind: Kinds, again: BOOLEAN]

LEMMA IgnoredHeard ==
  ASSUME NEW t \in State, NEW s \in Session, t.session[s] # None, t.session[s].metadata,
         NEW p \in PacketRecord
  PROVE  Heard(t, Ignored(t, s, p), s)
<1> DEFINE d == IF t.session[s].early THEN t ELSE DetectChannel(t, s, p.stream)
<1>1. Heard(t, d, s)
  BY DetectHeard, HeardOnce DEF PacketRecord
<1>2. d \in State /\ d.session[s] # None
  BY <1>1 DEF Heard
<1>3. Ignored(t, s, p) = [d EXCEPT !.session[s].age = 0, !.session[s].ignored = Bump(d.session[s].ignored)]
  BY DEF Ignored
<1> HIDE DEF d
<1>4. Bump(d.session[s].ignored) \in 0 .. MaxCount
  <2>1. d.session[s].ignored \in 0 .. MaxCount
    BY <1>2, StateFacts DEF SessionRecord
  <2> QED
    BY <2>1, Bounds
<1>5. Heard(d, Ignored(t, s, p), s)
  BY <1>2, <1>3, <1>4, TwoEdits, ZenonT(40)
<1> QED
  BY <1>1, <1>5, HeardTwice

LEMMA ResumedHeard ==
  ASSUME NEW t \in State, NEW s \in Session, t.session[s] # None, NEW p
  PROVE  Heard(t, Resumed(t, s, p), s)
<1>1. PICK d \in {t, GoOffHold(t, s)} : Resumed(t, s, p) = [d EXCEPT !.session[s].last = TRUE]
  BY DEF Resumed
<1>2. Heard(t, d, s)
  BY HeardOnce, TwoEdits
<1>3. d \in State /\ d.session[s] # None
  BY <1>2 DEF Heard
<1>4. Heard(d, Resumed(t, s, p), s)
  BY <1>1, <1>3, EditsHeard
<1> QED
  BY <1>2, <1>4, HeardTwice

LEMMA CountedHeard ==
  ASSUME NEW t \in State, NEW s \in Session, t.session[s] # None, t.session[s].metadata
  PROVE  Heard(t, Counted(t, s), s)
<1> DEFINE n == Bump(t.session[s].rtp)
           d == [t EXCEPT !.session[s].rtp = n, !.session[s].age = 0]
           e == IF conf.lookBack /\ EnoughPackets(d.session[s]) THEN StartOrWait(d, s) ELSE d
           p == e.session[s].port
<1>1. n \in 0 .. MaxCount
  <2>1. t.session[s].rtp \in 0 .. MaxCount
    BY StateFacts DEF SessionRecord
  <2> QED
    BY <2>1, Bounds
<1>2. Counted(t, s) = IF e.session[s].started THEN TellAudio(e, p) ELSE e
  BY DEF Counted
<1> HIDE DEF n
<1>3. Heard(t, d, s)
  BY <1>1, TwoEdits
<1>4. d \in State /\ d.session[s] # None /\ d.session[s].metadata
  BY <1>3 DEF Heard
<1> HIDE DEF d
<1>5. Heard(d, e, s)
  BY <1>4, HeardOnce, StartOrWaitHeard
<1>6. Heard(t, e, s)
  BY <1>3, <1>5, HeardTwice
<1>7. e \in State /\ e.session[s] # None /\ p \in Session \cup {None}
  BY <1>6 DEF Heard, SessionRecord
<1> HIDE DEF e
<1>8. Heard(e, TellAudio(e, p), s)
  BY <1>7, AudioHeard
<1> QED
  BY <1>2, <1>6, <1>8, HeardTwice

LEMMA SortedHeard ==
  ASSUME NEW t \in State, NEW s \in Session, t.session[s] # None, t.session[s].metadata,
         NEW p \in PacketRecord
  PROVE  /\ Heard(t, Sorted(t, s, p).t, s)
         /\ Sorted(t, s, p).ok \/ conf.breaks
<1> DEFINE d == DetectChannel(t, s, p.stream)
           e == [d EXCEPT !.session[s].s1 = p.stream]
           f == [d EXCEPT !.session[s].s2 = p.stream]
<1>0. p.stream \in Stream
  BY DEF PacketRecord
<1>1. Heard(t, d, s)
  BY <1>0, DetectHeard
<1>2. d \in State /\ d.session[s] # None /\ d.session[s].metadata
  BY <1>1 DEF Heard
<1>3. /\ Sorted(t, s, p).t \in {d, Counted(e, s), Counted(f, s), Counted(d, s)}
      /\ Sorted(t, s, p).ok \/ conf.breaks
  BY DEF Sorted
<1> HIDE DEF d
<1>4. Heard(d, e, s) /\ Heard(d, f, s)
  BY <1>0, <1>2, EditsHeard
<1>5. /\ e \in State /\ e.session[s] # None /\ e.session[s].metadata
      /\ f \in State /\ f.session[s] # None /\ f.session[s].metadata
  BY <1>2, <1>4 DEF Heard
<1> HIDE DEF e, f
<1>6. Heard(d, Counted(d, s), s) /\ Heard(e, Counted(e, s), s) /\ Heard(f, Counted(f, s), s)
  BY <1>2, <1>5, CountedHeard
<1>7. Heard(t, e, s) /\ Heard(t, f, s) /\ Heard(t, Counted(d, s), s)
  BY <1>1, <1>4, <1>6, HeardTwice
<1>8. Heard(t, Counted(e, s), s) /\ Heard(t, Counted(f, s), s)
  BY <1>6, <1>7, HeardTwice
<1> QED
  BY <1>1, <1>3, <1>7, <1>8

\* AddRtpPacket: a broken stream is reported only when the configuration asks for it.
LEMMA PacketHeard ==
  ASSUME NEW t \in State, NEW s \in Session, t.session[s] # None, NEW p \in PacketRecord
  PROVE  /\ Heard(t, AddRtpPacket(t, s, p).t, s)
         /\ AddRtpPacket(t, s, p).ok \/ conf.breaks
<1> DEFINE d == Prepared(t, s)
           r == d.session[s]
           e == IF ~conf.lookBack /\ r.rtp = 0 /\ ~r.early THEN StartOrWait(d, s) ELSE d
           f == Resumed(e, s, p)
<1>1. Heard(t, d, s) /\ d.session[s].metadata
  BY PreparedHeard
<1>2. d \in State /\ d.session[s] # None
  BY <1>1 DEF Heard
<1>3. \/ AddRtpPacket(t, s, p) = [t |-> Ignored(d, s, p), ok |-> TRUE]
      \/ AddRtpPacket(t, s, p) = [t |-> e, ok |-> TRUE]
      \/ AddRtpPacket(t, s, p) = Sorted(f, s, p)
  BY DEF AddRtpPacket
<1> HIDE DEF d
<1>4. Heard(d, Ignored(d, s, p), s)
  BY <1>1, <1>2, IgnoredHeard
<1>5. Heard(d, e, s) /\ e.session[s].metadata
  BY <1>1, <1>2, StartOrWaitHeard, HeardOnce
<1>6. e \in State /\ e.session[s] # None
  BY <1>5 DEF Heard
<1> HIDE DEF e
<1>7. Heard(e, f, s)
  BY <1>6, ResumedHeard
<1>8. f \in State /\ f.session[s] # None /\ f.session[s].metadata
  BY <1>5, <1>7 DEF Heard
<1> HIDE DEF f
<1>9. Heard(f, Sorted(f, s, p).t, s) /\ (Sorted(f, s, p).ok \/ conf.breaks)
  BY <1>8, SortedHeard
<1>10. Heard(t, Ignored(d, s, p), s) /\ Heard(t, e, s)
  BY <1>1, <1>4, <1>5, HeardTwice
<1>11. Heard(t, f, s)
  BY <1>7, <1>10, HeardTwice
<1>12. Heard(t, Sorted(f, s, p).t, s)
  BY <1>9, <1>11, HeardTwice
<1>13. CASE AddRtpPacket(t, s, p) = [t |-> Ignored(d, s, p), ok |-> TRUE]
  BY <1>10, <1>13
<1>14. CASE AddRtpPacket(t, s, p) = [t |-> e, ok |-> TRUE]
  BY <1>10, <1>14
<1>15. CASE AddRtpPacket(t, s, p) = Sorted(f, s, p)
  BY <1>9, <1>12, <1>15
<1> QED
  BY <1>3, <1>13, <1>14, <1>15

\* Hold by signalling, and what a command or an invite asks to record.
LEMMA HoldHeard ==
  ASSUME NEW t \in State, NEW s \in Session, t.session[s] # None
  PROVE  /\ Heard(t, GoOnHold(t, s), s)
         /\ Heard(t, GoOffHold(t, s), s)
         /\ \A x \in BOOLEAN : Heard(t, [t EXCEPT !.session[s].keep = @ \/ x], s)
<1>0. t.session[s].hold \in BOOLEAN /\ t.session[s].started \in BOOLEAN /\ t.session[s].keep \in BOOLEAN
  BY StateFacts DEF SessionRecord
<1>1. Heard(t, GoOnHold(t, s), s)
  <2>1. GoOnHold(t, s) = [t EXCEPT !.session[s].hold = t.session[s].hold \/ t.session[s].started]
    BY DEF GoOnHold
  <2>2. (t.session[s].hold \/ t.session[s].started) \in BOOLEAN
    BY <1>0
  <2> QED
    BY <2>1, <2>2, EditsHeard
<1>2. \A x \in BOOLEAN : Heard(t, [t EXCEPT !.session[s].keep = @ \/ x], s)
  <2> TAKE x \in BOOLEAN
  <2>1. (t.session[s].keep \/ x) \in BOOLEAN
    BY <1>0
  <2> QED
    BY <2>1, EditsHeard
<1> QED
  BY <1>1, <1>2, TwoEdits

-----------------------------------------------------------------------------
(* What a handler keeps.                                                     *)

Live(r) == r # None /\ r.started /\ ~r.stopped
Leads(t, s) == \/ \E a \in Address : t.byAddr[a] = s
               \/ \E c \in Call \cup {None} : t.byCall[c] = s
StaleIn(t) == t.byCall[None] # None /\ t.session[t.byCall[None]].stopped

\* A session by itself: its address is one of those it has, and the only one unless the
\* configuration k allows more; a recording has its metadata; signalling has a call id.
Shape(k, s, r) ==
  /\ r.addrs = {} \/ r.addr \in r.addrs
  /\ ~k.multi => r.addrs \subseteq {r.addr}
  /\ r.started => r.metadata
  /\ r.port \in {None, s}
  /\ r.proto = "Sip" => r.callId # None
  /\ r.proto = "Skinny" /\ r.callId = None => k.lateInfo

\* The maps and the sessions: an address leads to a session that knows of it, a call id to
\* the session of the call.
Sound(k, t) ==
  /\ t \in State /\ t.byAddr[None] = None
  /\ \A a \in Address : t.byAddr[a] # None =>
        t.session[t.byAddr[a]] # None /\ a \in t.session[t.byAddr[a]].addrs
  /\ \A c \in Call \cup {None} : t.byCall[c] # None =>
        /\ t.session[t.byCall[c]] # None
        /\ c # None \/ ~k.lateInfo => t.session[t.byCall[c]].callId = c
  /\ \A s \in Session : t.session[s] # None => Shape(k, s, t.session[s])

\* What an address or a call id leads to goes on.
Tidy(t) ==
  /\ \A a \in Address : t.byAddr[a] # None => ~t.session[t.byAddr[a]].stopped
  /\ \A c \in Call : t.byCall[c] # None => ~t.session[t.byCall[c]].stopped

\* The call id of s leads to s.
CallLeads(t, s) == t.session[s].callId # None => t.byCall[t.session[s].callId] = s

\* A session that an address leads to is the one its call id leads to, but for the session
\* x that a handler is making; an open port is that of a session that goes on, and some map
\* leads to every such session.
Led(t, x) ==
  /\ \A a \in Address : t.byAddr[a] \notin {None, x} => CallLeads(t, t.byAddr[a])
  /\ \A p \in t.open \ {None} : Live(t.session[p]) /\ t.session[p].port = p
  /\ None \in t.open => \E s \in Session : Live(t.session[s]) /\ t.session[s].port = None
  /\ \A s \in Session : Live(t.session[s]) => Leads(t, s)

\* What a packet or a hold does keeps the maps and the sessions sound.
LEMMA HeardSound ==
  ASSUME NEW k, NEW t, Sound(k, t), NEW s \in Session, t.session[s] # None, NEW u, Heard(t, u, s)
  PROVE  Sound(k, u) /\ (StaleIn(t) => StaleIn(u))
<1>1. t \in State /\ u \in State /\ u.byAddr = t.byAddr /\ u.byCall = t.byCall
  BY DEF Heard, Sound
<1>2. \A x \in Session : /\ u.session[x] = None <=> t.session[x] = None
                         /\ u.session[x].addrs = t.session[x].addrs
                         /\ u.session[x].callId = t.session[x].callId
                         /\ u.session[x].stopped = t.session[x].stopped
  BY DEF Heard
<1>3. \A a \in Address : t.byAddr[a] \in Session \cup {None}
  BY <1>1, StateFacts
<1>4. \A c \in Call \cup {None} : t.byCall[c] \in Session \cup {None}
  BY <1>1, StateFacts
<1>5. \A a \in Address : u.byAddr[a] # None =>
        u.session[u.byAddr[a]] # None /\ a \in u.session[u.byAddr[a]].addrs
  BY <1>1, <1>2, <1>3 DEF Sound
<1>6. \A c \in Call \cup {None} : u.byCall[c] # None =>
        /\ u.session[u.byCall[c]] # None
        /\ c # None \/ ~k.lateInfo => u.session[u.byCall[c]].callId = c
  BY <1>1, <1>2, <1>4 DEF Sound
<1>7. \A x \in Session : u.session[x] # None => Shape(k, x, u.session[x])
  <2> TAKE x \in Session
  <2>1. CASE x # s
    BY <1>2, <2>1 DEF Heard, Sound
  <2>2. CASE x = s
    <3> DEFINE r == t.session[s]
               q == u.session[s]
    <3>1. Shape(k, s, r)
      BY DEF Sound
    <3>2. /\ q.proto \in {r.proto, "RawRtp"}
          /\ q.callId = r.callId /\ q.addr = r.addr /\ q.addrs = r.addrs
          /\ r.metadata => q.metadata /\ q.port = r.port
          /\ q.port \in {r.port, s}
          /\ \/ q.started <=> r.started
             \/ q.started /\ q.metadata
      BY DEF Heard
    <3> HIDE DEF r, q
    <3>3. Shape(k, s, q)
      BY <3>1, <3>2 DEF Shape
    <3> QED
      BY <2>2, <3>3 DEF q
  <2> QED
    BY <2>1, <2>2
<1>8. StaleIn(t) => StaleIn(u)
  BY <1>1, <1>2, <1>4 DEF StaleIn
<1> QED
  BY <1>1, <1>5, <1>6, <1>7, <1>8 DEF Sound

\* The session is still there.
LEMMA HeardWhole ==
  ASSUME NEW k, NEW t, Sound(k, t), NEW s \in Session, t.session[s] # None, NEW u, Heard(t, u, s)
  PROVE  /\ u \in State /\ u.session[s] # None /\ Sound(k, u)
         /\ t.session[s].metadata => u.session[s].metadata
<1>1. u \in State /\ u.session[s] # None /\ (t.session[s].metadata => u.session[s].metadata)
  BY DEF Heard
<1>2. Sound(k, u)
  BY HeardSound
<1> QED
  BY <1>1, <1>2

LEMMA HeardTidy ==
  ASSUME NEW k, NEW t, Sound(k, t), Tidy(t), NEW s \in Session, NEW u, Heard(t, u, s)
  PROVE  Tidy(u)
<1>1. /\ \A a \in Address : t.byAddr[a] \in Session \cup {None}
      /\ \A c \in Call : t.byCall[c] \in Session \cup {None}
  BY StateFacts DEF Sound
<1>2. \A x \in Session : u.session[x].stopped = t.session[x].stopped
  BY DEF Heard
<1> QED
  BY <1>1, <1>2 DEF Tidy, Heard

LEMMA HeardLed ==
  ASSUME NEW k, NEW t, Sound(k, t), NEW x, Led(t, x), NEW s \in Session, t.session[s] # None,
         ~t.session[s].stopped, Leads(t, s), NEW u, Heard(t, u, s)
  PROVE  Led(u, x)
<1> DEFINE r == t.session[s]
           q == u.session[s]
<1>1. t \in State /\ u \in State /\ u.byAddr = t.byAddr /\ u.byCall = t.byCall
  BY DEF Heard, Sound
<1>2. \A y \in Session : /\ u.session[y].callId = t.session[y].callId
                         /\ y # s => u.session[y] = t.session[y]
  BY DEF Heard
<1>3. \A a \in Address : t.byAddr[a] \in Session \cup {None}
  BY <1>1, StateFacts
<1>4. \A a \in Address : u.byAddr[a] \notin {None, x} => CallLeads(u, u.byAddr[a])
  BY <1>1, <1>2, <1>3 DEF Led, CallLeads
<1>5. Shape(k, s, r)
  BY DEF Sound
<1>6. /\ r.started => q.port = r.port
      /\ q.port \in {None, s} /\ ~q.stopped /\ q # None
      /\ \/ (q.started <=> r.started) /\ u.open = t.open
         \/ q.started /\ u.open = t.open \cup {q.port}
  BY <1>5 DEF Heard, Shape
<1>7. r # None /\ ~r.stopped
  OBVIOUS
<1>8. u.open \subseteq Session \cup {None}
  BY <1>1, StateFacts
<1> HIDE DEF r, q
<1>9. Live(r) => Live(q) /\ q.port = r.port
  BY <1>6 DEF Live
<1>10. q.port \in u.open \/ u.open = t.open
  BY <1>6
<1>11. u.open # t.open => Live(q) /\ u.open = t.open \cup {q.port}
  BY <1>6 DEF Live
<1>12. \A p \in u.open \ {None} : Live(u.session[p]) /\ u.session[p].port = p
  <2> TAKE p \in u.open \ {None}
  <2>1. p \in Session
    BY <1>8
  <2>2. CASE p \in t.open
    <3>1. Live(t.session[p]) /\ t.session[p].port = p
      BY <2>2 DEF Led
    <3>2. CASE p = s
      BY <1>9, <3>1, <3>2 DEF r, q
    <3>3. CASE p # s
      BY <1>2, <2>1, <3>1, <3>3
    <3> QED
      BY <3>2, <3>3
  <2>3. CASE p \notin t.open
    <3>1. p = q.port /\ Live(q)
      BY <1>11, <2>3
    <3>2. p = s
      BY <1>6, <3>1
    <3> QED
      BY <3>1, <3>2 DEF q
  <2> QED
    BY <2>2, <2>3
<1>13. None \in u.open => \E y \in Session : Live(u.session[y]) /\ u.session[y].port = None
  <2>1. CASE None \in t.open
    <3>1. PICK y \in Session : Live(t.session[y]) /\ t.session[y].port = None
      BY <2>1 DEF Led
    <3>2. CASE y = s
      BY <1>9, <3>1, <3>2 DEF r, q
    <3>3. CASE y # s
      BY <1>2, <3>1, <3>3
    <3> QED
      BY <3>2, <3>3
  <2>2. CASE None \notin t.open
    BY <1>11, <2>2 DEF q
  <2> QED
    BY <2>1, <2>2
<1>14. \A y \in Session : Live(u.session[y]) => Leads(u, y)
  <2> TAKE y \in Session
  <2>1. Leads(t, y) => Leads(u, y)
    BY <1>1 DEF Leads
  <2>2. CASE y = s
    BY <2>1, <2>2
  <2>3. CASE y # s
    BY <1>2, <2>1, <2>3 DEF Led
  <2> QED
    BY <2>2, <2>3
<1> QED
  BY <1>4, <1>12, <1>13, <1>14 DEF Led

-----------------------------------------------------------------------------
(* The end of sessions.                                                      *)

\* Of the sessions S every one is over, and out of both maps (StopEach, field by field).
Ended(t, S, u) ==
  /\ u \in State
  /\ \A y \in Session \ S : u.session[y] = t.session[y]
  /\ \A s \in S : LET r == t.session[s]
                      q == u.session[s]
                  IN  /\ q \in SessionRecord /\ q # None
                      /\ q.proto = r.proto /\ q.callId = r.callId /\ q.addr = r.addr
                      /\ q.addrs = {} /\ q.started = r.started
                      /\ q.metadata = r.metadata /\ q.port = r.port
                      /\ q.stopped <=> r.stopped \/ r.started
  /\ \A a \in Address \cup {None} : u.byAddr[a] =
        IF t.byAddr[a] \in S /\ a \in t.session[t.byAddr[a]].addrs THEN None ELSE t.byAddr[a]
  /\ \A c \in Call \cup {None} : u.byCall[c] =
        IF c # None /\ \E s \in S : t.session[s].callId = c THEN None ELSE t.byCall[c]
  /\ u.open = t.open \ {t.session[s].port : s \in {v \in S : Live(t.session[v])}}

LEMMA StopEachIs ==
  ASSUME NEW t \in State, NEW S, S \subseteq Session, \A s \in S : t.session[s] # None, NEW u,
         u = StopEach(t, S)
  PROVE  Ended(t, S, u)
<1> DEFINE live == {s \in S : t.session[s].started /\ ~t.session[s].stopped}
           ports == {t.session[s].port : s \in live}
           again == {t.session[s].port : s \in
                       {w \in live : \E v \in live \ {w} : t.session[v].port = t.session[w].port}}
           ses == [s \in Session |->
                     IF s \in S THEN [t.session[s] EXCEPT !.stopped = @ \/ s \in live, !.addrs = {}]
                     ELSE t.session[s]]
           adr == [a \in DOMAIN t.byAddr |->
                     IF t.byAddr[a] \in S /\ a \in t.session[t.byAddr[a]].addrs THEN None
                     ELSE t.byAddr[a]]
           cal == [c \in DOMAIN t.byCall |->
                     IF c # None /\ \E s \in S : t.session[s].callId = c THEN None ELSE t.byCall[c]]
           mis == t.misheard \cup again \cup (ports \ t.open)
<1>1. u = [session |-> ses, byAddr |-> adr, byCall |-> cal, open |-> t.open \ ports, misheard |-> mis]
  BY DEF StopEach
<1>2. \A s \in S : LET r == t.session[s]
                       q == ses[s]
                   IN  /\ q \in SessionRecord
                       /\ q.proto = r.proto /\ q.callId = r.callId /\ q.addr = r.addr
                       /\ q.addrs = {} /\ q.started = r.started
                       /\ q.metadata = r.metadata /\ q.port = r.port
                       /\ q.stopped <=> r.stopped \/ r.started
  <2> TAKE s \in S
  <2> DEFINE r == t.session[s]
             b == r.stopped \/ s \in live
             q == [r EXCEPT !.stopped = b, !.addrs = {}]
  <2>1. r \in SessionRecord
    BY StateFacts
  <2>2. b <=> r.stopped \/ r.started
    OBVIOUS
  <2>3. ses[s] = q
    OBVIOUS
  <2>4. b \in BOOLEAN
    BY <2>1 DEF SessionRecord
  <2> HIDE DEF b, r
  <2>5. /\ q \in SessionRecord
        /\ q.proto = r.proto /\ q.callId = r.callId /\ q.addr = r.addr
        /\ q.addrs = {} /\ q.started = r.started
        /\ q.metadata = r.metadata /\ q.port = r.port
        /\ q.stopped = b
    BY <2>1, <2>4, ZenonT(40) DEF SessionRecord
  <2> HIDE DEF ses, q
  <2> QED
    BY <2>2, <2>3, <2>5 DEF r
<1>3. ses \in [Session -> SessionRecord \cup {None}]
  <2>1. \A y \in Session : y \notin S => ses[y] = t.session[y]
    OBVIOUS
  <2>2. DOMAIN ses = Session /\ ses = [y \in Session |-> ses[y]]
    OBVIOUS
  <2> HIDE DEF ses
  <2>3. \A y \in Session : ses[y] \in SessionRecord \cup {None}
    BY <1>2, <2>1, StateFacts
  <2> QED
    BY <2>2, <2>3
<1>4. \A y \in Session \ S : ses[y] = t.session[y]
  OBVIOUS
<1>5. /\ adr \in [Address \cup {None} -> Session \cup {None}]
      /\ \A a \in Address \cup {None} : adr[a] =
           IF t.byAddr[a] \in S /\ a \in t.session[t.byAddr[a]].addrs THEN None ELSE t.byAddr[a]
  <2>1. DOMAIN t.byAddr = Address \cup {None}
        /\ \A a \in Address \cup {None} : t.byAddr[a] \in Session \cup {None}
    BY StateFacts
  <2> QED
    BY <2>1
<1>6. /\ cal \in [Call \cup {None} -> Session \cup {None}]
      /\ \A c \in Call \cup {None} : cal[c] =
           IF c # None /\ \E s \in S : t.session[s].callId = c THEN None ELSE t.byCall[c]
  <2>1. DOMAIN t.byCall = Call \cup {None}
        /\ \A c \in Call \cup {None} : t.byCall[c] \in Session \cup {None}
    BY StateFacts
  <2> QED
    BY <2>1
<1>7. ports \subseteq Session \cup {None} /\ again \subseteq ports
  <2>1. \A s \in S : t.session[s].port \in Session \cup {None}
    BY StateFacts DEF SessionRecord
  <2> QED
    BY <2>1
<1>8. ports = {t.session[s].port : s \in {v \in S : Live(t.session[v])}}
  <2>1. live = {v \in S : Live(t.session[v])}
    BY DEF Live
  <2> QED
    BY <2>1
<1>9. mis \subseteq Session \cup {None}
  BY <1>7, StateFacts
<1> HIDE DEF ses, adr, cal, ports, mis
<1>10. u \in State
  <2>1. t.open \ ports \subseteq Session \cup {None}
    BY StateFacts
  <2> QED
    BY <1>1, <1>3, <1>5, <1>6, <1>9, <2>1 DEF State
<1>11. u.session = ses /\ u.byAddr = adr /\ u.byCall = cal /\ u.open = t.open \ ports
  BY <1>1
<1>12. \A s \in S : ses[s] # None
  BY <1>2, StateFacts
<1> QED
  BY <1>2, <1>4, <1>5, <1>6, <1>8, <1>10, <1>11, <1>12 DEF Ended

\* The sessions stopped leave both maps, so the maps stay sound and what they lead to goes on.
LEMMA StopSound ==
  ASSUME NEW k, NEW t, Sound(k, t), NEW S, S \subseteq Session, \A s \in S : t.session[s] # None,
         NEW u, u = StopEach(t, S)
  PROVE  /\ Sound(k, u) /\ (StaleIn(t) => StaleIn(u))
         /\ Tidy(t) => Tidy(u)
         /\ \A a \in Address : u.byAddr[a] \notin S
         /\ \A a \in Address : t.byAddr[a] \notin S => u.byAddr[a] = t.byAddr[a]
<1>0. t \in State /\ t.byAddr[None] = None
  BY DEF Sound
<1>e. Ended(t, S, u)
  BY <1>0, StopEachIs
<1>1. /\ u \in State
      /\ \A y \in Session \ S : u.session[y] = t.session[y]
      /\ \A s \in S : LET r == t.session[s]
                          q == u.session[s]
                      IN  /\ q \in SessionRecord /\ q # None
                          /\ q.proto = r.proto /\ q.callId = r.callId /\ q.addr = r.addr
                          /\ q.addrs = {} /\ q.started = r.started
                          /\ q.metadata = r.metadata /\ q.port = r.port
                          /\ q.stopped <=> r.stopped \/ r.started
  BY <1>e DEF Ended
<1>2. /\ \A a \in Address \cup {None} : u.byAddr[a] =
            IF t.byAddr[a] \in S /\ a \in t.session[t.byAddr[a]].addrs THEN None ELSE t.byAddr[a]
      /\ \A c \in Call \cup {None} : u.byCall[c] =
            IF c # None /\ \E s \in S : t.session[s].callId = c THEN None ELSE t.byCall[c]
  BY <1>e DEF Ended
<1>3. /\ \A a \in Address : t.byAddr[a] \in Session \cup {None}
      /\ \A c \in Call \cup {None} : t.byCall[c] \in Session \cup {None}
  BY <1>0, StateFacts
<1>n. None \notin Session
  BY SessionsAssumption
<1>4. \A a \in Address : t.byAddr[a] \in S => u.byAddr[a] = None
  BY <1>2, <1>n DEF Sound
<1>5. \A a \in Address : t.byAddr[a] \notin S => u.byAddr[a] = t.byAddr[a]
  BY <1>2
<1>6. \A a \in Address : u.byAddr[a] \notin S
  BY <1>4, <1>5, <1>n
<1>7. \A c \in Call : t.byCall[c] \in S => u.byCall[c] = None
  BY <1>2, <1>n, SessionsAssumption DEF Sound, Call
<1>8. \A c \in Call : u.byCall[c] # None => u.byCall[c] = t.byCall[c] /\ u.byCall[c] \notin S
  BY <1>2, <1>7
<1>9. u.byCall[None] = t.byCall[None] /\ u.byAddr[None] = None
  BY <1>0, <1>2
<1>10. \A s \in Session : /\ u.session[s] = None <=> t.session[s] = None
                          /\ t.session[s].stopped => u.session[s].stopped
                          /\ u.session[s].callId = t.session[s].callId
  BY <1>1
<1>11. \A s \in Session : u.session[s] # None => Shape(k, s, u.session[s])
  <2> TAKE s \in Session
  <2> HAVE u.session[s] # None
  <2>1. Shape(k, s, t.session[s])
    BY <1>10 DEF Sound
  <2>2. CASE s \notin S
    BY <1>1, <2>1, <2>2
  <2>3. CASE s \in S
    <3> DEFINE r == t.session[s]
               q == u.session[s]
    <3>1. /\ q.proto = r.proto /\ q.callId = r.callId
          /\ q.addrs = {} /\ q.started = r.started
          /\ q.metadata = r.metadata /\ q.port = r.port
      BY <1>1, <2>3
    <3>2. Shape(k, s, r)
      BY <2>1
    <3> HIDE DEF r, q
    <3>3. Shape(k, s, q)
      BY <3>1, <3>2 DEF Shape
    <3> QED
      BY <3>3 DEF q
  <2> QED
    BY <2>2, <2>3
<1>12. \A a \in Address : u.byAddr[a] # None =>
         u.session[u.byAddr[a]] # None /\ a \in u.session[u.byAddr[a]].addrs
  BY <1>1, <1>3, <1>4, <1>5 DEF Sound
<1>13. \A c \in Call \cup {None} : u.byCall[c] # None =>
         /\ u.session[u.byCall[c]] # None
         /\ c # None \/ ~k.lateInfo => u.session[u.byCall[c]].callId = c
  BY <1>3, <1>8, <1>9, <1>10 DEF Sound
<1>14. Tidy(t) => Tidy(u)
  BY <1>1, <1>3, <1>4, <1>5, <1>8 DEF Tidy
<1>15. StaleIn(t) => StaleIn(u)
  BY <1>3, <1>9, <1>10 DEF StaleIn
<1> QED
  BY <1>1, <1>5, <1>6, <1>9, <1>11, <1>12, <1>13, <1>14, <1>15 DEF Sound

\* A call id leads to the session it is the call id of, or to none.
LEMMA StopLed ==
  ASSUME NEW k, NEW t, Sound(k, t), NEW x, Led(t, x),
         NEW S, S \subseteq Session, \A s \in S : t.session[s] # None,
         \A s \in S : t.session[s].callId # None => t.byCall[t.session[s].callId] \in {s, None},
         NEW u, u = StopEach(t, S)
  PROVE  Led(u, x)
<1>0. t \in State
  BY DEF Sound
<1>e. Ended(t, S, u)
  BY <1>0, StopEachIs
<1>1. /\ u \in State
      /\ \A y \in Session \ S : u.session[y] = t.session[y]
      /\ \A s \in S : /\ u.session[s].stopped <=> t.session[s].stopped \/ t.session[s].started
                      /\ u.session[s].started = t.session[s].started
  BY <1>e DEF Ended
<1>2. /\ \A c \in Call \cup {None} : u.byCall[c] =
            IF c # None /\ \E s \in S : t.session[s].callId = c THEN None ELSE t.byCall[c]
      /\ u.open = t.open \ {t.session[s].port : s \in {v \in S : Live(t.session[v])}}
  BY <1>e DEF Ended
<1>3. /\ \A a \in Address : t.byAddr[a] \in Session \cup {None}
      /\ t.open \subseteq Session \cup {None}
  BY <1>0, StateFacts
<1>n. None \notin Session
  BY SessionsAssumption
<1>4. \A a \in Address : u.byAddr[a] \notin S /\ (t.byAddr[a] \notin S => u.byAddr[a] = t.byAddr[a])
  BY StopSound
<1>5. \A y \in Session \ S : \A c \in Call \cup {None} : t.byCall[c] = y => u.byCall[c] = y
  <2> TAKE y \in Session \ S
  <2> TAKE c \in Call \cup {None}
  <2> HAVE t.byCall[c] = y
  <2>1. ASSUME c # None, NEW s \in S, t.session[s].callId = c  PROVE FALSE
    BY <1>n, <2>1
  <2> QED
    BY <1>2, <2>1
<1>6. \A s \in S : ~Live(u.session[s])
  BY <1>1 DEF Live
<1>7. \A a \in Address : u.byAddr[a] # None =>
         /\ t.byAddr[a] = u.byAddr[a] /\ u.byAddr[a] \in Session \ S
  <2> TAKE a \in Address
  <2> HAVE u.byAddr[a] # None
  <2>1. CASE t.byAddr[a] \notin S
    BY <1>3, <1>4, <2>1
  <2>2. CASE t.byAddr[a] \in S
    <3>1. \A b \in Address : t.byAddr[b] \in S => u.byAddr[b] = None
      <4> TAKE b \in Address
      <4> HAVE t.byAddr[b] \in S
      <4>1. u.byAddr[b] = IF t.byAddr[b] \in S /\ b \in t.session[t.byAddr[b]].addrs THEN None ELSE t.byAddr[b]
        BY <1>e DEF Ended
      <4> QED
        BY <1>n, <4>1 DEF Sound
    <3> QED
      BY <2>2, <3>1
  <2> QED
    BY <2>1, <2>2
<1>8. \A a \in Address : u.byAddr[a] \notin {None, x} => CallLeads(u, u.byAddr[a])
  <2> TAKE a \in Address
  <2> HAVE u.byAddr[a] \notin {None, x}
  <2>0. PICK y \in Session \ S : y = u.byAddr[a] /\ t.byAddr[a] = y /\ u.session[y] = t.session[y]
    BY <1>1, <1>7
  <2>1. CallLeads(t, y)
    BY <2>0 DEF Led
  <2>2. t.session[y] # None
    BY <1>n, <2>0 DEF Sound
  <2>3. t.session[y].callId \in Call \cup {None}
    BY <1>0, <2>2, StateFacts DEF SessionRecord
  <2> QED
    BY <1>5, <2>0, <2>1, <2>3 DEF CallLeads
<1>9. \A p \in u.open \ {None} : Live(u.session[p]) /\ u.session[p].port = p
  <2> TAKE p \in u.open \ {None}
  <2>1. p \in t.open /\ p \in Session
    BY <1>2, <1>3
  <2>2. Live(t.session[p]) /\ t.session[p].port = p
    BY <2>1 DEF Led
  <2>3. p \notin S
    BY <1>2, <2>2
  <2> QED
    BY <1>1, <2>1, <2>2, <2>3
<1>10. None \in u.open => \E s \in Session : Live(u.session[s]) /\ u.session[s].port = None
  <2> HAVE None \in u.open
  <2>1. PICK y \in Session : Live(t.session[y]) /\ t.session[y].port = None
    BY <1>2 DEF Led
  <2>2. y \notin S
    BY <1>2, <2>1
  <2> QED
    BY <1>1, <2>1, <2>2
<1>11. \A s \in Session : Live(u.session[s]) => Leads(u, s)
  <2> TAKE s \in Session
  <2> HAVE Live(u.session[s])
  <2>1. s \notin S
    BY <1>6
  <2>2. Live(t.session[s])
    BY <1>1, <2>1
  <2>3. Leads(t, s)
    BY <2>2 DEF Led
  <2> QED
    BY <1>4, <1>5, <2>1, <2>3 DEF Leads
<1> QED
  BY <1>8, <1>9, <1>10, <1>11 DEF Led

-----------------------------------------------------------------------------
(* The address of a session.                                                 *)

\* An address taken from its session.
LEMMA UnmapIs ==
  ASSUME NEW t \in State, NEW s \in Session, NEW A
  PROVE  /\ Unmap(t, s, A) \in State
         /\ Unmap(t, s, A).session = t.session /\ Unmap(t, s, A).byCall = t.byCall
         /\ Unmap(t, s, A).open = t.open /\ Unmap(t, s, A).misheard = t.misheard
         /\ \A b \in Address \cup {None} : Unmap(t, s, A).byAddr[b] =
               IF b \in A /\ t.byAddr[b] = s THEN None ELSE t.byAddr[b]
<1> DEFINE new == [a \in DOMAIN t.byAddr |-> IF a \in A /\ t.byAddr[a] = s THEN None ELSE t.byAddr[a]]
<1>0. /\ DOMAIN t.byAddr = Address \cup {None}
      /\ \A b \in Address \cup {None} : t.byAddr[b] \in Session \cup {None}
  BY StateFacts
<1>1. /\ new \in [Address \cup {None} -> Session \cup {None}]
      /\ \A b \in Address \cup {None} : new[b] =
            IF b \in A /\ t.byAddr[b] = s THEN None ELSE t.byAddr[b]
  BY <1>0
<1>2. Unmap(t, s, A) = [t EXCEPT !.byAddr = new]
  BY DEF Unmap
<1> HIDE DEF new
<1>3. Unmap(t, s, A).byAddr = new /\ Unmap(t, s, A) \in State
      /\ Unmap(t, s, A).session = t.session /\ Unmap(t, s, A).byCall = t.byCall
      /\ Unmap(t, s, A).open = t.open /\ Unmap(t, s, A).misheard = t.misheard
  BY <1>1, <1>2 DEF State
<1> QED
  BY <1>1, <1>3

\* A free address led to a session, and a free call id.
LEMMA MapAddrIs ==
  ASSUME NEW t \in State, NEW s \in Session, NEW a \in Address
  PROVE  /\ MapAddr(t, a, s) \in State
         /\ MapAddr(t, a, s).session = t.session /\ MapAddr(t, a, s).byCall = t.byCall
         /\ MapAddr(t, a, s).open = t.open /\ MapAddr(t, a, s).misheard = t.misheard
         /\ \A b \in Address \cup {None} : MapAddr(t, a, s).byAddr[b] =
               IF b = a /\ t.byAddr[a] = None THEN s ELSE t.byAddr[b]
<1> DEFINE new == [t.byAddr EXCEPT ![a] = IF t.byAddr[a] = None THEN s ELSE t.byAddr[a]]
<1>1. /\ new \in [Address \cup {None} -> Session \cup {None}]
      /\ \A b \in Address \cup {None} : new[b] =
            IF b = a /\ t.byAddr[a] = None THEN s ELSE t.byAddr[b]
  BY StateFacts
<1>2. MapAddr(t, a, s) = [t EXCEPT !.byAddr = new]
  BY DEF MapAddr
<1> HIDE DEF new
<1>3. MapAddr(t, a, s).byAddr = new /\ MapAddr(t, a, s) \in State
      /\ MapAddr(t, a, s).session = t.session /\ MapAddr(t, a, s).byCall = t.byCall
      /\ MapAddr(t, a, s).open = t.open /\ MapAddr(t, a, s).misheard = t.misheard
  BY <1>1, <1>2 DEF State
<1> QED
  BY <1>1, <1>3

LEMMA MapCallIs ==
  ASSUME NEW t \in State, NEW s \in Session, NEW c \in Call \cup {None}
  PROVE  /\ MapCall(t, c, s) \in State
         /\ MapCall(t, c, s).session = t.session /\ MapCall(t, c, s).byAddr = t.byAddr
         /\ MapCall(t, c, s).open = t.open /\ MapCall(t, c, s).misheard = t.misheard
         /\ \A d \in Call \cup {None} : MapCall(t, c, s).byCall[d] =
               IF d = c /\ t.byCall[c] = None THEN s ELSE t.byCall[d]
<1> DEFINE new == [t.byCall EXCEPT ![c] = IF t.byCall[c] = None THEN s ELSE t.byCall[c]]
<1>1. /\ new \in [Call \cup {None} -> Session \cup {None}]
      /\ \A d \in Call \cup {None} : new[d] =
            IF d = c /\ t.byCall[c] = None THEN s ELSE t.byCall[d]
  BY StateFacts
<1>2. MapCall(t, c, s) = [t EXCEPT !.byCall = new]
  BY DEF MapCall
<1> HIDE DEF new
<1>3. MapCall(t, c, s).byCall = new /\ MapCall(t, c, s) \in State
      /\ MapCall(t, c, s).session = t.session /\ MapCall(t, c, s).byAddr = t.byAddr
      /\ MapCall(t, c, s).open = t.open /\ MapCall(t, c, s).misheard = t.misheard
  BY <1>1, <1>2 DEF State
<1> QED
  BY <1>1, <1>3

\* Before the session gets address a, a is taken from the one that has it.
Freed(t, a, f) ==
  \/ t.byAddr[a] = None /\ f = t
  \/ /\ t.byAddr[a] # None
     /\ \/ f = StopEach(t, {t.byAddr[a]})
        \/ f = Unmap(t, t.byAddr[a], {a}) /\ t.session[t.byAddr[a]].proto # "RawRtp"

\* What neither starts nor stops a recording, nor counts its packets.
SameTalk(r, q) ==
  /\ q.rtp = r.rtp /\ q.started = r.started /\ q.stopped = r.stopped /\ q.early = r.early
  /\ q.s1 = r.s1 /\ q.s2 = r.s2 /\ q.port = r.port
  /\ q.proto = r.proto \/ (~conf.multi /\ q.proto = "RawRtp")

\* Then the session leaves its other address, unless it may have several, and gets a.
Moved(f, s, a, u) ==
  LET r == f.session[s]
      q == u.session[s]
  IN  /\ u \in State /\ u.byCall = f.byCall /\ u.open = f.open /\ u.misheard = f.misheard
      /\ \A y \in Session \ {s} : u.session[y] = f.session[y]
      /\ q \in SessionRecord /\ q # None /\ q.addr = a /\ SameTalk(r, q)
      /\ q.addrs = IF conf.multi THEN r.addrs \cup {a} ELSE {a}
      /\ q.proto = r.proto /\ q.callId = r.callId /\ q.started = r.started
      /\ q.stopped = r.stopped /\ q.metadata = r.metadata /\ q.port = r.port
      /\ \A b \in Address \cup {None} : u.byAddr[b] =
            IF b = a THEN s
            ELSE IF ~conf.multi /\ b = r.addr /\ f.byAddr[b] = s THEN None ELSE f.byAddr[b]

LEMMA AddressEdit ==
  ASSUME NEW r \in SessionRecord, NEW A \in SUBSET Address, NEW a \in Address
  PROVE  [r EXCEPT !.addrs = A, !.addr = a] \in SessionRecord
<1>1. PICK q : q = [r EXCEPT !.addrs = A]
  OBVIOUS
<1>2. q \in SessionRecord
  BY <1>1 DEF SessionRecord
<1>3. [q EXCEPT !.addr = a] \in SessionRecord
  BY <1>2 DEF SessionRecord
<1>4. [r EXCEPT !.addrs = A, !.addr = a] = [q EXCEPT !.addr = a]
  BY <1>1
<1> QED
  BY <1>3, <1>4

LEMMA RemapIs ==
  ASSUME NEW f \in State, NEW s \in Session, f.session[s] # None, NEW a \in Address,
         f.byAddr[a] = None, NEW u, u = Remap(f, s, a)
  PROVE  Moved(f, s, a, u)
<1>1. PICK r \in SessionRecord : r = f.session[s]
  BY StateFacts
<1>2. PICK m \in State :
         /\ m.session = f.session /\ m.byCall = f.byCall
         /\ m.open = f.open /\ m.misheard = f.misheard
         /\ \A b \in Address \cup {None} : m.byAddr[b] =
               IF b = r.addr /\ f.byAddr[b] = s THEN None ELSE f.byAddr[b]
         /\ m = Unmap(f, s, {r.addr})
  <2>1. PICK m : m = Unmap(f, s, {r.addr})
    OBVIOUS
  <2>2. m \in State
    BY <2>1, UnmapIs
  <2>3. /\ m.session = f.session /\ m.byCall = f.byCall
        /\ m.open = f.open /\ m.misheard = f.misheard
    BY <2>1, UnmapIs
  <2>4. \A b \in Address \cup {None} : m.byAddr[b] =
              IF b \in {r.addr} /\ f.byAddr[b] = s THEN None ELSE f.byAddr[b]
    BY <2>1, UnmapIs
  <2> QED
    BY <2>1, <2>2, <2>3, <2>4
<1> DEFINE A == IF conf.multi THEN r.addrs ELSE {}
           p == [r EXCEPT !.addrs = A]
           g == IF conf.multi THEN f ELSE Put(m, s, p)
           q == [p EXCEPT !.addrs = A \cup {a}, !.addr = a]
           h == Put(g, s, q)
<1>3. A \in SUBSET Address /\ A \cup {a} \in SUBSET Address
  BY DEF SessionRecord
<1>4. p \in SessionRecord /\ p.addrs = A /\ (conf.multi => p = r)
  <2>1. [r EXCEPT !.addrs = r.addrs] = r
    BY DEF SessionRecord
  <2> HIDE DEF A
  <2>2. p \in SessionRecord
    BY <1>3 DEF SessionRecord
  <2>3. p.addrs = A
    BY DEF SessionRecord
  <2> QED
    BY <2>1, <2>2, <2>3 DEF A
<1>5. /\ p.proto = r.proto /\ p.callId = r.callId /\ p.started = r.started
      /\ p.stopped = r.stopped /\ p.metadata = r.metadata /\ p.port = r.port
      /\ p.rtp = r.rtp /\ p.early = r.early /\ p.s1 = r.s1 /\ p.s2 = r.s2
  <2> HIDE DEF A
  <2> QED
    BY DEF SessionRecord
<1> HIDE DEF A, p
<1>6. /\ g \in State /\ g.session[s] = p
      /\ \A y \in Session \ {s} : g.session[y] = f.session[y]
      /\ g.byCall = f.byCall /\ g.open = f.open /\ g.misheard = f.misheard
      /\ \A b \in Address \cup {None} : g.byAddr[b] =
            IF ~conf.multi /\ b = r.addr /\ f.byAddr[b] = s THEN None ELSE f.byAddr[b]
  <2>1. CASE conf.multi
    BY <1>1, <1>4, <2>1
  <2>2. CASE ~conf.multi
    <3>1. PICK n : n = Put(m, s, p)
      OBVIOUS
    <3>2. /\ n \in State /\ n.session[s] = p
          /\ \A y \in Session \ {s} : n.session[y] = m.session[y]
          /\ n.byAddr = m.byAddr /\ n.byCall = m.byCall
          /\ n.open = m.open /\ n.misheard = m.misheard
      BY <1>4, <3>1, PutIs
    <3>3. g = n
      BY <2>2, <3>1
    <3> HIDE DEF g
    <3> QED
      BY <1>2, <2>2, <3>2, <3>3
  <2> QED
    BY <2>1, <2>2
<1>7. u = MapAddr(h, a, s)
  <2>1. PICK n : n = IF conf.multi THEN f
                     ELSE [Unmap(f, s, {r.addr}) EXCEPT !.session[s].addrs = {}]
    OBVIOUS
  <2>2. u = MapAddr([n EXCEPT !.session[s].addrs = @ \cup {a}, !.session[s].addr = a], a, s)
    BY <1>1, <2>1 DEF Remap
  <2>3. n = g
    <3>1. CASE conf.multi
      BY <2>1, <3>1
    <3>2. CASE ~conf.multi
      <4>1. n = [m EXCEPT !.session[s].addrs = {}]
        BY <1>2, <2>1, <3>2
      <4>2. [m EXCEPT !.session[s].addrs = {}] = Put(m, s, [m.session[s] EXCEPT !.addrs = {}])
        BY DEF Put
      <4>3. p = [r EXCEPT !.addrs = {}]
        BY <3>2 DEF A, p
      <4> QED
        BY <1>1, <1>2, <3>2, <4>1, <4>2, <4>3
    <3> QED
      BY <3>1, <3>2
  <2>4. [n EXCEPT !.session[s].addrs = @ \cup {a}, !.session[s].addr = a] =
            Put(n, s, [n.session[s] EXCEPT !.addrs = n.session[s].addrs \cup {a}, !.addr = a])
    BY DEF Put
  <2> HIDE DEF g
  <2>5. n.session[s] = p
    BY <1>6, <2>3
  <2> QED
    BY <1>4, <2>2, <2>3, <2>4, <2>5
<1> HIDE DEF g
<1>8. /\ q.addr = a /\ q.addrs = A \cup {a}
      /\ q.proto = p.proto /\ q.callId = p.callId /\ q.started = p.started
      /\ q.stopped = p.stopped /\ q.metadata = p.metadata /\ q.port = p.port
      /\ q.rtp = p.rtp /\ q.early = p.early /\ q.s1 = p.s1 /\ q.s2 = p.s2
  BY <1>4 DEF SessionRecord
<1>9. q \in SessionRecord
  BY <1>3, <1>4, AddressEdit
<1> HIDE DEF q
<1>10. /\ h \in State /\ h.session[s] = q
       /\ \A y \in Session \ {s} : h.session[y] = g.session[y]
       /\ h.byAddr = g.byAddr /\ h.byCall = g.byCall
       /\ h.open = g.open /\ h.misheard = g.misheard
  BY <1>6, <1>9, PutIs
<1> HIDE DEF h
<1>11. /\ u \in State /\ u.session = h.session /\ u.byCall = h.byCall
       /\ u.open = h.open /\ u.misheard = h.misheard
  BY <1>7, <1>10, MapAddrIs
<1>12. \A b \in Address \cup {None} : u.byAddr[b] =
             IF b = a /\ h.byAddr[a] = None THEN s ELSE h.byAddr[b]
  BY <1>7, <1>10, MapAddrIs
<1>13. h.byAddr[a] = None
  BY <1>6, <1>10
<1>14. \A b \in Address \cup {None} : u.byAddr[b] =
             IF b = a THEN s
             ELSE IF ~conf.multi /\ b = r.addr /\ f.byAddr[b] = s THEN None ELSE f.byAddr[b]
  <2> TAKE b \in Address \cup {None}
  <2>1. u.byAddr[b] = IF b = a THEN s ELSE g.byAddr[b]
    BY <1>10, <1>12, <1>13
  <2> QED
    BY <1>6, <2>1
<1>15. PICK v : v = u.session[s]
  OBVIOUS
<1>16. v = q /\ v # None /\ SameTalk(r, v)
  BY <1>5, <1>8, <1>9, <1>10, <1>11, <1>15, StateFacts, NoneAssumption DEF SameTalk
<1>17. v.addrs = IF conf.multi THEN r.addrs \cup {a} ELSE {a}
  BY <1>8, <1>16 DEF A
<1>18. /\ v \in SessionRecord /\ v.addr = a
       /\ v.proto = r.proto /\ v.callId = r.callId /\ v.started = r.started
       /\ v.stopped = r.stopped /\ v.metadata = r.metadata /\ v.port = r.port
  BY <1>5, <1>8, <1>9, <1>16
<1>19. /\ u.byCall = f.byCall /\ u.open = f.open /\ u.misheard = f.misheard
       /\ \A y \in Session \ {s} : u.session[y] = f.session[y]
  BY <1>6, <1>10, <1>11
<1> QED
  BY <1>1, <1>11, <1>14, <1>15, <1>16, <1>17, <1>18, <1>19 DEF Moved

LEMMA FreedSound ==
  ASSUME NEW k, NEW t, Sound(k, t), NEW a \in Address, NEW f, Freed(t, a, f)
  PROVE  /\ Sound(k, f) /\ (StaleIn(t) => StaleIn(f)) /\ (Tidy(t) => Tidy(f))
         /\ f.byAddr[a] = None
         /\ \A y \in Session : y # t.byAddr[a] => f.session[y] = t.session[y]
         /\ \A b \in Address : t.byAddr[b] # t.byAddr[a] => f.byAddr[b] = t.byAddr[b]
<1> DEFINE old == t.byAddr[a]
<1>0. t \in State /\ t.byAddr[None] = None
  BY DEF Sound
<1>1. CASE old = None /\ f = t
  BY <1>1
<1>2. CASE old # None
  <2>1. old \in Session /\ t.session[old] # None
    BY <1>0, <1>2, StateFacts DEF Sound
  <2> HIDE DEF old
  <2>2. CASE f = StopEach(t, {old})
    <3>1. /\ Sound(k, f) /\ (StaleIn(t) => StaleIn(f)) /\ (Tidy(t) => Tidy(f))
          /\ \A b \in Address : f.byAddr[b] \notin {old}
          /\ \A b \in Address : t.byAddr[b] \notin {old} => f.byAddr[b] = t.byAddr[b]
      BY <2>1, <2>2, StopSound
    <3>2. Ended(t, {old}, f)
      BY <1>0, <2>1, <2>2, StopEachIs
    <3>3. f.byAddr[a] = None
      <4>1. f.byAddr[a] \in {None, old}
        BY <3>2 DEF Ended, old
      <4> QED
        BY <3>1, <4>1
    <3> QED
      BY <3>1, <3>2, <3>3 DEF Ended, old
  <2>3. CASE f = Unmap(t, old, {a})
    <3>1. /\ f \in State /\ f.session = t.session /\ f.byCall = t.byCall
          /\ \A b \in Address \cup {None} : f.byAddr[b] =
                IF b \in {a} /\ t.byAddr[b] = old THEN None ELSE t.byAddr[b]
      BY <1>0, <2>1, <2>3, UnmapIs
    <3>2. /\ f.byAddr[a] = None /\ f.byAddr[None] = None
          /\ \A x \in Address : f.byAddr[x] # None => f.byAddr[x] = t.byAddr[x]
          /\ \A x \in Address : t.byAddr[x] # old => f.byAddr[x] = t.byAddr[x]
      BY <1>0, <3>1 DEF old
    <3>3. Sound(k, f)
      BY <3>1, <3>2 DEF Sound
    <3>4. (StaleIn(t) => StaleIn(f)) /\ (Tidy(t) => Tidy(f))
      BY <3>1, <3>2 DEF StaleIn, Tidy
    <3> QED
      BY <3>1, <3>2, <3>3, <3>4 DEF old
  <2> QED
    BY <1>2, <2>2, <2>3 DEF Freed, old
<1> QED
  BY <1>1, <1>2 DEF Freed

LEMMA FreedLed ==
  ASSUME NEW k, NEW t, Sound(k, t), ~k.lateInfo, NEW x, Led(t, x),
         NEW a \in Address, t.byAddr[a] = None \/ t.byAddr[a] # x, NEW f, Freed(t, a, f)
  PROVE  /\ Led(f, x)
         /\ \A y \in Session : t.session[y] # None /\ y # t.byAddr[a] /\ CallLeads(t, y) => CallLeads(f, y)
<1> DEFINE old == t.byAddr[a]
<1>0. t \in State
  BY DEF Sound
<1>1. CASE old = None /\ f = t
  BY <1>1
<1>2. CASE old # None
  <2>1. old \in Session /\ t.session[old] # None /\ CallLeads(t, old)
    BY <1>0, <1>2, StateFacts DEF Sound, Led
  <2> HIDE DEF old
  <2>2. CASE f = StopEach(t, {old})
    <3>1. Led(f, x)
      BY <2>1, <2>2, StopLed DEF CallLeads
    <3>2. Ended(t, {old}, f)
      BY <1>0, <2>1, <2>2, StopEachIs
    <3>3. \A y \in Session : t.session[y] # None /\ y # old /\ CallLeads(t, y) => CallLeads(f, y)
      <4> TAKE y \in Session
      <4> HAVE t.session[y] # None /\ y # old /\ CallLeads(t, y)
      <4>1. f.session[y] = t.session[y]
        BY <3>2 DEF Ended
      <4>2. t.session[y].callId \in Call \cup {None}
        BY <1>0, StateFacts DEF SessionRecord
      <4>3. t.session[y].callId # None => t.session[old].callId # t.session[y].callId
        BY <2>1 DEF CallLeads
      <4>4. t.session[y].callId # None => f.byCall[t.session[y].callId] = t.byCall[t.session[y].callId]
        BY <3>2, <4>2, <4>3 DEF Ended
      <4> QED
        BY <4>1, <4>4 DEF CallLeads
    <3> QED
      BY <3>1, <3>3 DEF old
  <2>3. CASE f = Unmap(t, old, {a}) /\ t.session[old].proto # "RawRtp"
    <3>1. /\ f \in State /\ f.session = t.session /\ f.byCall = t.byCall /\ f.open = t.open
          /\ \A b \in Address \cup {None} : f.byAddr[b] =
                IF b \in {a} /\ t.byAddr[b] = old THEN None ELSE t.byAddr[b]
      BY <1>0, <2>1, <2>3, UnmapIs
    <3>2. /\ \A b \in Address : f.byAddr[b] # None => f.byAddr[b] = t.byAddr[b]
          /\ \A b \in Address : t.byAddr[b] # old => f.byAddr[b] = t.byAddr[b]
      BY <1>0, <3>1
    <3>3. t.session[old].callId # None
      <4>1. t.session[old].proto \in {"Sip", "Skinny"}
        BY <1>0, <2>1, <2>3, StateFacts DEF SessionRecord
      <4> QED
        BY <2>1, <4>1 DEF Sound, Shape
    <3>4. t.session[old].callId \in Call
      BY <1>0, <2>1, <3>3, StateFacts DEF SessionRecord
    <3>5. Leads(f, old)
      BY <2>1, <3>1, <3>3, <3>4 DEF CallLeads, Leads
    <3>6. \A y \in Session : Live(f.session[y]) => Leads(f, y)
      <4> TAKE y \in Session
      <4> HAVE Live(f.session[y])
      <4>1. Leads(t, y)
        BY <3>1 DEF Led
      <4>2. CASE y = old
        BY <3>5, <4>2
      <4>3. CASE y # old
        BY <3>1, <3>2, <4>1, <4>3 DEF Leads
      <4> QED
        BY <4>2, <4>3
    <3>7. \A b \in Address : f.byAddr[b] \notin {None, x} => CallLeads(f, f.byAddr[b])
      BY <3>1, <3>2 DEF Led, CallLeads
    <3>8. Led(f, x)
      BY <3>1, <3>6, <3>7 DEF Led
    <3> QED
      BY <3>1, <3>8 DEF CallLeads
  <2> QED
    BY <1>2, <2>2, <2>3 DEF Freed, old
<1> QED
  BY <1>1, <1>2 DEF Freed

LEMMA MovedSound ==
  ASSUME NEW f, Sound(conf, f), NEW s \in Session, f.session[s] # None, NEW a \in Address,
         f.byAddr[a] = None, NEW u, Moved(f, s, a, u)
  PROVE  /\ Sound(conf, u) /\ (StaleIn(f) => StaleIn(u))
         /\ Tidy(f) /\ ~f.session[s].stopped => Tidy(u)
<1> DEFINE r == f.session[s]
           q == u.session[s]
<1>n. None \notin Address /\ None \notin Session
  BY SessionsAssumption
<1>0. f \in State /\ u \in State /\ f.byAddr[None] = None
  BY DEF Sound, Moved
<1>1. /\ u.byCall = f.byCall
      /\ \A y \in Session \ {s} : u.session[y] = f.session[y]
      /\ q # None /\ q.addr = a
      /\ q.addrs = IF conf.multi THEN r.addrs \cup {a} ELSE {a}
      /\ q.proto = r.proto /\ q.callId = r.callId /\ q.started = r.started
      /\ q.stopped = r.stopped /\ q.metadata = r.metadata /\ q.port = r.port
  BY DEF Moved
<1>2. \A b \in Address \cup {None} : u.byAddr[b] =
            IF b = a THEN s
            ELSE IF ~conf.multi /\ b = r.addr /\ f.byAddr[b] = s THEN None ELSE f.byAddr[b]
  BY DEF Moved
<1>3. /\ \A b \in Address : f.byAddr[b] \in Session \cup {None}
      /\ \A c \in Call \cup {None} : f.byCall[c] \in Session \cup {None}
  BY <1>0, StateFacts
<1>4. Shape(conf, s, r)
  BY DEF Sound
<1>5. Shape(conf, s, q)
  <2> HIDE DEF r, q
  <2> QED
    BY <1>1, <1>4 DEF Shape
<1>6. \A y \in Session : u.session[y] # None => Shape(conf, y, u.session[y])
  BY <1>1, <1>5 DEF Sound
<1>7. u.byAddr[None] = None
  BY <1>0, <1>2, <1>n
<1>8. \A b \in Address : u.byAddr[b] # None =>
         u.session[u.byAddr[b]] # None /\ b \in u.session[u.byAddr[b]].addrs
  <2> TAKE b \in Address
  <2> HAVE u.byAddr[b] # None
  <2>1. CASE b = a
    BY <1>1, <1>2, <2>1
  <2>2. CASE b # a /\ f.byAddr[b] # s
    BY <1>1, <1>2, <1>3, <2>2 DEF Sound
  <2>3. CASE b # a /\ f.byAddr[b] = s
    <3>1. b \in r.addrs
      BY <1>n, <2>3 DEF Sound
    <3>2. conf.multi
      BY <1>2, <1>4, <2>3, <3>1 DEF Shape
    <3> QED
      BY <1>1, <1>2, <2>3, <3>1, <3>2
  <2> QED
    BY <2>1, <2>2, <2>3
<1>9. \A y \in Session : /\ u.session[y] = None <=> f.session[y] = None
                         /\ u.session[y].callId = f.session[y].callId
                         /\ u.session[y].stopped = f.session[y].stopped
  BY <1>1
<1>10. \A c \in Call \cup {None} : u.byCall[c] # None =>
         /\ u.session[u.byCall[c]] # None
         /\ c # None \/ ~conf.lateInfo => u.session[u.byCall[c]].callId = c
  BY <1>1, <1>3, <1>9 DEF Sound
<1>11. StaleIn(f) => StaleIn(u)
  BY <1>1, <1>3, <1>9 DEF StaleIn
<1>12. ASSUME Tidy(f), ~f.session[s].stopped  PROVE Tidy(u)
  <2>1. \A b \in Address : u.byAddr[b] # None => ~u.session[u.byAddr[b]].stopped
    BY <1>2, <1>3, <1>9, <1>12 DEF Tidy
  <2>2. \A c \in Call : u.byCall[c] # None => ~u.session[u.byCall[c]].stopped
    BY <1>1, <1>3, <1>9, <1>12 DEF Tidy
  <2> QED
    BY <2>1, <2>2 DEF Tidy
<1> QED
  BY <1>0, <1>6, <1>7, <1>8, <1>10, <1>11, <1>12 DEF Sound

LEMMA MovedLed ==
  ASSUME NEW f, Sound(conf, f), NEW x, Led(f, x), NEW s \in Session, f.session[s] # None,
         s = x \/ CallLeads(f, s), NEW a \in Address, f.byAddr[a] = None, NEW u, Moved(f, s, a, u)
  PROVE  Led(u, x)
<1> DEFINE r == f.session[s]
<1>0. f \in State /\ u \in State
  BY DEF Sound, Moved
<1>1. /\ u.byCall = f.byCall /\ u.open = f.open
      /\ \A y \in Session : /\ u.session[y].callId = f.session[y].callId
                            /\ u.session[y].port = f.session[y].port
                            /\ Live(u.session[y]) <=> Live(f.session[y])
  BY DEF Moved, Live
<1>2. \A b \in Address \cup {None} : u.byAddr[b] =
            IF b = a THEN s
            ELSE IF ~conf.multi /\ b = r.addr /\ f.byAddr[b] = s THEN None ELSE f.byAddr[b]
  BY DEF Moved
<1>3. /\ \A b \in Address : f.byAddr[b] \in Session \cup {None}
      /\ f.open \subseteq Session \cup {None}
  BY <1>0, StateFacts
<1>4. \A b \in Address : u.byAddr[b] \notin {None, x} => CallLeads(u, u.byAddr[b])
  <2> TAKE b \in Address
  <2> HAVE u.byAddr[b] \notin {None, x}
  <2>1. CASE u.byAddr[b] = s
    BY <1>1, <2>1 DEF CallLeads
  <2>2. CASE u.byAddr[b] # s
    <3>1. u.byAddr[b] = f.byAddr[b]
      BY <1>2, <2>2
    <3> QED
      BY <1>1, <1>3, <3>1 DEF CallLeads, Led
  <2> QED
    BY <2>1, <2>2
<1>5. \A y \in Session : Live(u.session[y]) => Leads(u, y)
  <2> TAKE y \in Session
  <2> HAVE Live(u.session[y])
  <2>1. Leads(f, y)
    BY <1>1 DEF Led
  <2>2. CASE y = s
    BY <1>2, <2>2 DEF Leads
  <2>3. CASE y # s
    <3>1. \A b \in Address : f.byAddr[b] = y => u.byAddr[b] = y
      <4>1. y # None
        BY SessionsAssumption
      <4> QED
        BY <1>2, <2>3, <4>1
    <3> QED
      BY <1>1, <2>1, <3>1 DEF Leads
  <2> QED
    BY <2>2, <2>3
<1>6. \A p \in u.open \ {None} : Live(u.session[p]) /\ u.session[p].port = p
  BY <1>1, <1>3 DEF Led
<1>7. None \in u.open => \E y \in Session : Live(u.session[y]) /\ u.session[y].port = None
  BY <1>1 DEF Led
<1> QED
  BY <1>4, <1>5, <1>6, <1>7 DEF Led

\* There is nothing to do for no address.
LEMMA SetNoAddress ==
  ASSUME NEW t, NEW s
  PROVE  SetMediaAddress(t, s, None) = t
  BY DEF SetMediaAddress, KeepsAddresses

\* SetMediaAddress leaves everything as it is, or frees the address and moves the session.
LEMMA SetMediaAddressIs ==
  ASSUME NEW k, NEW t, Sound(k, t), NEW s \in Session, t.session[s] # None,
         NEW a \in Address \cup {None}, NEW u, u = SetMediaAddress(t, s, a)
  PROVE  \/ u = t /\ (a = None \/ t.byAddr[a] # None)
         \/ /\ a \in Address /\ t.byAddr[a] # s
            /\ \E f : Freed(t, a, f) /\ Moved(f, s, a, u)
<1>0. u = IF KeepsAddresses(t, s, a) THEN t ELSE Remap(FreeAddress(t, a), s, a)
  BY DEF SetMediaAddress
<1>1. CASE KeepsAddresses(t, s, a)
  <2>1. u = t
    BY <1>0, <1>1
  <2>2. s # None
    BY SessionsAssumption
  <2> QED
    BY <1>1, <2>1, <2>2 DEF KeepsAddresses
<1>2. CASE ~KeepsAddresses(t, s, a)
  <2>1. a \in Address /\ t.byAddr[a] # s
    BY <1>2 DEF KeepsAddresses
  <2>2. PICK f : f = FreeAddress(t, a)
    OBVIOUS
  <2>3. u = Remap(f, s, a)
    BY <1>0, <1>2, <2>2
  <2>4. Freed(t, a, f)
    BY <2>2 DEF FreeAddress, Freed, Stop
  <2>5. Sound(k, f) /\ f.byAddr[a] = None /\ f.session[s] = t.session[s]
    BY <2>1, <2>4, FreedSound
  <2>6. f \in State /\ f.session[s] # None
    BY <2>5 DEF Sound
  <2>7. Moved(f, s, a, u)
    BY <2>1, <2>3, <2>5, <2>6, RemapIs
  <2> QED
    BY <2>1, <2>4, <2>7
<1> QED
  BY <1>1, <1>2

LEMMA SetSound ==
  ASSUME NEW t, Sound(conf, t), NEW s \in Session, t.session[s] # None,
         NEW a \in Address \cup {None}, NEW u, u = SetMediaAddress(t, s, a)
  PROVE  /\ Sound(conf, u) /\ (StaleIn(t) => StaleIn(u))
         /\ Tidy(t) /\ ~t.session[s].stopped => Tidy(u)
         /\ u.session[s] # None /\ u.session[s].callId = t.session[s].callId
         /\ u.session[s].stopped = t.session[s].stopped
         /\ a \in Address /\ t.byAddr[a] = None => u.byAddr[a] = s
         /\ Leads(t, s) => Leads(u, s)
         /\ \A c \in Call \cup {None} : t.byCall[c] = None => u.byCall[c] = None
<1>1. CASE u = t /\ (a = None \/ t.byAddr[a] # None)
  BY <1>1, SessionsAssumption
<1>2. CASE /\ a \in Address /\ t.byAddr[a] # s
           /\ \E f : Freed(t, a, f) /\ Moved(f, s, a, u)
  <2>1. PICK f : Freed(t, a, f) /\ Moved(f, s, a, u)
    BY <1>2
  <2>2. /\ Sound(conf, f) /\ (StaleIn(t) => StaleIn(f)) /\ (Tidy(t) => Tidy(f))
        /\ f.byAddr[a] = None /\ f.session[s] = t.session[s]
    BY <1>2, <2>1, FreedSound
  <2>3. /\ Sound(conf, u) /\ (StaleIn(f) => StaleIn(u))
        /\ Tidy(f) /\ ~f.session[s].stopped => Tidy(u)
    BY <1>2, <2>1, <2>2, MovedSound
  <2>4. /\ u.session[s] # None /\ u.session[s].callId = t.session[s].callId
        /\ u.session[s].stopped = t.session[s].stopped
        /\ u.byAddr[a] = s /\ u.byCall = f.byCall
    BY <1>2, <2>1, <2>2 DEF Moved
  <2>5. \A c \in Call \cup {None} : t.byCall[c] = None => f.byCall[c] = None
    <3>0. t \in State /\ t.byAddr[a] \in Session \cup {None}
          /\ (t.byAddr[a] # None => t.session[t.byAddr[a]] # None)
      BY <1>2, StateFacts DEF Sound
    <3>1. CASE f = t
      BY <3>1
    <3>2. CASE t.byAddr[a] # None /\ f = StopEach(t, {t.byAddr[a]})
      <4>1. Ended(t, {t.byAddr[a]}, f)
        BY <3>0, <3>2, StopEachIs
      <4> QED
        BY <4>1 DEF Ended
    <3>3. CASE t.byAddr[a] # None /\ f = Unmap(t, t.byAddr[a], {a})
      BY <3>0, <3>3, UnmapIs
    <3> QED
      BY <2>1, <3>1, <3>2, <3>3 DEF Freed
  <2>6. Leads(u, s)
    BY <1>2, <2>4 DEF Leads
  <2> QED
    BY <2>2, <2>3, <2>4, <2>5, <2>6
<1> QED
  BY <1>1, <1>2, SetMediaAddressIs

LEMMA SetLed ==
  ASSUME NEW t, Sound(conf, t), ~conf.lateInfo, NEW s \in Session, t.session[s] # None,
         NEW x \in {None, s}, Led(t, x), s = x \/ CallLeads(t, s),
         NEW a \in Address \cup {None}, NEW u, u = SetMediaAddress(t, s, a)
  PROVE  Led(u, x) /\ (s = x \/ CallLeads(u, s))
<1>1. CASE u = t
  BY <1>1
<1>2. CASE /\ a \in Address /\ t.byAddr[a] # s
           /\ \E f : Freed(t, a, f) /\ Moved(f, s, a, u)
  <2>1. PICK f : Freed(t, a, f) /\ Moved(f, s, a, u)
    BY <1>2
  <2>2. /\ Sound(conf, f) /\ f.byAddr[a] = None /\ f.session[s] = t.session[s]
    BY <1>2, <2>1, FreedSound
  <2>3. t.byAddr[a] = None \/ t.byAddr[a] # x
    BY <1>2
  <2>4. /\ Led(f, x) /\ (CallLeads(t, s) => CallLeads(f, s))
    BY <1>2, <2>1, <2>3, FreedLed
  <2>5. Led(u, x)
    BY <1>2, <2>1, <2>2, <2>4, MovedLed
  <2>6. u.byAddr[a] = s /\ s # None
    BY <1>2, <2>1, SessionsAssumption DEF Moved
  <2>7. s = x \/ CallLeads(u, s)
    BY <1>2, <2>5, <2>6 DEF Led
  <2> QED
    BY <2>5, <2>7
<1> QED
  BY <1>1, <1>2, SetMediaAddressIs

-----------------------------------------------------------------------------
(* Sessions that come, and the call ids they get.                            *)

\* The maps do not know of a tracking id that is free.
LEMMA PutNew ==
  ASSUME NEW k, NEW t, Sound(k, t), NEW i \in Session, t.session[i] = None,
         NEW r \in SessionRecord, Shape(k, i, r), ~r.started, ~r.stopped,
         NEW u, u = Put(t, i, r)
  PROVE  /\ Sound(k, u) /\ (StaleIn(t) => StaleIn(u)) /\ (Tidy(t) => Tidy(u))
         /\ u.session[i] = r /\ u.byAddr = t.byAddr /\ u.byCall = t.byCall /\ u.open = t.open
         /\ \A y \in Session \ {i} : u.session[y] = t.session[y]
         /\ \A a \in Address : u.byAddr[a] # i
         /\ Led(t, None) => Led(u, None) /\ Led(u, i)
<1>n. None \notin Session
  BY SessionsAssumption
<1>0. t \in State /\ r # None
  BY StateFacts DEF Sound
<1>1. /\ u \in State /\ u.session[i] = r /\ u.byAddr = t.byAddr /\ u.byCall = t.byCall /\ u.open = t.open
      /\ \A y \in Session \ {i} : u.session[y] = t.session[y]
  BY <1>0, PutIs
<1>2. /\ \A a \in Address : t.byAddr[a] # None => t.byAddr[a] \in Session \ {i}
      /\ \A c \in Call \cup {None} : t.byCall[c] # None => t.byCall[c] \in Session \ {i}
  BY <1>0, StateFacts DEF Sound
<1>3. \A a \in Address : u.byAddr[a] # i
  BY <1>n, <1>1, <1>2
<1>4. Sound(k, u)
  <2>1. \A y \in Session : u.session[y] # None => Shape(k, y, u.session[y])
    BY <1>1 DEF Sound
  <2>2. \A a \in Address : u.byAddr[a] # None =>
           u.session[u.byAddr[a]] # None /\ a \in u.session[u.byAddr[a]].addrs
    BY <1>1, <1>2 DEF Sound
  <2>3. \A c \in Call \cup {None} : u.byCall[c] # None =>
         /\ u.session[u.byCall[c]] # None
         /\ c # None \/ ~k.lateInfo => u.session[u.byCall[c]].callId = c
    BY <1>1, <1>2 DEF Sound
  <2>4. u.byAddr[None] = None
    BY <1>1 DEF Sound
  <2> QED
    BY <1>1, <2>1, <2>2, <2>3, <2>4 DEF Sound
<1>5. StaleIn(t) => StaleIn(u)
  BY <1>1, <1>2 DEF StaleIn
<1>6. Tidy(t) => Tidy(u)
  BY <1>1, <1>2 DEF Tidy
<1>7. ASSUME Led(t, None)  PROVE Led(u, None) /\ Led(u, i)
  <2>1. \A a \in Address : u.byAddr[a] # None => CallLeads(u, u.byAddr[a])
    BY <1>1, <1>2, <1>7 DEF Led, CallLeads
  <2>2. \A p \in u.open \ {None} : Live(u.session[p]) /\ u.session[p].port = p
    <3> TAKE p \in u.open \ {None}
    <3>1. Live(t.session[p]) /\ t.session[p].port = p
      BY <1>1, <1>7 DEF Led
    <3>2. p \in Session \ {i}
      BY <1>0, <1>1, <3>1, StateFacts DEF Live
    <3> QED
      BY <1>1, <3>1, <3>2
  <2>3. None \in u.open => \E y \in Session : Live(u.session[y]) /\ u.session[y].port = None
    <3> HAVE None \in u.open
    <3>1. PICK y \in Session : Live(t.session[y]) /\ t.session[y].port = None
      BY <1>1, <1>7 DEF Led
    <3>2. y # i
      BY <3>1 DEF Live
    <3> QED
      BY <1>1, <3>1, <3>2
  <2>4. \A y \in Session : Live(u.session[y]) => Leads(u, y)
    <3> TAKE y \in Session
    <3> HAVE Live(u.session[y])
    <3>1. y # i
      BY <1>1 DEF Live
    <3>2. Leads(t, y)
      BY <1>1, <1>7, <3>1 DEF Led
    <3> QED
      BY <1>1, <3>2 DEF Leads
  <2> QED
    BY <2>1, <2>2, <2>3, <2>4 DEF Led
<1> QED
  BY <1>1, <1>3, <1>4, <1>5, <1>6, <1>7

\* A session and its call id.
LEMMA MapCallKeeps ==
  ASSUME NEW k, NEW t, Sound(k, t), NEW s \in Session, t.session[s] # None,
         NEW c \in Call \cup {None}, t.session[s].callId = c, NEW u, u = MapCall(t, c, s)
  PROVE  /\ Sound(k, u) /\ (StaleIn(t) => StaleIn(u))
         /\ Tidy(t) /\ ~t.session[s].stopped => Tidy(u)
         /\ Led(t, s) /\ (c # None => t.byCall[c] = None) => Led(u, None)
<1>0. t \in State
  BY DEF Sound
<1>1. /\ u \in State /\ u.session = t.session /\ u.byAddr = t.byAddr /\ u.open = t.open
      /\ \A d \in Call \cup {None} : u.byCall[d] =
               IF d = c /\ t.byCall[c] = None THEN s ELSE t.byCall[d]
  BY <1>0, MapCallIs
<1>2. Sound(k, u)
  <2>1. \A d \in Call \cup {None} : u.byCall[d] # None =>
         /\ u.session[u.byCall[d]] # None
         /\ d # None \/ ~k.lateInfo => u.session[u.byCall[d]].callId = d
    <3> TAKE d \in Call \cup {None}
    <3>1. CASE d = c /\ t.byCall[c] = None
      BY <1>1, <3>1
    <3>2. CASE ~(d = c /\ t.byCall[c] = None)
      BY <1>1, <3>2 DEF Sound
    <3> QED
      BY <3>1, <3>2
  <2> QED
    BY <1>1, <2>1 DEF Sound
<1>3. StaleIn(t) => StaleIn(u)
  BY <1>1 DEF StaleIn
<1>4. Tidy(t) /\ ~t.session[s].stopped => Tidy(u)
  <2> HAVE Tidy(t) /\ ~t.session[s].stopped
  <2>1. \A d \in Call : u.byCall[d] # None => ~u.session[u.byCall[d]].stopped
    <3> TAKE d \in Call
    <3>1. CASE d = c /\ t.byCall[c] = None
      BY <1>1, <3>1
    <3>2. CASE ~(d = c /\ t.byCall[c] = None)
      BY <1>1, <3>2 DEF Tidy
    <3> QED
      BY <3>1, <3>2
  <2> QED
    BY <1>1, <2>1 DEF Tidy
<1>5. ASSUME Led(t, s), c # None => t.byCall[c] = None  PROVE Led(u, None)
  <2>0. \A d \in Call \cup {None} : t.byCall[d] # None => u.byCall[d] = t.byCall[d]
    BY <1>1
  <2>1. \A a \in Address : u.byAddr[a] # None => CallLeads(u, u.byAddr[a])
    <3> TAKE a \in Address
    <3> HAVE u.byAddr[a] # None
    <3>1. CASE u.byAddr[a] = s
      BY <1>1, <1>5, <3>1 DEF CallLeads
    <3>2. CASE u.byAddr[a] # s
      <4> DEFINE b == u.byAddr[a]
                 d == t.session[b].callId
      <4>1. b \in Session /\ t.session[b] # None /\ CallLeads(t, b)
        BY <1>0, <1>1, <1>5, <3>2, StateFacts DEF Sound, Led
      <4>2. d \in Call \cup {None}
        BY <1>0, <4>1, StateFacts DEF SessionRecord
      <4>3. b # None
        OBVIOUS
      <4> HIDE DEF b
      <4>4. CallLeads(u, b)
        BY <1>1, <2>0, <4>1, <4>2, <4>3 DEF CallLeads
      <4> QED
        BY <4>4 DEF b
    <3> QED
      BY <3>1, <3>2
  <2>2. \A y \in Session : Leads(t, y) => Leads(u, y)
    <3> TAKE y \in Session
    <3>1. y # None
      BY SessionsAssumption
    <3> QED
      BY <1>1, <2>0, <3>1 DEF Leads
  <2> QED
    BY <1>1, <1>5, <2>1, <2>2 DEF Led
<1> QED
  BY <1>2, <1>3, <1>4, <1>5

-----------------------------------------------------------------------------
(* The handlers.                                                             *)

\* With streams that break a session up, a packet leaves the addresses alone.
Unbroken(k) == k.breaks => ~k.useSecond /\ k.tracked = {}

\* What is true of the sessions that the maps lead to.
Fine(t) == Unbroken(conf) /\ ~StaleIn(t) /\ Tidy(t)

\* A step of a handler keeps the maps sound; what they lead to goes on, and is led to.
Keeps(t, u) ==
  /\ Sound(conf, u) /\ (StaleIn(t) => StaleIn(u))
  /\ Tidy(t) => Tidy(u)
  /\ ~conf.lateInfo /\ Tidy(t) /\ Led(t, None) => Led(u, None)

\* The same of a whole handler, unless the empty call id is stale at its end.
Goes(t, u) ==
  /\ Sound(conf, u) /\ (StaleIn(t) => StaleIn(u))
  /\ Fine(t) /\ ~StaleIn(u) => Tidy(u)
  /\ ~conf.lateInfo /\ Fine(t) /\ Led(t, None) /\ ~StaleIn(u) => Led(u, None)

LEMMA KeepsTwice ==
  ASSUME NEW t, NEW u, NEW v, Keeps(t, u), Keeps(u, v)
  PROVE  Keeps(t, v)
BY DEF Keeps

LEMMA KeepsGoes ==
  ASSUME NEW t, NEW u, Keeps(t, u)
  PROVE  Goes(t, u)
BY DEF Keeps, Goes, Fine

LEMMA GoesTwice ==
  ASSUME NEW t, NEW u, NEW v, Goes(t, u), Goes(u, v)
  PROVE  Goes(t, v)
BY DEF Goes, Fine

\* The sessions that the maps lead to.
LEMMA LedTo ==
  ASSUME NEW t, Sound(conf, t), NEW s \in Session, Leads(t, s)
  PROVE  /\ t.session[s] # None
         /\ Fine(t) => ~t.session[s].stopped
         /\ ~conf.lateInfo /\ Led(t, None) => CallLeads(t, s)
<1>0. t \in State /\ s # None
  BY SessionsAssumption DEF Sound
<1>1. CASE \E a \in Address : t.byAddr[a] = s
  BY <1>0, <1>1 DEF Sound, Fine, Tidy, Led
<1>2. CASE \E c \in Call \cup {None} : t.byCall[c] = s
  <2>1. PICK c \in Call \cup {None} : t.byCall[c] = s
    BY <1>2
  <2>2. t.session[s] # None /\ (~conf.lateInfo => t.session[s].callId = c)
    BY <1>0, <2>1 DEF Sound
  <2>3. Fine(t) => ~t.session[s].stopped
    BY <1>0, <2>1 DEF Fine, Tidy, StaleIn
  <2> QED
    BY <2>1, <2>2, <2>3 DEF CallLeads
<1> QED
  BY <1>1, <1>2 DEF Leads

LEMMA HeardGoes ==
  ASSUME NEW t, Sound(conf, t), NEW s \in Session, Leads(t, s), NEW u, Heard(t, u, s)
  PROVE  Goes(t, u)
<1>1. t.session[s] # None
  BY LedTo
<1>2. Sound(conf, u) /\ (StaleIn(t) => StaleIn(u))
  BY <1>1, HeardSound
<1>3. Fine(t) => Tidy(u)
  BY HeardTidy DEF Fine
<1>4. ~conf.lateInfo /\ Fine(t) /\ Led(t, None) => Led(u, None)
  <2> HAVE ~conf.lateInfo /\ Fine(t) /\ Led(t, None)
  <2>1. ~t.session[s].stopped
    BY LedTo
  <2> QED
    BY <1>1, <2>1, HeardLed
<1> QED
  BY <1>2, <1>3, <1>4 DEF Goes

LEMMA StopKeeps ==
  ASSUME NEW t, Sound(conf, t), NEW S, S \subseteq Session, \A s \in S : Leads(t, s),
         NEW u, u = StopEach(t, S)
  PROVE  Keeps(t, u)
<1>1. \A s \in S : t.session[s] # None
  BY LedTo
<1>2. Sound(conf, u) /\ (StaleIn(t) => StaleIn(u)) /\ (Tidy(t) => Tidy(u))
  BY <1>1, StopSound
<1>3. ~conf.lateInfo /\ Led(t, None) => Led(u, None)
  <2> HAVE ~conf.lateInfo /\ Led(t, None)
  <2>1. \A s \in S : CallLeads(t, s)
    BY LedTo
  <2>2. \A s \in S : t.session[s].callId # None => t.byCall[t.session[s].callId] \in {s, None}
    BY <2>1 DEF CallLeads
  <2> QED
    BY <1>1, <2>2, StopLed
<1> QED
  BY <1>2, <1>3 DEF Keeps

LEMMA SetGoes ==
  ASSUME NEW t, Sound(conf, t), NEW s \in Session, Leads(t, s),
         NEW a \in Address \cup {None}, NEW u, u = SetMediaAddress(t, s, a)
  PROVE  Goes(t, u)
<1>1. t.session[s] # None
  BY LedTo
<1>2. /\ Sound(conf, u) /\ (StaleIn(t) => StaleIn(u))
      /\ Tidy(t) /\ ~t.session[s].stopped => Tidy(u)
  BY <1>1, SetSound
<1>3. Fine(t) => Tidy(u)
  BY <1>2, LedTo DEF Fine
<1>4. ~conf.lateInfo /\ Fine(t) /\ Led(t, None) => Led(u, None)
  <2> HAVE ~conf.lateInfo /\ Fine(t) /\ Led(t, None)
  <2>1. CallLeads(t, s)
    BY LedTo
  <2> QED
    BY <1>1, <2>1, SetLed
<1> QED
  BY <1>2, <1>3, <1>4 DEF Goes

-----------------------------------------------------------------------------
(* Packets.                                                                  *)

\* A packet at one of its two addresses.
LEMMA DeliverIs ==
  ASSUME NEW t, Sound(conf, t), NEW b \in Address, NEW p \in PacketRecord,
         NEW d, d = Deliver(t, t.byAddr[b], p)
  PROVE  /\ Keeps(t, d.t)
         /\ \/ d.n = 1 /\ t.byAddr[b] # None /\ Heard(t, d.t, t.byAddr[b])
            \/ d.n = 0 /\ d.t.byAddr[b] = None /\ (t.byAddr[b] = None \/ conf.breaks)
         /\ \A y \in Session : d.t.session[y] = None <=> t.session[y] = None
         /\ \A a \in Address : d.t.byAddr[a] \in {t.byAddr[a], None}
<1> DEFINE s == t.byAddr[b]
           res == AddRtpPacket(t, s, p)
<1>0. t \in State /\ s \in Session \cup {None} /\ None \notin Session
  BY StateFacts, SessionsAssumption DEF Sound
<1>1. CASE s = None
  <2>1. d.t = t /\ d.n = 0
    BY <1>1 DEF Deliver
  <2> QED
    BY <1>1, <2>1 DEF Keeps
<1>2. CASE s # None
  <2>1. s \in Session /\ t.session[s] # None /\ Leads(t, s)
    BY <1>0, <1>2 DEF Leads, Sound
  <2>2. Heard(t, res.t, s) /\ (res.ok \/ conf.breaks)
    BY <1>0, <2>1, PacketHeard
  <2>3. d = IF res.ok THEN [t |-> res.t, n |-> 1] ELSE [t |-> Stop(res.t, s), n |-> 0]
    BY <1>2 DEF Deliver
  <2>4. PICK v : v = res.t
    OBVIOUS
  <2>5. \A y \in Session : v.session[y] = None <=> t.session[y] = None
    BY <2>1, <2>2, <2>4 DEF Heard
  <2>6. v.byAddr = t.byAddr
    BY <2>2, <2>4 DEF Heard
  <2>7. Sound(conf, v) /\ (StaleIn(t) => StaleIn(v)) /\ (Tidy(t) => Tidy(v))
    BY <2>1, <2>2, <2>4, HeardSound, HeardTidy
  <2>8. Keeps(t, v)
    <3>1. Tidy(t) => ~t.session[s].stopped
      BY <1>2 DEF Tidy
    <3>2. Tidy(t) /\ Led(t, None) => Led(v, None)
      BY <2>1, <2>2, <2>4, <3>1, HeardLed
    <3> QED
      BY <2>7, <3>2 DEF Keeps
  <2>9. CASE res.ok
    <3>1. d.t = v /\ d.n = 1
      BY <2>3, <2>4, <2>9
    <3> QED
      BY <1>2, <2>2, <2>4, <2>5, <2>6, <2>8, <3>1
  <2>10. CASE ~res.ok
    <3>1. d.t = StopEach(v, {s}) /\ d.n = 0
      BY <2>3, <2>4, <2>10 DEF Stop
    <3>2. Leads(v, s)
      BY <2>6 DEF Leads
    <3> HIDE DEF s
    <3>3. Keeps(v, d.t)
      BY <2>1, <2>7, <3>1, <3>2, StopKeeps
    <3>4. Ended(v, {s}, d.t)
      BY <2>1, <2>5, <2>7, <3>1, StopEachIs DEF Sound
    <3>5. /\ \A a \in Address : d.t.byAddr[a] \notin {s}
          /\ \A a \in Address : v.byAddr[a] \notin {s} => d.t.byAddr[a] = v.byAddr[a]
      BY <2>1, <2>5, <2>7, <3>1, StopSound
    <3>6. \A a \in Address : d.t.byAddr[a] \in {v.byAddr[a], None}
      BY <3>4 DEF Ended
    <3>7. d.t.byAddr[b] = None
      BY <2>6, <3>5, <3>6 DEF s
    <3>8. \A y \in Session : d.t.session[y] = None <=> v.session[y] = None
      <4>1. /\ \A y \in Session \ {s} : d.t.session[y] = v.session[y]
            /\ d.t.session[s] # None
        BY <3>4 DEF Ended
      <4>2. v.session[s] # None
        BY <2>1, <2>5
      <4> QED
        BY <4>1, <4>2
    <3>9. Keeps(t, d.t)
      BY <2>8, <3>3, KeepsTwice
    <3>10. conf.breaks
      BY <2>2, <2>10
    <3> QED
      BY <2>5, <2>6, <3>1, <3>6, <3>7, <3>8, <3>9, <3>10
  <2> QED
    BY <2>9, <2>10
<1> QED
  BY <1>0, <1>1, <1>2

\* Both ends of a packet, one after the other.
LEMMA DeliveredIs ==
  ASSUME Sound(conf, Now), NEW p \in PacketRecord, NEW d, d = Delivered(p)
  PROVE  /\ Keeps(Now, d.t) /\ Sound(conf, Now)
         /\ d.n \in {0, 1, 2}
         /\ d.s1 = byAddr[p.stream[1]] /\ d.s1 \in Session \cup {None} /\ d.s2 \in Session \cup {None}
         /\ d.n = 2 => /\ d.s1 \in Session /\ d.t.byAddr[p.stream[1]] = d.s1
                       /\ d.s2 \in Session /\ d.t.byAddr[p.stream[2]] = d.s2
         /\ d.n = 1 => /\ d.s1 # None \/ d.s2 # None
                       /\ d.s1 # None => d.t.session[d.s1] # None
                       /\ d.s2 # None => d.t.session[d.s2] # None
                       /\ ~conf.breaks /\ d.s2 # None => d.t.byAddr[p.stream[2]] = d.s2
                       /\ ~conf.breaks /\ d.s2 = None => d.t.byAddr[p.stream[1]] = d.s1
         /\ d.n = 0 => d.t.byAddr[p.stream[1]] = None /\ d.t.byAddr[p.stream[2]] = None
         /\ \A y \in Session : d.t.session[y] = None <=> session[y] = None
<1> DEFINE a == p.stream[1]
           b == p.stream[2]
           s1 == byAddr[a]
<1>0. a \in Address /\ b \in Address
  BY DEF PacketRecord, Stream
<1>1. PICK e : e = Deliver(Now, s1, p)
  OBVIOUS
<1> DEFINE s2 == e.t.byAddr[b]
           q == [p EXCEPT !.again = (s1 = s2)]
<1>2. PICK f : f = Deliver(e.t, s2, q)
  OBVIOUS
<1>3. d = [t |-> f.t, n |-> e.n + f.n, s1 |-> s1, s2 |-> s2]
  BY <1>1, <1>2 DEF Delivered
<1>4. q \in PacketRecord
  BY DEF PacketRecord
<1>5. /\ Now.byAddr = byAddr /\ Now.session = session
  BY DEF Now
<1>6. /\ Keeps(Now, e.t)
      /\ \/ e.n = 1 /\ s1 # None /\ Heard(Now, e.t, s1)
         \/ e.n = 0 /\ e.t.byAddr[a] = None /\ (s1 = None \/ conf.breaks)
      /\ \A y \in Session : e.t.session[y] = None <=> session[y] = None
  <2>1. e = Deliver(Now, Now.byAddr[a], p)
    BY <1>1, <1>5
  <2> QED
    BY <1>0, <1>5, <2>1, DeliverIs
<1>7. Sound(conf, e.t)
  BY <1>6 DEF Keeps
<1> HIDE DEF a, b, q
<1>8. /\ Keeps(e.t, f.t)
      /\ \/ f.n = 1 /\ s2 # None /\ Heard(e.t, f.t, s2)
         \/ f.n = 0 /\ f.t.byAddr[b] = None /\ (s2 = None \/ conf.breaks)
      /\ \A y \in Session : f.t.session[y] = None <=> e.t.session[y] = None
      /\ \A c \in Address : f.t.byAddr[c] \in {e.t.byAddr[c], None}
  BY <1>0, <1>2, <1>4, <1>7, DeliverIs
<1>9. Keeps(Now, f.t)
  BY <1>6, <1>8, KeepsTwice
<1>10. s1 \in Session \cup {None} /\ s2 \in Session \cup {None}
  BY <1>0, <1>5, <1>7, StateFacts DEF Sound
<1>11. e.n = 1 => e.t.byAddr[a] = s1
  BY <1>5, <1>6 DEF Heard
<1>12. f.n = 1 => f.t.byAddr = e.t.byAddr
  <2> HAVE f.n = 1
  <2> HIDE DEF s2
  <2>1. Heard(e.t, f.t, s2)
    BY <1>8
  <2> QED
    BY <2>1 DEF Heard
<1>13. /\ s1 # None => session[s1] # None
       /\ s2 # None => e.t.session[s2] # None
  BY <1>0, <1>5, <1>7 DEF Sound
<1> HIDE DEF s1, s2
<1>14. /\ s1 # None => f.t.session[s1] # None
       /\ s2 # None => f.t.session[s2] # None
  BY <1>6, <1>8, <1>10, <1>13
<1>15. e.n = 0 => f.t.byAddr[a] = None
  BY <1>0, <1>6, <1>8
<1>16. f.n = 1 => f.t.byAddr[b] = s2
  BY <1>12 DEF s2
<1>17. e.n = 1 /\ f.n = 1 => s1 # None /\ s2 # None /\ f.t.byAddr[a] = s1 /\ f.t.byAddr[b] = s2
  BY <1>6, <1>8, <1>11, <1>12, <1>16
<1>18. e.n + f.n = 1 => (e.n = 1 /\ f.n = 0) \/ (e.n = 0 /\ f.n = 1)
  BY <1>6, <1>8
<1>19. e.n = 1 /\ f.n = 0 /\ ~conf.breaks => s1 # None /\ s2 = None
  BY <1>6, <1>8
<1>20. s2 = None => f.t = e.t
  BY <1>2 DEF Deliver
<1>21. d.t = f.t /\ d.n = e.n + f.n /\ d.s1 = s1 /\ d.s2 = s2
  BY <1>3
<1>22. d.n = 1 => /\ s1 # None \/ s2 # None
                  /\ ~conf.breaks /\ s2 # None => f.t.byAddr[b] = s2
                  /\ ~conf.breaks /\ s2 = None => f.t.byAddr[a] = s1
  <2> HAVE d.n = 1
  <2>1. CASE e.n = 1 /\ f.n = 0
    BY <1>6, <1>11, <1>19, <1>20, <2>1
  <2>2. CASE e.n = 0 /\ f.n = 1
    BY <1>8, <1>16, <2>2
  <2> QED
    BY <1>18, <1>21, <2>1, <2>2
<1>23. d.n = 2 => e.n = 1 /\ f.n = 1
  BY <1>6, <1>8, <1>21
<1>24. d.n = 0 => e.n = 0 /\ f.n = 0
  BY <1>6, <1>8, <1>21
<1>25. d.n \in {0, 1, 2}
  BY <1>6, <1>8, <1>21
<1>26. d.n = 2 => /\ s1 \in Session /\ f.t.byAddr[a] = s1
                  /\ s2 \in Session /\ f.t.byAddr[b] = s2
  BY <1>10, <1>17, <1>23
<1>27. d.n = 0 => f.t.byAddr[a] = None /\ f.t.byAddr[b] = None
  BY <1>8, <1>15, <1>24
<1>28. \A y \in Session : f.t.session[y] = None <=> session[y] = None
  BY <1>6, <1>8
<1>29. d.s1 = byAddr[p.stream[1]] /\ a = p.stream[1] /\ b = p.stream[2]
  BY <1>21 DEF s1, a, b
<1> QED
  BY <1>9, <1>10, <1>14, <1>21, <1>22, <1>25, <1>26, <1>27, <1>28, <1>29

\* The one session a packet finds gets its other address, if the configuration says so.
LEMMA OneFoundGoes ==
  ASSUME NEW t, Sound(conf, t), NEW s \in Session, t.session[s] # None,
         ~conf.breaks => Leads(t, s), conf \in ConfigRecord,
         NEW fromSource, NEW p \in PacketRecord, NEW u, u = OneFound(t, s, fromSource, p)
  PROVE  Goes(t, u)
<1> DEFINE other == IF fromSource THEN p.stream[2] ELSE p.stream[1]
           v == IF conf.useSecond THEN SetMediaAddress(t, s, other) ELSE t
           end == CASE p.stream[2] \in conf.tracked -> p.stream[2]
                    [] p.stream[2] \notin conf.tracked /\ p.stream[1] \in conf.tracked -> p.stream[1]
                    [] OTHER -> None
<1>0. /\ other \in Address \cup {None} /\ end \in Address \cup {None}
      /\ conf.tracked = {} => end = None
  BY DEF PacketRecord, Stream
<1>1. u \in {v, SetMediaAddress(v, s, end)}
  BY DEF OneFound
<1> HIDE DEF other, end
<1>2. /\ Sound(conf, v) /\ (StaleIn(t) => StaleIn(v)) /\ v.session[s] # None
      /\ v.session[s].stopped = t.session[s].stopped
      /\ Tidy(t) /\ ~t.session[s].stopped => Tidy(v)
  BY <1>0, SetSound
<1>3. ASSUME ~conf.lateInfo, Led(t, None), CallLeads(t, s)
      PROVE  Led(v, None) /\ CallLeads(v, s)
  <2>1. s # None
    BY SessionsAssumption
  <2> QED
    BY <1>0, <1>3, <2>1, SetLed
<1>4. conf.breaks /\ Unbroken(conf) => v = t
  BY DEF Unbroken
<1> HIDE DEF v
<1>5. /\ Sound(conf, u) /\ (StaleIn(v) => StaleIn(u))
      /\ Tidy(v) /\ ~v.session[s].stopped => Tidy(u)
  <2>1. CASE u = v
    BY <1>2, <2>1
  <2>2. CASE u = SetMediaAddress(v, s, end)
    BY <1>0, <1>2, <2>2, SetSound
  <2> QED
    BY <1>1, <2>1, <2>2
<1>6. ASSUME ~conf.lateInfo, Led(v, None), CallLeads(v, s)
      PROVE  Led(u, None)
  <2>1. CASE u = v
    BY <1>6, <2>1
  <2>2. CASE u = SetMediaAddress(v, s, end)
    BY <1>0, <1>2, <1>6, <2>2, SetLed
  <2> QED
    BY <1>1, <2>1, <2>2
<1>7. CASE ~conf.breaks
  <2>1. Leads(t, s)
    BY <1>7
  <2>2. Fine(t) => ~t.session[s].stopped
    BY <2>1, LedTo
  <2>3. ~conf.lateInfo /\ Led(t, None) => CallLeads(t, s)
    BY <2>1, LedTo
  <2>4. Fine(t) => Tidy(u)
    BY <1>2, <1>5, <2>2 DEF Fine
  <2>5. ~conf.lateInfo /\ Fine(t) /\ Led(t, None) => Led(u, None)
    BY <1>3, <1>6, <2>3
  <2> QED
    BY <1>2, <1>5, <2>4, <2>5 DEF Goes
<1>8. CASE conf.breaks
  <2>1. Unbroken(conf) => u = t
    <3> HAVE Unbroken(conf)
    <3>1. v = t /\ end = None
      BY <1>0, <1>4, <1>8 DEF Unbroken
    <3>2. SetMediaAddress(t, s, None) = t
      BY SetNoAddress
    <3> QED
      BY <1>1, <3>1, <3>2
  <2> QED
    BY <1>2, <1>5, <2>1 DEF Goes, Fine
<1> QED
  BY <1>7, <1>8

\* The address of an older SIP session is given up.
LEMMA SeparatedKeeps ==
  ASSUME NEW t, Sound(conf, t), NEW b \in Address, NEW s \in Session, t.byAddr[b] = s,
         t.session[s].proto = "Sip", NEW u, u = [t EXCEPT !.byAddr[b] = None]
  PROVE  Keeps(t, u)
<1>0. t \in State /\ s # None
  BY SessionsAssumption DEF Sound
<1>1. u = Unmap(t, s, {b})
  <2> DEFINE new == [t.byAddr EXCEPT ![b] = None]
             adr == [a \in DOMAIN t.byAddr |-> IF a \in {b} /\ t.byAddr[a] = s THEN None ELSE t.byAddr[a]]
  <2>1. t.byAddr \in [Address \cup {None} -> Session \cup {None}]
    BY <1>0, StateFacts
  <2>2. new = adr
    BY <2>1
  <2>3. u = [t EXCEPT !.byAddr = new] /\ Unmap(t, s, {b}) = [t EXCEPT !.byAddr = adr]
    BY DEF Unmap
  <2> HIDE DEF new, adr
  <2> QED
    BY <2>2, <2>3
<1>2. Freed(t, b, u)
  BY <1>0, <1>1 DEF Freed
<1>3. Sound(conf, u) /\ (StaleIn(t) => StaleIn(u)) /\ (Tidy(t) => Tidy(u))
  BY <1>2, FreedSound
<1>4. ~conf.lateInfo /\ Led(t, None) => Led(u, None)
  BY <1>0, <1>2, FreedLed
<1> QED
  BY <1>3, <1>4 DEF Keeps

\* A session that a packet opens.
LEMMA NewRawIs ==
  ASSUME conf \in ConfigRecord, NEW a \in Address, NEW i,
         NEW r, r = [NewSession("RawRtp") EXCEPT !.endpoint = a]
  PROVE  /\ r \in SessionRecord /\ Shape(conf, i, r) /\ ~r.started /\ ~r.stopped
         /\ r.callId = None /\ r.rtp = 0
<1>1. r = [proto |-> "RawRtp", callId |-> None, addr |-> None, addrs |-> {}, endpoint |-> a,
           rtp |-> 0, ignored |-> 0, age |-> 0, port |-> None, metadata |-> FALSE,
           started |-> FALSE, stopped |-> FALSE, keep |-> conf.lookBack, early |-> FALSE,
           waitS2 |-> FALSE, hold |-> FALSE, last |-> FALSE, s1 |-> None, s2 |-> None]
  BY DEF NewSession
<1>2. conf.lookBack \in BOOLEAN
  BY DEF ConfigRecord
<1>p. PICK q : q = r
  OBVIOUS
<1>q. q = [proto |-> "RawRtp", callId |-> None, addr |-> None, addrs |-> {}, endpoint |-> a,
           rtp |-> 0, ignored |-> 0, age |-> 0, port |-> None, metadata |-> FALSE,
           started |-> FALSE, stopped |-> FALSE, keep |-> conf.lookBack, early |-> FALSE,
           waitS2 |-> FALSE, hold |-> FALSE, last |-> FALSE, s1 |-> None, s2 |-> None]
  BY <1>1, <1>p
<1>3. q \in SessionRecord
  BY <1>q, <1>2, Bounds DEF SessionRecord
<1>4. /\ q.addrs = {} /\ ~q.started /\ ~q.stopped /\ q.port = None /\ q.proto = "RawRtp"
      /\ q.callId = None /\ q.rtp = 0
  BY <1>q
<1>5. Shape(conf, i, q)
  BY <1>4 DEF Shape
<1> QED
  BY <1>p, <1>3, <1>4, <1>5

\* A session of its own.
LEMMA RawSessionGoes ==
  ASSUME NEW t, Sound(conf, t), conf \in ConfigRecord, NEW i \in Session, t.session[i] = None,
         NEW p \in PacketRecord, t.byAddr[p.stream[1]] = None, t.byAddr[p.stream[2]] = None,
         NEW u, u = RawSession(t, i, p)
  PROVE  Goes(t, u)
<1> DEFINE a == IF p.stream[1] \in conf.tracked THEN p.stream[1] ELSE p.stream[2]
           r == [NewSession("RawRtp") EXCEPT !.endpoint = a]
           v == Put(t, i, r)
           w == SetMediaAddress(v, i, a)
<1>0. a \in Address /\ t.byAddr[a] = None /\ i # None
  BY SessionsAssumption DEF PacketRecord, Stream
<1>1. u = AddRtpPacket(w, i, p).t
  BY DEF RawSession
<1> HIDE DEF a
<1>2. r \in SessionRecord /\ Shape(conf, i, r) /\ ~r.started /\ ~r.stopped /\ r.callId = None
  BY <1>0, NewRawIs
<1> HIDE DEF r
<1>3. /\ Sound(conf, v) /\ (StaleIn(t) => StaleIn(v)) /\ (Tidy(t) => Tidy(v))
      /\ v.session[i] = r /\ v.byAddr = t.byAddr
      /\ Led(t, None) => Led(v, None)
  BY <1>2, PutNew
<1>4. v.session[i] # None /\ ~v.session[i].stopped /\ CallLeads(v, i)
  <2>1. r # None
    BY <1>2, NoneAssumption
  <2> QED
    BY <1>2, <1>3, <2>1 DEF CallLeads
<1> HIDE DEF v
<1>5. /\ Sound(conf, w) /\ (StaleIn(v) => StaleIn(w))
      /\ Tidy(v) => Tidy(w)
      /\ w.session[i] # None /\ ~w.session[i].stopped
      /\ w.byAddr[a] = i
  BY <1>0, <1>3, <1>4, SetSound
<1>6. ~conf.lateInfo /\ Led(v, None) => Led(w, None)
  BY <1>0, <1>3, <1>4, SetLed
<1>7. Leads(w, i)
  BY <1>0, <1>5 DEF Leads
<1> HIDE DEF w
<1>8. w \in State
  BY <1>5 DEF Sound
<1>9. Heard(w, u, i)
  BY <1>1, <1>5, <1>8, PacketHeard
<1>10. Sound(conf, u) /\ (StaleIn(w) => StaleIn(u)) /\ (Tidy(w) => Tidy(u))
  BY <1>5, <1>9, HeardSound, HeardTidy
<1>11. Led(w, None) => Led(u, None)
  BY <1>5, <1>7, <1>9, HeardLed
<1> QED
  BY <1>3, <1>5, <1>6, <1>10, <1>11 DEF Goes, Fine

\* ReportRtpPacket.
LEMMA PacketGoes ==
  ASSUME Sound(conf, Now), conf \in ConfigRecord, NEW p \in PacketRecord, ReportRtpPacket(p)
  PROVE  \E u : Become(u) /\ Goes(Now, u)
<1>1. PICK d \in {Delivered(p)} :
        \/ /\ d.n = 2 /\ d.s1 # d.s2 /\ BothSip(d.t, d.s1, d.s2)
           /\ \E u \in Separated(d.t, d.s1, d.s2, p) : Become(u)
        \/ /\ d.n = 2 /\ d.s1 # d.s2 /\ ~BothSip(d.t, d.s1, d.s2)
           /\ \E m \in Mergers(d.t, d.s1, d.s2, p) :
                 Become(Stop(d.t, IF m = d.s1 THEN d.s2 ELSE d.s1))
        \/ /\ d.n = 2 /\ d.s1 = d.s2
           /\ Become(d.t)
        \/ /\ d.n = 1
           /\ Become(OneFound(d.t, IF d.s2 # None THEN d.s2 ELSE d.s1, d.s1 # None, p))
        \/ /\ d.n = 0 /\ (conf.lookBack \/ conf.trackRaw)
           /\ \E i \in Session : FreeId(i) /\ Become(RawSession(d.t, i, p))
        \/ /\ d.n = 0 /\ ~(conf.lookBack \/ conf.trackRaw)
           /\ Become(d.t)
  BY DEF ReportRtpPacket
<1>0. p.stream[1] \in Address /\ p.stream[2] \in Address
  BY DEF PacketRecord, Stream
<1>2. /\ Keeps(Now, d.t)
      /\ d.s1 \in Session \cup {None} /\ d.s2 \in Session \cup {None}
      /\ d.n = 2 => /\ d.s1 \in Session /\ d.t.byAddr[p.stream[1]] = d.s1
                    /\ d.s2 \in Session /\ d.t.byAddr[p.stream[2]] = d.s2
      /\ d.n = 1 => /\ d.s1 # None \/ d.s2 # None
                    /\ d.s1 # None => d.t.session[d.s1] # None
                    /\ d.s2 # None => d.t.session[d.s2] # None
                    /\ ~conf.breaks /\ d.s2 # None => d.t.byAddr[p.stream[2]] = d.s2
                    /\ ~conf.breaks /\ d.s2 = None => d.t.byAddr[p.stream[1]] = d.s1
      /\ d.n = 0 => d.t.byAddr[p.stream[1]] = None /\ d.t.byAddr[p.stream[2]] = None
      /\ \A y \in Session : d.t.session[y] = None <=> session[y] = None
  BY DeliveredIs
<1>3. Goes(Now, d.t) /\ Sound(conf, d.t)
  BY <1>2, KeepsGoes DEF Keeps
<1>4. ASSUME NEW u, Become(u), Keeps(d.t, u)
      PROVE  \E v : Become(v) /\ Goes(Now, v)
  BY <1>2, <1>4, KeepsTwice, KeepsGoes
<1>5. ASSUME NEW u, Become(u), Goes(d.t, u)
      PROVE  \E v : Become(v) /\ Goes(Now, v)
  BY <1>3, <1>5, GoesTwice
<1>6. CASE /\ d.n = 2 /\ d.s1 # d.s2 /\ BothSip(d.t, d.s1, d.s2)
           /\ \E u \in Separated(d.t, d.s1, d.s2, p) : Become(u)
  <2>1. PICK u \in Separated(d.t, d.s1, d.s2, p) : Become(u)
    BY <1>6
  <2>2. \/ u = d.t
        \/ u = [d.t EXCEPT !.byAddr[p.stream[1]] = None]
        \/ u = [d.t EXCEPT !.byAddr[p.stream[2]] = None]
    BY DEF Separated
  <2>3. d.t.session[d.s1].proto = "Sip" /\ d.t.session[d.s2].proto = "Sip"
    BY <1>6 DEF BothSip
  <2>4. CASE u = d.t
    BY <1>3, <2>1, <2>4
  <2>5. CASE u = [d.t EXCEPT !.byAddr[p.stream[1]] = None]
    <3>1. Keeps(d.t, u)
      BY <1>0, <1>2, <1>3, <1>6, <2>3, <2>5, SeparatedKeeps
    <3> QED
      BY <1>4, <2>1, <3>1
  <2>6. CASE u = [d.t EXCEPT !.byAddr[p.stream[2]] = None]
    <3>1. Keeps(d.t, u)
      BY <1>0, <1>2, <1>3, <1>6, <2>3, <2>6, SeparatedKeeps
    <3> QED
      BY <1>4, <2>1, <3>1
  <2> QED
    BY <2>2, <2>4, <2>5, <2>6
<1>7. CASE /\ d.n = 2 /\ d.s1 # d.s2 /\ ~BothSip(d.t, d.s1, d.s2)
           /\ \E m \in Mergers(d.t, d.s1, d.s2, p) :
                 Become(Stop(d.t, IF m = d.s1 THEN d.s2 ELSE d.s1))
  <2>1. PICK s \in {d.s1, d.s2} : Become(StopEach(d.t, {s}))
    BY <1>7 DEF Stop
  <2>2. s \in Session /\ Leads(d.t, s)
    BY <1>0, <1>2, <1>7, <2>1 DEF Leads
  <2>3. Keeps(d.t, StopEach(d.t, {s}))
    BY <1>3, <2>2, StopKeeps
  <2> QED
    BY <1>4, <2>1, <2>3
<1>8. CASE d.n = 2 /\ d.s1 = d.s2 /\ Become(d.t)
  BY <1>3, <1>8
<1>9. CASE /\ d.n = 1
           /\ Become(OneFound(d.t, IF d.s2 # None THEN d.s2 ELSE d.s1, d.s1 # None, p))
  <2> DEFINE s == IF d.s2 # None THEN d.s2 ELSE d.s1
             u == OneFound(d.t, s, d.s1 # None, p)
  <2>1. s \in Session /\ d.t.session[s] # None
    BY <1>2, <1>9
  <2>2. ~conf.breaks => Leads(d.t, s)
    BY <1>0, <1>2, <1>9 DEF Leads
  <2>3. Become(u)
    BY <1>9
  <2> HIDE DEF s
  <2>4. Goes(d.t, u)
    BY <1>3, <2>1, <2>2, OneFoundGoes
  <2> HIDE DEF u
  <2> QED
    BY <1>5, <2>3, <2>4
<1>10. CASE /\ d.n = 0 /\ (conf.lookBack \/ conf.trackRaw)
            /\ \E i \in Session : FreeId(i) /\ Become(RawSession(d.t, i, p))
  <2>1. PICK i \in Session : FreeId(i) /\ Become(RawSession(d.t, i, p))
    BY <1>10
  <2>2. d.t.session[i] = None
    BY <1>2, <2>1 DEF FreeId, Unused
  <2>3. Goes(d.t, RawSession(d.t, i, p))
    BY <1>2, <1>3, <1>10, <2>2, RawSessionGoes
  <2> QED
    BY <1>5, <2>1, <2>3
<1>11. CASE d.n = 0 /\ ~(conf.lookBack \/ conf.trackRaw) /\ Become(d.t)
  BY <1>3, <1>11
<1> QED
  BY <1>1, <1>6, <1>7, <1>8, <1>9, <1>10, <1>11

-----------------------------------------------------------------------------
(* Signalling and commands.                                                  *)

\* An invite, or what is to be said of it, for a call that has its session.
LEMMA ReinviteGoes ==
  ASSUME NEW t, Sound(conf, t), NEW s \in Session, Leads(t, s), NEW a \in Address \cup {None},
         NEW sendonly, NEW demand \in BOOLEAN, NEW byId,
         NEW u, u = Reinvite(t, s, a, sendonly, demand, byId)
  PROVE  Goes(t, u)
<1> DEFINE off == GoOffHold(t, s)
           set == SetMediaAddress(t, s, a)
<1>0. t \in State /\ t.session[s] # None
  BY LedTo DEF Sound
<1>1. \/ u = GoOnHold(t, s)
      \/ u = SetMediaAddress(off, s, a)
      \/ u = [set EXCEPT !.session[s].keep = @ \/ demand]
      \/ u = [t EXCEPT !.session[s].keep = @ \/ demand]
  BY DEF Reinvite
<1>2. Goes(t, GoOnHold(t, s)) /\ Goes(t, [t EXCEPT !.session[s].keep = @ \/ demand])
  <2>1. Heard(t, GoOnHold(t, s), s) /\ Heard(t, [t EXCEPT !.session[s].keep = @ \/ demand], s)
    BY <1>0, HoldHeard
  <2> QED
    BY <2>1, HeardGoes
<1>3. Goes(t, SetMediaAddress(off, s, a))
  <2>1. Heard(t, off, s)
    BY <1>0, HoldHeard
  <2> HIDE DEF off
  <2>2. Goes(t, off)
    BY <2>1, HeardGoes
  <2>3. Sound(conf, off) /\ Leads(off, s)
    BY <2>1, <2>2 DEF Goes, Heard, Leads
  <2>4. Goes(off, SetMediaAddress(off, s, a))
    BY <2>3, SetGoes
  <2> QED
    BY <2>2, <2>4, GoesTwice
<1>4. Goes(t, [set EXCEPT !.session[s].keep = @ \/ demand])
  <2>1. Goes(t, set) /\ set.session[s] # None /\ Leads(set, s) /\ Sound(conf, set)
    BY <1>0, SetGoes, SetSound
  <2> HIDE DEF set
  <2>2. set \in State
    BY <2>1 DEF Sound
  <2>3. Heard(set, [set EXCEPT !.session[s].keep = @ \/ demand], s)
    BY <2>1, <2>2, HoldHeard
  <2>4. Goes(set, [set EXCEPT !.session[s].keep = @ \/ demand])
    BY <2>1, <2>3, HeardGoes
  <2> QED
    BY <2>1, <2>4, GoesTwice
<1> QED
  BY <1>1, <1>2, <1>3, <1>4

\* A session that gives way to the call of an invite.
LEMMA DemotedGoes ==
  ASSUME NEW t, Sound(conf, t), NEW s \in Session \cup {None}, s # None => Leads(t, s), NEW c,
         NEW u, u = Demoted(t, s, c)
  PROVE  Goes(t, u) /\ u.byAddr = t.byAddr /\ u.byCall = t.byCall
         /\ \A y \in Session : u.session[y] = None <=> t.session[y] = None
<1>1. CASE u = t
  BY <1>1 DEF Goes, Fine
<1>2. CASE s # None /\ u = [t EXCEPT !.session[s].proto = "RawRtp"]
  <2> DEFINE r == t.session[s]
             q == [r EXCEPT !.proto = "RawRtp"]
  <2>0. t \in State /\ s \in Session /\ r # None
    BY <1>2, LedTo DEF Sound
  <2>1. r \in SessionRecord
    BY <2>0, StateFacts
  <2>2. SameMarks(r, q)
    BY <2>1 DEF SameMarks, SessionRecord
  <2>3. u = Put(t, s, q)
    BY <1>2 DEF Put
  <2> HIDE DEF q
  <2>4. Heard(t, u, s)
    BY <2>0, <2>2, <2>3, PutHeard
  <2>5. Goes(t, u)
    BY <1>2, <2>0, <2>4, HeardGoes
  <2> QED
    BY <2>0, <2>4, <2>5 DEF Heard
<1> QED
  BY <1>1, <1>2 DEF Demoted

\* A session with a call id gets its address, or none, then its call id leads to it.
LEMMA NewCallGoes ==
  ASSUME NEW t, Sound(conf, t), NEW i \in Session, t.session[i] = None, NEW r \in SessionRecord,
         Shape(conf, i, r), ~r.started, ~r.stopped, NEW c \in Call, r.callId = c,
         t.byCall[c] = None, NEW a \in Address \cup {None},
         NEW u, u = MapCall(SetMediaAddress(Put(t, i, r), i, a), c, i)
  PROVE  Goes(t, u)
<1> DEFINE v == Put(t, i, r)
           w == SetMediaAddress(v, i, a)
<1>1. /\ Sound(conf, v) /\ (StaleIn(t) => StaleIn(v)) /\ (Tidy(t) => Tidy(v))
      /\ v.session[i] = r /\ v.byCall = t.byCall
      /\ Led(t, None) => Led(v, i)
  BY PutNew
<1>2. r # None
  BY NoneAssumption
<1> HIDE DEF v
<1>3. /\ Sound(conf, w) /\ (StaleIn(v) => StaleIn(w)) /\ (Tidy(v) => Tidy(w))
      /\ w.session[i] # None /\ w.session[i].callId = c /\ ~w.session[i].stopped
      /\ w.byCall[c] = None
  BY <1>1, <1>2, SetSound
<1>4. ~conf.lateInfo /\ Led(v, i) => Led(w, i)
  BY <1>1, <1>2, SetLed
<1>5. u = MapCall(w, c, i)
  BY DEF v
<1> HIDE DEF w
<1>6. /\ Sound(conf, u) /\ (StaleIn(w) => StaleIn(u)) /\ (Tidy(w) => Tidy(u))
      /\ Led(w, i) => Led(u, None)
  BY <1>3, <1>5, MapCallKeeps
<1> QED
  BY <1>1, <1>3, <1>4, <1>6 DEF Goes, Fine

\* An invite.
LEMMA InviteGoes ==
  ASSUME Sound(conf, Now), conf \in ConfigRecord, NEW c \in SipCall, NEW a \in Address \cup {None},
         NEW sendonly, NEW demand \in BOOLEAN, ReportSipInvite(c, a, sendonly, demand)
  PROVE  \E u : Become(u) /\ Goes(Now, u)
<1> DEFINE s == byAddr[a]
           t == Demoted(Now, s, c)
<1>0. /\ Now.byAddr = byAddr /\ Now.byCall = byCall /\ Now.session = session
      /\ Now \in State /\ s \in Session \cup {None} /\ byCall[c] \in Session \cup {None}
      /\ c \in Call /\ c # None
  BY StateFacts, SessionsAssumption DEF Now, Sound, Call
<1>1. s # None => Leads(Now, s)
  <2> HAVE s # None
  <2>1. a \in Address
    BY <1>0 DEF Sound
  <2> QED
    BY <1>0, <2>1 DEF Leads
<1>2. byCall[c] # None => Leads(Now, byCall[c])
  BY <1>0 DEF Leads
<1>3. Goes(Now, t) /\ t.byAddr = byAddr /\ t.byCall = byCall
      /\ \A y \in Session : t.session[y] = None <=> session[y] = None
  BY <1>0, <1>1, DemotedGoes
<1>4. \/ s # None /\ Become(Reinvite(Now, s, a, sendonly, demand, FALSE))
      \/ byCall[c] # None /\ Become(Reinvite(t, byCall[c], a, sendonly, demand, TRUE))
      \/ /\ byCall[c] = None
         /\ \E i \in Session, e \in conf.phones \cup {None} :
                 FreeId(i) /\ Become(NewSipSession(t, i, c, a, demand, e))
  BY DEF ReportSipInvite
<1> HIDE DEF s, t
<1>5. CASE s # None /\ Become(Reinvite(Now, s, a, sendonly, demand, FALSE))
  BY <1>0, <1>1, <1>5, ReinviteGoes
<1>6. CASE byCall[c] # None /\ Become(Reinvite(t, byCall[c], a, sendonly, demand, TRUE))
  <2>1. byCall[c] \in Session /\ Leads(t, byCall[c]) /\ Sound(conf, t)
    BY <1>0, <1>2, <1>3, <1>6 DEF Leads, Goes
  <2>2. Goes(t, Reinvite(t, byCall[c], a, sendonly, demand, TRUE))
    BY <2>1, ReinviteGoes
  <2> QED
    BY <1>3, <1>6, <2>2, GoesTwice
<1>7. CASE /\ byCall[c] = None
           /\ \E i \in Session, e \in conf.phones \cup {None} :
                 FreeId(i) /\ Become(NewSipSession(t, i, c, a, demand, e))
  <2>1. PICK i \in Session, e \in conf.phones \cup {None} :
                 FreeId(i) /\ Become(NewSipSession(t, i, c, a, demand, e))
    BY <1>7
  <2>2. t.session[i] = None /\ Sound(conf, t)
    BY <1>3, <2>1 DEF FreeId, Unused, Goes
  <2> DEFINE r == [NewSession("Sip") EXCEPT !.callId = c, !.keep = @ \/ demand, !.endpoint = e]
  <2>3. /\ r \in SessionRecord /\ Shape(conf, i, r) /\ ~r.started /\ ~r.stopped /\ r.callId = c
    <3> DEFINE k == conf.lookBack \/ demand
    <3>1. k \in BOOLEAN /\ e \in Address \cup {None}
      BY DEF ConfigRecord
    <3>2. r = [NewSession("Sip") EXCEPT !.callId = c, !.keep = k, !.endpoint = e]
      BY DEF NewSession
    <3> HIDE DEF k, r
    <3>3. r = [proto |-> "Sip", callId |-> c, addr |-> None, addrs |-> {}, endpoint |-> e,
               rtp |-> 0, ignored |-> 0, age |-> 0, port |-> None, metadata |-> FALSE,
               started |-> FALSE, stopped |-> FALSE, keep |-> k, early |-> FALSE,
               waitS2 |-> FALSE, hold |-> FALSE, last |-> FALSE, s1 |-> None, s2 |-> None]
      BY <3>2 DEF NewSession
    <3> QED
      BY <1>0, <3>1, <3>3, Bounds DEF SessionRecord, Shape
  <2>4. NewSipSession(t, i, c, a, demand, e) = MapCall(SetMediaAddress(Put(t, i, r), i, a), c, i)
    BY DEF NewSipSession
  <2> HIDE DEF r
  <2>5. Goes(t, NewSipSession(t, i, c, a, demand, e))
    BY <1>0, <1>3, <1>7, <2>2, <2>3, <2>4, NewCallGoes
  <2> QED
    BY <1>3, <2>1, <2>5, GoesTwice
<1> QED
  BY <1>4, <1>5, <1>6, <1>7

\* What leads to the session of a phone.
LEMMA PhoneLeads ==
  ASSUME Sound(conf, Now), NEW e
  PROVE  /\ OfPhone(e) \subseteq Session /\ OnAddresses(e) \subseteq Session
         /\ OnMap \subseteq Session
         /\ \A s \in OfPhone(e) \cup OnAddresses(e) \cup OnMap : Leads(Now, s)
         /\ \A s \in OnAddresses(e) \cup OnMap : \E a \in Address : byAddr[a] = s
<1>1. Now \in State /\ Now.byAddr = byAddr /\ Now.byCall = byCall
  BY DEF Sound, Now
<1>2. /\ \A a \in Address : byAddr[a] \in Session \cup {None}
      /\ \A c \in Call \cup {None} : byCall[c] \in Session \cup {None}
  BY <1>1, StateFacts
<1> QED
  BY <1>1, <1>2 DEF OfPhone, OnAddresses, OnMap, Leads

\* A call id comes late to a session that an address leads to.
LEMMA LateCallGoes ==
  ASSUME NEW t, Sound(conf, t), conf.lateInfo, NEW s \in Session, Leads(t, s),
         t.session[s].callId = None, NEW c \in SkinnyCall,
         NEW u, u = MapCall([t EXCEPT !.session[s].callId = c], c, s)
  PROVE  Goes(t, u)
<1> DEFINE r == t.session[s]
           q == [r EXCEPT !.callId = c]
           v == Put(t, s, q)
<1>0. t \in State /\ r # None /\ r \in SessionRecord /\ c \in Call /\ c # None
  BY LedTo, StateFacts, SessionsAssumption DEF Sound, Call
<1>1. u = MapCall(v, c, s)
  BY DEF Put
<1>n. q \in SessionRecord => q # None
  BY NoneAssumption
<1>2. /\ q \in SessionRecord /\ q.callId = c /\ q.addrs = r.addrs /\ q.stopped = r.stopped
      /\ q.addr = r.addr /\ q.started = r.started /\ q.metadata = r.metadata /\ q.port = r.port
      /\ q.proto = r.proto
  BY <1>0 DEF SessionRecord
<1>3. Shape(conf, s, r)
  BY <1>0 DEF Sound
<1>4. Shape(conf, s, q)
  <2> HIDE DEF q, r
  <2> QED
    BY <1>0, <1>2, <1>3 DEF Shape
<1>5. /\ v \in State /\ v.session[s] = q /\ v.byAddr = t.byAddr /\ v.byCall = t.byCall
      /\ \A y \in Session \ {s} : v.session[y] = t.session[y]
  BY <1>0, <1>2, PutIs, SMTT(30)
<1> HIDE DEF v
<1>6. \A y \in Session : /\ v.session[y] = None <=> t.session[y] = None
                         /\ v.session[y].addrs = t.session[y].addrs
                         /\ v.session[y].stopped = t.session[y].stopped
                         /\ v.session[y] # None => Shape(conf, y, v.session[y])
  <2> TAKE y \in Session
  <2>1. CASE y = s
    BY <1>0, <1>n, <1>2, <1>4, <1>5, <2>1
  <2>2. CASE y # s
    BY <1>5, <2>2 DEF Sound
  <2> QED
    BY <2>1, <2>2
<1>7. /\ \A a \in Address : t.byAddr[a] \in Session \cup {None}
      /\ \A d \in Call \cup {None} : t.byCall[d] \in Session \cup {None}
  BY <1>0, StateFacts
<1>8. \A d \in Call \cup {None} : v.byCall[d] # None =>
         /\ v.session[v.byCall[d]] # None
         /\ d # None \/ ~conf.lateInfo => v.session[v.byCall[d]].callId = d
  <2> TAKE d \in Call \cup {None}
  <2> HAVE v.byCall[d] # None
  <2>1. t.byCall[d] \in Session /\ t.session[t.byCall[d]] # None
        /\ (d # None => t.session[t.byCall[d]].callId = d)
    BY <1>5, <1>7 DEF Sound
  <2>2. d # None => t.byCall[d] # s
    BY <2>1
  <2> QED
    BY <1>5, <1>6, <2>1, <2>2
<1>9. Sound(conf, v)
  BY <1>5, <1>6, <1>7, <1>8 DEF Sound
<1>10. (StaleIn(t) => StaleIn(v)) /\ (Tidy(t) => Tidy(v))
  BY <1>5, <1>6, <1>7 DEF StaleIn, Tidy
<1>11. v.session[s] # None /\ v.session[s].callId = c /\ v.session[s].stopped = t.session[s].stopped
  BY <1>2, <1>n, <1>5
<1>12. /\ Sound(conf, u) /\ (StaleIn(v) => StaleIn(u))
       /\ Tidy(v) /\ ~v.session[s].stopped => Tidy(u)
  BY <1>0, <1>1, <1>9, <1>11, MapCallKeeps
<1>13. Fine(t) => ~t.session[s].stopped
  BY LedTo
<1> QED
  BY <1>10, <1>11, <1>12, <1>13 DEF Goes, Fine

\* A new session of a phone for a call; the one before it may be stopped.
LEMMA NewSkinnyIs ==
  ASSUME NEW c \in Call \cup {None}, NEW e \in Address \cup {None}, NEW i,
         conf \in ConfigRecord, c # None \/ conf.lateInfo,
         NEW r, r = [NewSession("Skinny") EXCEPT !.callId = c, !.endpoint = e]
  PROVE  r \in SessionRecord /\ Shape(conf, i, r) /\ ~r.started /\ ~r.stopped /\ r.callId = c
<1>1. r = [proto |-> "Skinny", callId |-> c, addr |-> None, addrs |-> {}, endpoint |-> e,
           rtp |-> 0, ignored |-> 0, age |-> 0, port |-> None, metadata |-> FALSE,
           started |-> FALSE, stopped |-> FALSE, keep |-> conf.lookBack, early |-> FALSE,
           waitS2 |-> FALSE, hold |-> FALSE, last |-> FALSE, s1 |-> None, s2 |-> None]
  BY DEF NewSession
<1>2. conf.lookBack \in BOOLEAN
  BY DEF ConfigRecord
<1>p. PICK q : q = r
  OBVIOUS
<1>q. q = [proto |-> "Skinny", callId |-> c, addr |-> None, addrs |-> {}, endpoint |-> e,
           rtp |-> 0, ignored |-> 0, age |-> 0, port |-> None, metadata |-> FALSE,
           started |-> FALSE, stopped |-> FALSE, keep |-> conf.lookBack, early |-> FALSE,
           waitS2 |-> FALSE, hold |-> FALSE, last |-> FALSE, s1 |-> None, s2 |-> None]
  BY <1>1, <1>p
<1>3. q \in SessionRecord
  BY <1>q, <1>2, Bounds DEF SessionRecord
<1>4. /\ q.addrs = {} /\ ~q.started /\ ~q.stopped /\ q.port = None /\ q.proto = "Skinny"
      /\ q.callId = c
  BY <1>q
<1>5. Shape(conf, i, q)
  BY <1>4 DEF Shape
<1> QED
  BY <1>p, <1>3, <1>4, <1>5

LEMMA CallInfoGoes ==
  ASSUME Sound(conf, Now), conf \in ConfigRecord, NEW c \in SkinnyCall, NEW e \in Address,
         ReportSkinnyCallInfo(c, e)
  PROVE  \E u : Become(u) /\ Goes(Now, u)
<1>0. /\ Now.byAddr = byAddr /\ Now.byCall = byCall /\ Now.session = session
      /\ c \in Call /\ c # None /\ byCall[c] = None
  BY SessionsAssumption DEF Now, Call, ReportSkinnyCallInfo
<1>1. CASE /\ conf.lateInfo
           /\ \E s \in OnAddresses(e) :
                /\ session[s].callId = None
                /\ Become(MapCall([Now EXCEPT !.session[s].callId = c], c, s))
  <2>1. PICK s \in OnAddresses(e) :
                /\ session[s].callId = None
                /\ Become(MapCall([Now EXCEPT !.session[s].callId = c], c, s))
    BY <1>1
  <2>2. s \in Session /\ Leads(Now, s) /\ Now.session[s].callId = None
    BY <1>0, <2>1, PhoneLeads
  <2>3. Goes(Now, MapCall([Now EXCEPT !.session[s].callId = c], c, s))
    BY <1>1, <2>2, LateCallGoes
  <2> QED
    BY <2>1, <2>3
<1>2. CASE \E i \in Session, previous \in OnAddresses(e) \cup {None} :
                /\ FreeId(i)
                /\ previous # None => conf.stopPrevious
                /\ LET t == NewSkinnySession(Now, i, c, e)
                       t1 == IF previous = None THEN t ELSE Stop(t, previous)
                   IN  Become(MapCall(t1, c, i))
  <2>1. PICK i \in Session, previous \in OnAddresses(e) \cup {None} :
                /\ FreeId(i)
                /\ previous # None => conf.stopPrevious
                /\ LET t == NewSkinnySession(Now, i, c, e)
                       t1 == IF previous = None THEN t ELSE Stop(t, previous)
                   IN  Become(MapCall(t1, c, i))
    BY <1>2
  <2> DEFINE r == [NewSession("Skinny") EXCEPT !.callId = c, !.endpoint = e]
             v == Put(Now, i, r)
             w == IF previous = None THEN v ELSE StopEach(v, {previous})
             u == MapCall(w, c, i)
  <2>2. Become(u)
    BY <2>1 DEF NewSkinnySession, Stop
  <2>3. Now.session[i] = None
    BY <1>0, <2>1 DEF FreeId, Unused
  <2>4. r \in SessionRecord /\ Shape(conf, i, r) /\ ~r.started /\ ~r.stopped /\ r.callId = c /\ r # None
    <3>0. c # None /\ c \in Call \cup {None} /\ e \in Address \cup {None}
      BY <1>0
    <3>1. r \in SessionRecord /\ Shape(conf, i, r) /\ ~r.started /\ ~r.stopped /\ r.callId = c
      BY <3>0, NewSkinnyIs
    <3> QED
      BY <3>1, NoneAssumption
  <2> HIDE DEF r
  <2>5. /\ Sound(conf, v) /\ (StaleIn(Now) => StaleIn(v)) /\ (Tidy(Now) => Tidy(v))
        /\ v.session[i] = r /\ v.byAddr = byAddr /\ v.byCall = byCall
        /\ \A a \in Address : v.byAddr[a] # i
        /\ Led(Now, None) => Led(v, None) /\ Led(v, i)
    BY <1>0, <2>3, <2>4, PutNew
  <2>6. previous # None => /\ previous \in Session /\ Leads(v, previous) /\ previous # i
                           /\ \E a \in Address : byAddr[a] = previous
    <3> HAVE previous # None
    <3>1. previous \in Session /\ Leads(Now, previous) /\ \E a \in Address : byAddr[a] = previous
      BY PhoneLeads
    <3> QED
      BY <1>0, <2>5, <3>1 DEF Leads
  <2> HIDE DEF v
  <2>7. /\ Keeps(v, w)
        /\ w.session[i] = v.session[i] /\ w.byCall[c] = None
    <3>1. CASE previous = None
      BY <1>0, <2>5, <3>1 DEF Keeps
    <3>2. CASE previous # None
      <4>1. Keeps(v, w)
        BY <2>5, <2>6, <3>2, StopKeeps
      <4>2. v.session[previous] # None /\ v \in State
        BY <2>5, <2>6, <3>2, LedTo DEF Sound
      <4>3. Ended(v, {previous}, w)
        BY <2>6, <3>2, <4>2, StopEachIs
      <4>4. w.session[i] = v.session[i]
        BY <2>6, <3>2, <4>3 DEF Ended
      <4>5. w.byCall[c] = None
        BY <1>0, <2>5, <4>3 DEF Ended
      <4> QED
        BY <4>1, <4>4, <4>5
    <3> QED
      BY <3>1, <3>2
  <2>8. Led(w, None) => Led(w, i)
    BY DEF Led
  <2>9. Sound(conf, w) /\ w.session[i] # None /\ w.session[i].callId = c /\ ~w.session[i].stopped
    BY <2>4, <2>5, <2>7 DEF Keeps
  <2> HIDE DEF w
  <2>10. /\ Sound(conf, u) /\ (StaleIn(w) => StaleIn(u)) /\ (Tidy(w) => Tidy(u))
         /\ Led(w, i) => Led(u, None)
    BY <1>0, <2>7, <2>9, MapCallKeeps
  <2>11. Goes(Now, u)
    BY <2>5, <2>7, <2>8, <2>10 DEF Keeps, Goes, Fine
  <2> QED
    BY <2>2, <2>11
<1> QED
  BY <1>1, <1>2 DEF ReportSkinnyCallInfo

LEMMA SkinnyMediaGoes ==
  ASSUME Sound(conf, Now), conf \in ConfigRecord, NEW e \in Address, NEW a \in Address \cup {None},
         ReportSkinnyMedia(e, a)
  PROVE  \E u : Become(u) /\ Goes(Now, u)
<1>0. Now.session = session
  BY DEF Now
<1>1. CASE \E s \in OfPhone(e) :
          /\ session[s].addr = None \/ conf.skinnyDynamic
          /\ Become(SetMediaAddress(Now, s, a))
  BY <1>1, PhoneLeads, SetGoes
<1>2. CASE /\ OfPhone(e) = {} /\ conf.lateInfo
           /\ \E i \in Session :
             /\ FreeId(i)
             /\ Become(SetMediaAddress(NewSkinnySession(Now, i, None, e), i, a))
  <2>1. PICK i \in Session :
             /\ FreeId(i)
             /\ Become(SetMediaAddress(NewSkinnySession(Now, i, None, e), i, a))
    BY <1>2
  <2> DEFINE r == [NewSession("Skinny") EXCEPT !.callId = None, !.endpoint = e]
             v == Put(Now, i, r)
             u == SetMediaAddress(v, i, a)
  <2>2. Become(u)
    BY <2>1 DEF NewSkinnySession
  <2>3. Now.session[i] = None
    BY <1>0, <2>1 DEF FreeId, Unused
  <2>4. r \in SessionRecord /\ Shape(conf, i, r) /\ ~r.started /\ ~r.stopped /\ r # None
    BY <1>2, NewSkinnyIs, NoneAssumption
  <2> HIDE DEF r
  <2>5. /\ Sound(conf, v) /\ (StaleIn(Now) => StaleIn(v)) /\ (Tidy(Now) => Tidy(v))
        /\ v.session[i] = r
    BY <2>3, <2>4, PutNew
  <2> HIDE DEF v
  <2>6. /\ Sound(conf, u) /\ (StaleIn(v) => StaleIn(u)) /\ (Tidy(v) => Tidy(u))
    BY <2>4, <2>5, SetSound
  <2>7. Goes(Now, u)
    BY <1>2, <2>5, <2>6 DEF Goes, Fine
  <2> QED
    BY <2>2, <2>7
<1> QED
  BY <1>1, <1>2 DEF ReportSkinnyMedia

\* CopyMetadataToNewSession.
CopiedRecord(o) ==
  [proto |-> o.proto, callId |-> o.callId, addr |-> o.addr, addrs |-> o.addrs,
   endpoint |-> o.endpoint, rtp |-> 0, ignored |-> 0, age |-> 0, port |-> None,
   metadata |-> TRUE, started |-> FALSE, stopped |-> FALSE, keep |-> conf.lookBack,
   early |-> FALSE, waitS2 |-> FALSE, hold |-> FALSE, last |-> FALSE, s1 |-> None, s2 |-> None]

LEMMA CopiedFields ==
  ASSUME NEW o
  PROVE  Copied(o) = CopiedRecord(o)
<1> DEFINE n == NewSession(o.proto)
           r == Copied(o)
<1>1. n = [proto |-> o.proto, callId |-> None, addr |-> None, addrs |-> {}, endpoint |-> None,
           rtp |-> 0, ignored |-> 0, age |-> 0, port |-> None, metadata |-> FALSE,
           started |-> FALSE, stopped |-> FALSE, keep |-> conf.lookBack, early |-> FALSE,
           waitS2 |-> FALSE, hold |-> FALSE, last |-> FALSE, s1 |-> None, s2 |-> None]
  BY DEF NewSession
<1>2. r = [n EXCEPT !.callId = o.callId, !.addr = o.addr, !.addrs = o.addrs,
                    !.endpoint = o.endpoint, !.metadata = TRUE]
  BY DEF Copied
<1> HIDE DEF n, r
<1>3. r = [proto |-> o.proto, callId |-> o.callId, addr |-> o.addr, addrs |-> o.addrs,
           endpoint |-> o.endpoint, rtp |-> 0, ignored |-> 0, age |-> 0, port |-> None,
           metadata |-> TRUE, started |-> FALSE, stopped |-> FALSE, keep |-> conf.lookBack,
           early |-> FALSE, waitS2 |-> FALSE, hold |-> FALSE, last |-> FALSE,
           s1 |-> None, s2 |-> None]
  BY <1>1, <1>2
<1>4. r = CopiedRecord(o)
  BY <1>3 DEF CopiedRecord
<1> QED
  BY <1>4 DEF r

LEMMA CopiedIs ==
  ASSUME conf \in ConfigRecord, NEW s, NEW i, NEW o \in SessionRecord, Shape(conf, s, o),
         NEW r, r = Copied(o)
  PROVE  /\ r \in SessionRecord /\ Shape(conf, i, r) /\ ~r.started /\ ~r.stopped
         /\ r.callId = o.callId /\ r.addr = o.addr /\ r.addrs = o.addrs
         /\ r.proto = o.proto /\ r.rtp = 0
<1>1. r = CopiedRecord(o)
  BY CopiedFields
<1>2. conf.lookBack \in BOOLEAN
  BY DEF ConfigRecord
<1>3. r \in SessionRecord
  BY <1>1, <1>2, Bounds DEF SessionRecord, CopiedRecord
<1>4. Shape(conf, i, r)
  BY <1>1 DEF Shape, CopiedRecord
<1> QED
  BY <1>1, <1>3, <1>4 DEF CopiedRecord

\* A command stops a session; a copy of it goes on.
LEMMA StopCaptureGoes ==
  ASSUME Sound(conf, Now), conf \in ConfigRecord, NEW s, StopCapture(s)
  PROVE  \E u : Become(u) /\ Goes(Now, u)
<1>0. Now.session = session /\ Now.byAddr = byAddr /\ Now.byCall = byCall /\ Now \in State
  BY DEF Now, Sound
<1>1. PICK i \in Session :
          /\ FreeId(i)
          /\ LET r == Copied(session[s])
                 t == Stop(Put(Now, i, r), s)
             IN  Become(MapCall(MapAddr(t, r.addr, i), r.callId, i))
  BY DEF StopCapture
<1> DEFINE o == Now.session[s]
           r == Copied(o)
           t == Put(Now, i, r)
           v == StopEach(t, {s})
           w == MapAddr(v, r.addr, i)
           u == MapCall(w, r.callId, i)
<1>2. Become(u)
  BY <1>0, <1>1 DEF Stop
<1>3. s \in Session /\ Leads(Now, s) /\ \E a \in Address : byAddr[a] = s
  BY PhoneLeads DEF StopCapture
<1>4. /\ Now.session[i] = None /\ o # None /\ o \in SessionRecord /\ Shape(conf, s, o) /\ i # s
      /\ None \notin Session /\ None \notin Address
  BY <1>0, <1>1, <1>3, LedTo, StateFacts, SessionsAssumption DEF FreeId, Unused, Sound
<1>5. o.addr \in Address /\ o.addr \in o.addrs
  <2>1. PICK a \in Address : byAddr[a] = s
    BY <1>3
  <2>2. a \in o.addrs
    BY <1>0, <1>4, <2>1, <1>3 DEF Sound
  <2>3. o.addrs \subseteq Address
    BY <1>4 DEF SessionRecord
  <2>4. o.addr \in o.addrs
    BY <1>4, <2>2 DEF Shape
  <2> QED
    BY <2>3, <2>4
<1> HIDE DEF o
<1>6. /\ r \in SessionRecord /\ Shape(conf, i, r) /\ ~r.started /\ ~r.stopped
      /\ r.callId = o.callId /\ r.addr = o.addr /\ r.addrs = o.addrs
  BY <1>4, CopiedIs
<1>n. r # None /\ r.callId \in Call \cup {None}
  BY <1>6, NoneAssumption DEF SessionRecord
<1> HIDE DEF r
<1>7. /\ Sound(conf, t) /\ (StaleIn(Now) => StaleIn(t)) /\ (Tidy(Now) => Tidy(t))
      /\ t.session[i] = r /\ t.byAddr = byAddr /\ t.byCall = byCall
      /\ \A y \in Session \ {i} : t.session[y] = Now.session[y]
      /\ Led(Now, None) => Led(t, i)
  BY <1>0, <1>4, <1>6, PutNew
<1>8. t.session[s] = o /\ t \in State
  BY <1>3, <1>4, <1>7 DEF Sound, o
<1> HIDE DEF t
<1>9. Sound(conf, v) /\ (StaleIn(t) => StaleIn(v)) /\ (Tidy(t) => Tidy(v))
  BY <1>3, <1>4, <1>7, <1>8, StopSound
<1>10. Ended(t, {s}, v)
  BY <1>3, <1>4, <1>8, StopEachIs
<1>11. v.session[i] = r /\ (r.callId # None => v.byCall[r.callId] = None)
  BY <1>4, <1>6, <1>n, <1>7, <1>8, <1>10 DEF Ended
<1>12. ~conf.lateInfo /\ Led(Now, None) => Led(v, i)
  <2> HAVE ~conf.lateInfo /\ Led(Now, None)
  <2>1. CallLeads(Now, s)
    BY <1>3, LedTo
  <2>2. t.session[s].callId # None => t.byCall[t.session[s].callId] \in {s, None}
    BY <1>0, <1>7, <1>8, <2>1 DEF CallLeads, o
  <2> QED
    BY <1>3, <1>4, <1>7, <1>8, <2>2, StopLed
<1> HIDE DEF v
<1>13. /\ w \in State /\ w.session = v.session /\ w.byCall = v.byCall /\ w.open = v.open
       /\ \A b \in Address \cup {None} : w.byAddr[b] =
               IF b = r.addr /\ v.byAddr[r.addr] = None THEN i ELSE v.byAddr[b]
  BY <1>5, <1>6, <1>9, MapAddrIs DEF Sound
<1> HIDE DEF w
<1>14. Sound(conf, w) /\ (StaleIn(v) => StaleIn(w)) /\ (Tidy(v) => Tidy(w))
  <2>1. w.byAddr[None] = None
    BY <1>4, <1>5, <1>6, <1>9, <1>13 DEF Sound
  <2>2. \A b \in Address : w.byAddr[b] # None =>
           w.session[w.byAddr[b]] # None /\ b \in w.session[w.byAddr[b]].addrs
    <3> TAKE b \in Address
    <3>1. CASE b = r.addr /\ v.byAddr[r.addr] = None
      BY <1>n, <1>5, <1>6, <1>11, <1>13, <3>1
    <3>2. CASE ~(b = r.addr /\ v.byAddr[r.addr] = None)
      BY <1>9, <1>13, <3>2 DEF Sound
    <3> QED
      BY <3>1, <3>2
  <2>3. Sound(conf, w)
    BY <1>9, <1>13, <2>1, <2>2 DEF Sound
  <2>4. Tidy(v) => Tidy(w)
    <3> HAVE Tidy(v)
    <3>1. \A b \in Address : w.byAddr[b] # None => ~w.session[w.byAddr[b]].stopped
      BY <1>6, <1>11, <1>13 DEF Tidy
    <3> QED
      BY <1>13, <3>1 DEF Tidy
  <2> QED
    BY <1>13, <2>3, <2>4 DEF StaleIn
<1>15. Led(v, i) => Led(w, i)
  <2> HAVE Led(v, i)
  <2>1. \A b \in Address : w.byAddr[b] \notin {None, i} => CallLeads(w, w.byAddr[b])
    <3> TAKE b \in Address
    <3> HAVE w.byAddr[b] \notin {None, i}
    <3>1. w.byAddr[b] = v.byAddr[b]
      BY <1>13
    <3> QED
      BY <1>13, <3>1 DEF Led, CallLeads
  <2>2. \A y \in Session : Leads(v, y) => Leads(w, y)
    <3> TAKE y \in Session
    <3>1. y # None
      BY <1>4
    <3> QED
      BY <1>13, <3>1 DEF Leads
  <2> QED
    BY <1>13, <2>1, <2>2 DEF Led
<1>16. /\ Sound(conf, u) /\ (StaleIn(w) => StaleIn(u)) /\ (Tidy(w) => Tidy(u))
       /\ Led(w, i) => Led(u, None)
  BY <1>n, <1>6, <1>11, <1>13, <1>14, MapCallKeeps
<1>17. Goes(Now, u)
  BY <1>7, <1>9, <1>12, <1>14, <1>15, <1>16 DEF Goes, Fine
<1> QED
  BY <1>2, <1>17

-----------------------------------------------------------------------------
(* Time, and every handler.                                                  *)

LEMMA SweptGoes ==
  ASSUME NEW t, Sound(conf, t), NEW all, NEW u, u = Swept(t, all)
  PROVE  Goes(t, u)
<1> DEFINE S == {s \in Session : /\ \E a \in Address : t.byAddr[a] = s
                                 /\ (all \/ t.session[s].age > AddrTimeout(t.session[s]))}
           v == StopEach(t, S)
           T == {s \in Session : /\ \E c \in Call \cup {None} : v.byCall[c] = s
                                 /\ (all \/ v.session[s].age > SignallingTimeout(v.session[s]))}
<1>1. u = StopEach(v, T)
  BY DEF Swept
<1>2. S \subseteq Session /\ \A s \in S : Leads(t, s)
  BY DEF Leads
<1>3. T \subseteq Session /\ \A s \in T : Leads(v, s)
  BY DEF Leads
<1> HIDE DEF S, T
<1>4. Keeps(t, v)
  BY <1>2, StopKeeps
<1>5. Sound(conf, v)
  BY <1>4 DEF Keeps
<1> HIDE DEF v
<1>6. Keeps(v, u)
  BY <1>1, <1>3, <1>5, StopKeeps
<1> QED
  BY <1>4, <1>6, KeepsTwice, KeepsGoes

\* When time passes only the ages change.
LEMMA ElapseGoes ==
  ASSUME Sound(conf, Now), Elapse,
         NEW v, v = [Now EXCEPT !.session = [s \in Session |->
            IF session[s] = None THEN None
            ELSE [session[s] EXCEPT !.age = IF @ = MaxAge THEN @ ELSE @ + 1]]]
  PROVE  Goes(Now, v)
<1> DEFINE new == [s \in Session |->
            IF session[s] = None THEN None
            ELSE [session[s] EXCEPT !.age = IF @ = MaxAge THEN @ ELSE @ + 1]]
<1>0. Now \in State /\ Now.session = session
  BY DEF Sound, Now
<1>1. \A s \in Session : session[s] # None => SameMarks(session[s], new[s])
  <2> TAKE s \in Session
  <2> HAVE session[s] # None
  <2>1. session[s] \in SessionRecord
    BY <1>0, StateFacts
  <2>2. session[s].age \in 0 .. MaxAge
    BY <2>1 DEF SessionRecord
  <2>3. (IF session[s].age = MaxAge THEN session[s].age ELSE session[s].age + 1) \in 0 .. MaxAge
    BY <2>2, Bounds
  <2>4. new[s] = [session[s] EXCEPT !.age = IF session[s].age = MaxAge THEN session[s].age
                                            ELSE session[s].age + 1]
    OBVIOUS
  <2> QED
    BY <2>1, <2>3, <2>4, Edits
<1>2. \A s \in Session : session[s] = None => new[s] = None
  OBVIOUS
<1>3. DOMAIN new = Session /\ new = [s \in Session |-> new[s]]
  OBVIOUS
<1>4. v = [Now EXCEPT !.session = new]
  OBVIOUS
<1> HIDE DEF new
<1>5. \A s \in Session : new[s] \in SessionRecord \cup {None}
  BY <1>1, <1>2 DEF SameMarks
<1>6. new \in [Session -> SessionRecord \cup {None}]
  BY <1>3, <1>5
<1>7. /\ v \in State /\ v.session = new /\ v.byAddr = Now.byAddr /\ v.byCall = Now.byCall
      /\ v.open = Now.open
  BY <1>0, <1>4, <1>6 DEF State
<1>8. PICK t : t = Now
  OBVIOUS
<1>9. \A s \in Session : /\ v.session[s] = None <=> t.session[s] = None
                         /\ t.session[s] # None => SameMarks(t.session[s], v.session[s])
  <2>1. \A r, q : SameMarks(r, q) => q # None
    BY NoneAssumption DEF SameMarks
  <2> QED
    BY <1>0, <1>1, <1>2, <1>7, <1>8, <2>1
<1>10. /\ \A a \in Address : t.byAddr[a] \in Session \cup {None}
       /\ \A c \in Call \cup {None} : t.byCall[c] \in Session \cup {None}
       /\ t.open \subseteq Session \cup {None}
  BY <1>0, <1>8, StateFacts
<1>11. /\ v.byAddr = t.byAddr /\ v.byCall = t.byCall /\ v.open = t.open /\ Sound(conf, t)
  BY <1>7, <1>8
<1>12. \A s \in Session : t.session[s] # None =>
         /\ v.session[s].addrs = t.session[s].addrs /\ v.session[s].callId = t.session[s].callId
         /\ v.session[s].stopped = t.session[s].stopped /\ v.session[s].port = t.session[s].port
         /\ v.session[s].started = t.session[s].started
         /\ Shape(conf, s, v.session[s])
  <2> TAKE s \in Session
  <2> HAVE t.session[s] # None
  <2>1. PICK r : r = t.session[s]
    OBVIOUS
  <2>2. PICK q : q = v.session[s]
    OBVIOUS
  <2>3. SameMarks(r, q) /\ Shape(conf, s, r)
    BY <1>9, <1>11, <2>1, <2>2 DEF Sound
  <2>4. Shape(conf, s, q)
    BY <2>3 DEF SameMarks, Shape
  <2> QED
    BY <2>1, <2>2, <2>3, <2>4 DEF SameMarks
<1>a. \A a \in Address : t.byAddr[a] # None =>
         /\ t.byAddr[a] \in Session /\ t.session[t.byAddr[a]] # None
         /\ a \in t.session[t.byAddr[a]].addrs
  BY <1>10, <1>11 DEF Sound
<1>c. \A c \in Call \cup {None} : t.byCall[c] # None =>
         /\ t.byCall[c] \in Session /\ t.session[t.byCall[c]] # None
         /\ c # None \/ ~conf.lateInfo => t.session[t.byCall[c]].callId = c
  BY <1>10, <1>11 DEF Sound
<1>13. Sound(conf, v)
  <2>1. \A a \in Address : v.byAddr[a] # None =>
           v.session[v.byAddr[a]] # None /\ a \in v.session[v.byAddr[a]].addrs
    <3> TAKE a \in Address
    <3> HAVE v.byAddr[a] # None
    <3>1. v.byAddr[a] = t.byAddr[a]
      BY <1>9, <1>11
    <3>2. t.byAddr[a] \in Session /\ t.session[t.byAddr[a]] # None /\ a \in t.session[t.byAddr[a]].addrs
      BY <1>a, <3>1
    <3> QED
      BY <1>9, <1>12, <3>1, <3>2
  <2>2. \A c \in Call \cup {None} : v.byCall[c] # None =>
         /\ v.session[v.byCall[c]] # None
         /\ c # None \/ ~conf.lateInfo => v.session[v.byCall[c]].callId = c
    <3> TAKE c \in Call \cup {None}
    <3> HAVE v.byCall[c] # None
    <3>1. PICK s \in Session : s = t.byCall[c] /\ s = v.byCall[c]
      BY <1>11, <1>c
    <3>2. t.session[s] # None /\ (c # None \/ ~conf.lateInfo => t.session[s].callId = c)
      BY <1>11, <1>c, <3>1
    <3> QED
      BY <1>9, <1>12, <3>1, <3>2
  <2>3. \A s \in Session : v.session[s] # None => Shape(conf, s, v.session[s])
    BY <1>9, <1>12
  <2>4. v.byAddr[None] = None
    BY <1>11 DEF Sound
  <2> QED
    BY <1>7, <2>1, <2>2, <2>3, <2>4 DEF Sound
<1>14. (StaleIn(t) => StaleIn(v)) /\ (Tidy(t) => Tidy(v))
  <2>1. StaleIn(t) => StaleIn(v)
    <3> HAVE StaleIn(t)
    <3>1. PICK s \in Session : s = t.byCall[None] /\ t.session[s] # None /\ t.session[s].stopped
      BY <1>c DEF StaleIn
    <3>2. v.byCall[None] = s /\ v.session[s].stopped /\ s # None
      BY <1>11, <1>12, <3>1, SessionsAssumption
    <3> QED
      BY <3>2 DEF StaleIn
  <2>2. Tidy(t) => Tidy(v)
    <3> HAVE Tidy(t)
    <3>1. \A a \in Address : v.byAddr[a] # None => ~v.session[v.byAddr[a]].stopped
      <4> TAKE a \in Address
      <4> HAVE v.byAddr[a] # None
      <4>1. PICK s \in Session : s = t.byAddr[a] /\ s = v.byAddr[a] /\ t.session[s] # None
        BY <1>11, <1>a
      <4>2. ~t.session[s].stopped
        BY <1>11, <4>1 DEF Tidy
      <4> QED
        BY <1>12, <4>1, <4>2
    <3>2. \A c \in Call : v.byCall[c] # None => ~v.session[v.byCall[c]].stopped
      <4> TAKE c \in Call
      <4> HAVE v.byCall[c] # None
      <4>1. PICK s \in Session : s = t.byCall[c] /\ s = v.byCall[c] /\ t.session[s] # None
        BY <1>11, <1>c
      <4>2. ~t.session[s].stopped
        BY <1>11, <4>1 DEF Tidy
      <4> QED
        BY <1>12, <4>1, <4>2
    <3> QED
      BY <3>1, <3>2 DEF Tidy
  <2> QED
    BY <2>1, <2>2
<1>15. \A s \in Session : Live(v.session[s]) <=> Live(t.session[s])
  BY <1>9, <1>12 DEF Live
<1>16. Led(t, None) => Led(v, None)
  <2> HAVE Led(t, None)
  <2>1. \A a \in Address : v.byAddr[a] \notin {None} => CallLeads(v, v.byAddr[a])
    <3> TAKE a \in Address
    <3> HAVE v.byAddr[a] \notin {None}
    <3>1. PICK s \in Session : s = t.byAddr[a] /\ s = v.byAddr[a] /\ t.session[s] # None
      BY <1>11, <1>a
    <3>2. CallLeads(t, s)
      BY <1>11, <3>1 DEF Led
    <3>3. CallLeads(v, s)
      BY <1>11, <1>12, <3>1, <3>2 DEF CallLeads
    <3> QED
      BY <3>1, <3>3
  <2>2. \A p \in v.open \ {None} : Live(v.session[p]) /\ v.session[p].port = p
    BY <1>10, <1>11, <1>12, <1>15 DEF Led, Live
  <2>3. None \in v.open => \E s \in Session : Live(v.session[s]) /\ v.session[s].port = None
    <3> HAVE None \in v.open
    <3>1. PICK s \in Session : Live(t.session[s]) /\ t.session[s].port = None
      BY <1>11 DEF Led
    <3>2. t.session[s] # None
      BY <3>1 DEF Live
    <3> QED
      BY <1>12, <1>15, <3>1, <3>2
  <2>4. \A s \in Session : Live(v.session[s]) => Leads(v, s)
    BY <1>11, <1>15 DEF Led, Leads
  <2> QED
    BY <2>1, <2>2, <2>3, <2>4 DEF Led
<1> QED
  BY <1>8, <1>13, <1>14, <1>16 DEF Goes, Fine

\* Every handler.
LEMMA NextGoes ==
  ASSUME Sound(conf, Now), conf \in ConfigRecord, Next
  PROVE  Elapse \/ \E u : Become(u) /\ Goes(Now, u)
<1>0. /\ Now.byAddr = byAddr /\ Now.byCall = byCall /\ Now.session = session /\ Now \in State
      /\ conf.media \subseteq Address \cup {None} /\ conf.phones \subseteq Address
  BY DEF Now, Sound, ConfigRecord
<1>1. \A c \in Call \cup {None} : byCall[c] # None => byCall[c] \in Session /\ Leads(Now, byCall[c])
  BY <1>0, StateFacts DEF Leads
<1>2. \A s \in Session : Leads(Now, s) => Now.session[s] # None
  BY LedTo
<1>3. ASSUME NEW p \in Packet, ReportRtpPacket(p)
      PROVE  \E u : Become(u) /\ Goes(Now, u)
  <2>1. p \in PacketRecord
    BY DEF Packet, PacketRecord, ConfigRecord
  <2> QED
    BY <1>3, <2>1, PacketGoes
<1>4. ASSUME NEW c \in SipCall, NEW a \in conf.media, NEW sendonly \in BOOLEAN,
             NEW demand \in BOOLEAN, ReportSipInvite(c, a, sendonly, demand)
      PROVE  \E u : Become(u) /\ Goes(Now, u)
  BY <1>0, <1>4, InviteGoes
<1>5. ASSUME NEW c \in SipCall, NEW a \in conf.media,
             ReportSipSessionProgress(c, a) \/ ReportSip200Ok(c, a)
      PROVE  \E u : Become(u) /\ Goes(Now, u)
  BY <1>0, <1>1, <1>5, SetGoes DEF ReportSipSessionProgress, ReportSip200Ok, Call
<1>6. ASSUME NEW s \in Session, Leads(Now, s), Become(Stop(Now, s))
      PROVE  \E u : Become(u) /\ Goes(Now, u)
  <2>1. Keeps(Now, StopEach(Now, {s}))
    BY <1>6, StopKeeps
  <2> QED
    BY <1>6, <2>1, KeepsGoes DEF Stop
<1>7. ASSUME NEW c \in SipCall, ReportSipBye(c)
      PROVE  \E u : Become(u) /\ Goes(Now, u)
  BY <1>1, <1>6, <1>7 DEF ReportSipBye, Call
<1>8. ASSUME NEW c \in SkinnyCall, NEW e \in conf.phones, ReportSkinnyCallInfo(c, e)
      PROVE  \E u : Become(u) /\ Goes(Now, u)
  BY <1>0, <1>8, CallInfoGoes
<1>9. ASSUME NEW e \in conf.phones, NEW a \in conf.media, ReportSkinnyMedia(e, a)
      PROVE  \E u : Become(u) /\ Goes(Now, u)
  BY <1>0, <1>9, SkinnyMediaGoes
<1>10. ASSUME NEW c \in SkinnyCall, NEW e, ReportSkinnyStopMedia(c, e)
       PROVE  \E u : Become(u) /\ Goes(Now, u)
  <2>1. PICK s \in IF byCall[c] # None THEN {byCall[c]} ELSE OfPhone(e) : Become(Stop(Now, s))
    BY <1>10 DEF ReportSkinnyStopMedia
  <2>2. s \in Session /\ Leads(Now, s)
    BY <1>1, PhoneLeads DEF Call
  <2> QED
    BY <1>6, <2>1, <2>2
<1>11. ASSUME NEW c \in SkinnyCall, SoftKeyTransfer(c)
       PROVE  \E u : Become(u) /\ Goes(Now, u)
  BY <1>1, <1>6, <1>11 DEF SoftKeyTransfer, Call
<1>12. ASSUME NEW s \in Session, Leads(Now, s), NEW u, Heard(Now, u, s), Become(u)
       PROVE  \E w : Become(w) /\ Goes(Now, w)
  BY <1>12, HeardGoes
<1>13. ASSUME NEW c \in SkinnyCall, SoftKeyHold(c) \/ SoftKeyResume(c)
       PROVE  \E u : Become(u) /\ Goes(Now, u)
  <2> DEFINE s == byCall[c]
  <2>1. s \in Session /\ Leads(Now, s) /\ Now.session[s] # None
    BY <1>1, <1>2, <1>13 DEF SoftKeyHold, SoftKeyResume, Call
  <2>2. Become(GoOnHold(Now, s)) \/ Become(GoOffHold(Now, s))
    BY <1>13 DEF SoftKeyHold, SoftKeyResume
  <2> HIDE DEF s
  <2>3. Heard(Now, GoOnHold(Now, s), s) /\ Heard(Now, GoOffHold(Now, s), s)
    BY <1>0, <2>1, HoldHeard
  <2> QED
    BY <1>12, <2>1, <2>2, <2>3
<1>14. ASSUME NEW s \in Session, StartCapture(s) \/ PauseCapture(s)
       PROVE  \E u : Become(u) /\ Goes(Now, u)
  <2>1. PICK x \in BOOLEAN : Become([Now EXCEPT !.session[s].keep = x])
    BY <1>14 DEF StartCapture, PauseCapture
  <2>2. Leads(Now, s)
    BY <1>14, PhoneLeads DEF StartCapture, PauseCapture
  <2>3. Heard(Now, [Now EXCEPT !.session[s].keep = x], s)
    BY <1>0, <1>2, <2>2, EditsHeard
  <2> QED
    BY <1>12, <2>1, <2>2, <2>3
<1>15. ASSUME NEW s \in Session, StopCapture(s)
       PROVE  \E u : Become(u) /\ Goes(Now, u)
  BY <1>15, StopCaptureGoes
<1>16. ASSUME Hoover \/ StopAll
       PROVE  \E u : Become(u) /\ Goes(Now, u)
  BY <1>16, SweptGoes DEF Hoover, StopAll
<1>17. CASE \E p \in Packet : ReportRtpPacket(p)
  BY <1>3, <1>17
<1>18. CASE \E c \in conf.calls \cap SipCall :
          \/ \E a \in conf.media, sendonly, demand \in BOOLEAN :
                /\ sendonly => "hold" \in conf.inputs
                /\ demand => ~conf.lookBack
                /\ ReportSipInvite(c, a, sendonly, demand)
          \/ \E a \in conf.media : ReportSipSessionProgress(c, a) \/ ReportSip200Ok(c, a)
          \/ ReportSipBye(c)
  BY <1>4, <1>5, <1>7, <1>18
<1>19. CASE \E c \in conf.calls \cap SkinnyCall, e \in conf.phones :
          \/ ReportSkinnyCallInfo(c, e)
          \/ \E a \in conf.media : ReportSkinnyMedia(e, a)
          \/ ReportSkinnyStopMedia(c, e)
          \/ SoftKeyTransfer(c)
          \/ "hold" \in conf.inputs /\ (SoftKeyHold(c) \/ SoftKeyResume(c))
  BY <1>8, <1>9, <1>10, <1>11, <1>13, <1>19
<1>20. CASE \E s \in Session : StartCapture(s) \/ PauseCapture(s) \/ StopCapture(s)
  BY <1>14, <1>15, <1>20
<1>21. CASE Elapse \/ Hoover
  BY <1>16, <1>21
<1>22. CASE StopAll
  BY <1>16, <1>22
<1> QED
  BY <1>17, <1>18, <1>19, <1>20, <1>21, <1>22 DEF Next

-----------------------------------------------------------------------------
(* The invariant.                                                            *)

\* What Become leaves of the sessions.
Kept(u) ==
  [u EXCEPT !.session = [s \in Session |-> IF s \in Mapped(u) THEN u.session[s] ELSE None]]

LEMMA KeptKeeps ==
  ASSUME NEW u, Sound(conf, u), NEW v, v = Kept(u)
  PROVE  Keeps(u, v) /\ (StaleIn(v) => StaleIn(u))
<1> DEFINE new == [s \in Session |-> IF s \in Mapped(u) THEN u.session[s] ELSE None]
<1>0. u \in State /\ None \notin Session
  BY SessionsAssumption DEF Sound
<1>1. \A s \in Session : /\ Leads(u, s) => new[s] = u.session[s]
                         /\ ~Leads(u, s) => new[s] = None
  BY DEF Mapped, Leads
<1>2. new \in [Session -> SessionRecord \cup {None}]
  BY <1>0, StateFacts
<1>3. v = [u EXCEPT !.session = new]
  BY DEF Kept
<1> HIDE DEF new
<1>4. /\ v \in State /\ v.session = new /\ v.byAddr = u.byAddr /\ v.byCall = u.byCall
      /\ v.open = u.open
  BY <1>0, <1>2, <1>3 DEF State
<1>5. /\ \A a \in Address : u.byAddr[a] # None =>
            u.byAddr[a] \in Session /\ v.session[u.byAddr[a]] = u.session[u.byAddr[a]]
      /\ \A c \in Call \cup {None} : u.byCall[c] # None =>
            u.byCall[c] \in Session /\ v.session[u.byCall[c]] = u.session[u.byCall[c]]
  <2>1. \A s \in Session : Leads(u, s) => v.session[s] = u.session[s]
    BY <1>1, <1>4
  <2>2. /\ \A a \in Address : u.byAddr[a] # None => u.byAddr[a] \in Session
        /\ \A c \in Call \cup {None} : u.byCall[c] # None => u.byCall[c] \in Session
    BY <1>0, StateFacts
  <2> QED
    BY <2>1, <2>2 DEF Leads
<1>6. Sound(conf, v)
  <2>1. \A s \in Session : v.session[s] # None => Shape(conf, s, v.session[s])
    BY <1>1, <1>4 DEF Sound
  <2>2. \A a \in Address : v.byAddr[a] # None =>
           v.session[v.byAddr[a]] # None /\ a \in v.session[v.byAddr[a]].addrs
    BY <1>4, <1>5 DEF Sound
  <2>3. \A c \in Call \cup {None} : v.byCall[c] # None =>
         /\ v.session[v.byCall[c]] # None
         /\ c # None \/ ~conf.lateInfo => v.session[v.byCall[c]].callId = c
    <3> TAKE c \in Call \cup {None}
    <3> HAVE v.byCall[c] # None
    <3>1. v.byCall[c] = u.byCall[c] /\ v.session[u.byCall[c]] = u.session[u.byCall[c]]
      BY <1>4, <1>5
    <3>2. /\ u.session[u.byCall[c]] # None
          /\ c # None \/ ~conf.lateInfo => u.session[u.byCall[c]].callId = c
      BY <3>1 DEF Sound
    <3> QED
      BY <3>1, <3>2
  <2> QED
    BY <1>4, <2>1, <2>2, <2>3 DEF Sound
<1>7. (StaleIn(u) <=> StaleIn(v)) /\ (Tidy(u) => Tidy(v))
  <2>1. StaleIn(u) <=> StaleIn(v)
    BY <1>4, <1>5 DEF StaleIn
  <2>2. Tidy(u) => Tidy(v)
    BY <1>4, <1>5 DEF Tidy
  <2> QED
    BY <2>1, <2>2
<1>8. ASSUME Led(u, None)  PROVE Led(v, None)
  <2>1. \A s \in Session : Live(u.session[s]) => v.session[s] = u.session[s]
    BY <1>1, <1>4, <1>8 DEF Led
  <2>2. \A s \in Session : Live(v.session[s]) => v.session[s] = u.session[s] /\ Leads(u, s)
    BY <1>1, <1>4 DEF Live
  <2>3. \A a \in Address : v.byAddr[a] \notin {None} => CallLeads(v, v.byAddr[a])
    BY <1>4, <1>5, <1>8 DEF Led, CallLeads
  <2>4. \A p \in v.open \ {None} : Live(v.session[p]) /\ v.session[p].port = p
    <3> TAKE p \in v.open \ {None}
    <3>1. p \in Session /\ Live(u.session[p]) /\ u.session[p].port = p
      BY <1>0, <1>4, <1>8, StateFacts DEF Led
    <3> QED
      BY <2>1, <3>1
  <2>5. None \in v.open => \E s \in Session : Live(v.session[s]) /\ v.session[s].port = None
    <3> HAVE None \in v.open
    <3>1. PICK s \in Session : Live(u.session[s]) /\ u.session[s].port = None
      BY <1>4, <1>8 DEF Led
    <3> QED
      BY <2>1, <3>1
  <2>6. \A s \in Session : Live(v.session[s]) => Leads(v, s)
    BY <1>4, <2>2 DEF Leads
  <2> QED
    BY <2>3, <2>4, <2>5, <2>6 DEF Led
<1> QED
  BY <1>6, <1>7, <1>8 DEF Keeps

\* What is left when a handler returns.
LEMMA NextKeeps ==
  ASSUME Sound(conf, Now), conf \in ConfigRecord, Next
  PROVE  \E v : Now' = v /\ conf' = conf /\ Goes(Now, v)
<1>1. CASE Elapse
  <2>1. PICK v : v = [Now EXCEPT !.session = [s \in Session |->
          IF session[s] = None THEN None
          ELSE [session[s] EXCEPT !.age = IF @ = MaxAge THEN @ ELSE @ + 1]]]
    OBVIOUS
  <2>2. Goes(Now, v)
    BY <1>1, <2>1, ElapseGoes
  <2>3. Now' = v /\ conf' = conf
    BY <1>1, <2>1 DEF Now, Elapse
  <2> QED
    BY <2>2, <2>3
<1>2. CASE \E u : Become(u) /\ Goes(Now, u)
  <2>1. PICK u : Become(u) /\ Goes(Now, u)
    BY <1>2
  <2>2. PICK v : v = Kept(u)
    OBVIOUS
  <2>3. Keeps(u, v) /\ Sound(conf, u)
    BY <2>1, <2>2, KeptKeeps DEF Goes
  <2>4. Goes(Now, v)
    BY <2>1, <2>3, KeepsGoes, GoesTwice
  <2>5. Now' = v /\ conf' = conf
    BY <2>1, <2>2, <2>3 DEF Become, Kept, Now, Sound, State
  <2> QED
    BY <2>4, <2>5
<1> QED
  BY <1>1, <1>2, NextGoes

\* The inductive invariant: the maps are sound in every configuration; in one whose broken
\* streams leave the addresses alone what they lead to goes on, unless the empty call id is
\* stale; and when call ids never come late every recording that goes on is led to.
SessionsInv ==
  /\ conf \in Configs
  /\ Sound(conf, Now)
  /\ Unbroken(conf) /\ ~StaleIn(Now) => Tidy(Now)
  /\ Unbroken(conf) /\ ~conf.lateInfo /\ ~StaleIn(Now) => Led(Now, None)

LEMMA SessionsInit == Init => SessionsInv
<1> SUFFICES ASSUME Init  PROVE SessionsInv
  OBVIOUS
<1>1. /\ Now.session = session /\ Now.byAddr = byAddr /\ Now.byCall = byCall
      /\ Now.open = {} /\ Now.misheard = {}
  BY DEF Now, Init
<1>2. Now \in State
  BY DEF Now, State, Init
<1>3. /\ \A s \in Session : Now.session[s] = None
      /\ \A a \in Address \cup {None} : Now.byAddr[a] = None
      /\ \A c \in Call \cup {None} : Now.byCall[c] = None
  BY <1>1 DEF Init
<1>4. Sound(conf, Now)
  BY <1>2, <1>3 DEF Sound
<1>5. Tidy(Now)
  BY <1>3 DEF Tidy
<1>6. Led(Now, None)
  BY <1>1, <1>3 DEF Led, Live
<1> QED
  BY <1>4, <1>5, <1>6 DEF SessionsInv, Init

LEMMA SessionsStep == SessionsInv /\ [Next]_vars => SessionsInv'
<1> SUFFICES ASSUME SessionsInv, [Next]_vars  PROVE SessionsInv'
  OBVIOUS
<1>0. conf \in ConfigRecord /\ Sound(conf, Now) /\ (Fine(Now) <=> Unbroken(conf) /\ ~StaleIn(Now))
  BY SessionsAssumption DEF SessionsInv, Fine
<1>1. ASSUME NEW v, Goes(Now, v), Now' = v, conf' = conf
      PROVE  SessionsInv'
  <2>1. /\ Sound(conf, v) /\ (StaleIn(Now) => StaleIn(v))
        /\ Fine(Now) /\ ~StaleIn(v) => Tidy(v)
        /\ ~conf.lateInfo /\ Fine(Now) /\ Led(Now, None) /\ ~StaleIn(v) => Led(v, None)
    BY <1>1 DEF Goes
  <2>2. Unbroken(conf) /\ ~StaleIn(v) => Fine(Now)
    BY <1>0, <2>1
  <2>3. Fine(Now) /\ ~conf.lateInfo => Led(Now, None)
    BY <1>0 DEF SessionsInv
  <2>4. conf' \in Configs /\ Sound(conf', Now')
    BY <1>1, <2>1 DEF SessionsInv
  <2>5. Unbroken(conf') /\ ~StaleIn(Now') => Tidy(Now')
    BY <1>1, <2>1, <2>2
  <2>6. Unbroken(conf') /\ ~conf'.lateInfo /\ ~StaleIn(Now') => Led(Now', None)
    BY <1>1, <2>1, <2>2, <2>3
  <2> QED
    BY <2>4, <2>5, <2>6 DEF SessionsInv
<1>2. CASE Next
  BY <1>0, <1>1, <1>2, NextKeeps
<1>3. CASE UNCHANGED vars
  <2>1. PICK v : v = Now
    OBVIOUS
  <2>2. Goes(Now, v)
    BY <1>0, <2>1 DEF Goes, Fine
  <2>3. Now' = v /\ conf' = conf
    BY <1>3, <2>1 DEF vars, Now
  <2> QED
    BY <1>1, <2>2, <2>3
<1> QED
  BY <1>2, <1>3

LEMMA SessionsAlways == Spec => []SessionsInv
<1> QED
  BY SessionsInit, SessionsStep, PTL DEF Spec

-----------------------------------------------------------------------------
(* Theorems.                                                                 *)

LEMMA NowIs ==
  /\ Now.session = session /\ Now.byAddr = byAddr /\ Now.byCall = byCall
  /\ Now.open = open /\ Now.misheard = misheard
  /\ Stale <=> StaleIn(Now)
BY DEF Now, Stale, StaleIn

\* The variables keep their types whatever the configurations of the plugin are
\* (VoIpSession.cpp): the maps hold tracking ids, the sessions counters in their range.
THEOREM TypeCorrect == Spec => []TypeOK
<1>1. SessionsInv => TypeOK
  <2> HAVE SessionsInv
  <2>1. Now \in State /\ byAddr[None] = None
    BY NowIs DEF SessionsInv, Sound
  <2> QED
    BY <2>1, NowIs, StateFacts DEF TypeOK
<1> QED
  BY <1>1, SessionsAlways, PTL

\* The two maps agree with the sessions after every handler, unless a stream with broken
\* timestamps breaks a session up in the middle of a packet that then gives it a second
\* address (SetMediaAddress, Stop, ReportRtpPacket).
THEOREM MapsAlwaysAgree == Spec => [](Unbroken(conf) => MapsAgree)
<1>1. SessionsInv => (Unbroken(conf) => MapsAgree)
  <2> HAVE SessionsInv
  <2> HAVE Unbroken(conf)
  <2> SUFFICES ASSUME ~Stale
               PROVE  /\ \A a \in Address : byAddr[a] # None =>
                            /\ session[byAddr[a]] # None
                            /\ a \in session[byAddr[a]].addrs /\ ~session[byAddr[a]].stopped
                      /\ \A c \in Call : byCall[c] # None =>
                            /\ session[byCall[c]] # None
                            /\ session[byCall[c]].callId = c /\ ~session[byCall[c]].stopped
    BY DEF MapsAgree
  <2>1. Sound(conf, Now) /\ Tidy(Now)
    BY NowIs DEF SessionsInv
  <2>2. \A c \in Call : c # None
    BY SessionsAssumption DEF Call
  <2>3. \A a \in Address : byAddr[a] # None =>
           /\ session[byAddr[a]] # None
           /\ a \in session[byAddr[a]].addrs /\ ~session[byAddr[a]].stopped
    BY <2>1, NowIs DEF Sound, Tidy
  <2>4. \A c \in Call : byCall[c] # None =>
           /\ session[byCall[c]] # None
           /\ session[byCall[c]].callId = c /\ ~session[byCall[c]].stopped
    BY <2>1, <2>2, NowIs DEF Sound, Tidy
  <2> QED
    BY <2>3, <2>4
<1> QED
  BY <1>1, SessionsAlways, PTL

\* A started recording is never forgotten: while its port is open some map leads to the
\* session that will stop it, whatever addresses are taken over, sessions merged and calls
\* stopped, where call ids come with their sessions (SetMediaAddress, Stop, StopCapture).
THEOREM RecordingsAttended == Spec => [](Unbroken(conf) /\ ~conf.lateInfo => Attended)
<1>1. SessionsInv => (Unbroken(conf) /\ ~conf.lateInfo => Attended)
  <2> HAVE SessionsInv
  <2> HAVE Unbroken(conf) /\ ~conf.lateInfo
  <2> SUFFICES ASSUME ~Stale
               PROVE  /\ \A p \in open \ {None} :
                            session[p] # None /\ session[p].started /\ ~session[p].stopped
                      /\ None \in open =>
                            \E s \in Session : /\ session[s] # None /\ session[s].port = None
                                               /\ session[s].started /\ ~session[s].stopped
    BY DEF Attended
  <2>1. Led(Now, None)
    BY NowIs DEF SessionsInv
  <2> QED
    BY <2>1, NowIs DEF Led, Live
<1> QED
  BY <1>1, SessionsAlways, PTL

\* What a sweep of every session stops.
LEMMA SweepStops ==
  ASSUME NEW t, Sound(conf, t), ~conf.lateInfo, Led(t, None), NEW u, u = Swept(t, TRUE)
  PROVE  u.open = {}
<1> DEFINE S == {s \in Session : /\ \E a \in Address : t.byAddr[a] = s
                                 /\ (TRUE \/ t.session[s].age > AddrTimeout(t.session[s]))}
           v == StopEach(t, S)
           T == {s \in Session : /\ \E c \in Call \cup {None} : v.byCall[c] = s
                                 /\ (TRUE \/ v.session[s].age > SignallingTimeout(v.session[s]))}
<1>1. u = StopEach(v, T)
  BY DEF Swept
<1>2. S \subseteq Session /\ \A s \in Session : s \in S <=> \E a \in Address : t.byAddr[a] = s
  OBVIOUS
<1>3. T \subseteq Session /\ \A s \in Session : s \in T <=> \E c \in Call \cup {None} : v.byCall[c] = s
  OBVIOUS
<1> HIDE DEF S, T
<1>4. \A s \in S : Leads(t, s)
  BY <1>2 DEF Leads
<1>5. Keeps(t, v)
  BY <1>2, <1>4, StopKeeps
<1>6. Ended(t, S, v)
  BY <1>2, <1>4, LedTo, StopEachIs DEF Sound
<1> HIDE DEF v
<1>7. Sound(conf, v)
  BY <1>5 DEF Keeps
<1>8. \A s \in T : Leads(v, s)
  BY <1>3 DEF Leads
<1>9. Led(v, None)
  <2>1. \A s \in S : t.session[s] # None /\ CallLeads(t, s)
    BY <1>2, <1>4, LedTo
  <2>2. \A s \in S : t.session[s].callId # None => t.byCall[t.session[s].callId] \in {s, None}
    BY <2>1 DEF CallLeads
  <2> QED
    BY <1>2, <2>1, <2>2, StopLed DEF v
<1>10. Ended(v, T, u)
  <2>1. \A s \in T : v.session[s] # None
    BY <1>3, <1>7, <1>8, LedTo
  <2>2. v \in State
    BY <1>7 DEF Sound
  <2> QED
    BY <1>1, <1>3, <2>1, <2>2, StopEachIs
<1>11. \A a \in Address : v.byAddr[a] = None
  <2>1. \A s \in S : t.session[s] # None
    BY <1>2, <1>4, LedTo
  <2>2. /\ \A a \in Address : v.byAddr[a] \notin S
        /\ \A a \in Address : t.byAddr[a] \notin S => v.byAddr[a] = t.byAddr[a]
    BY <1>2, <2>1, StopSound DEF v
  <2>3. /\ \A a \in Address : t.byAddr[a] # None => t.byAddr[a] \in S
        /\ \A a \in Address : v.byAddr[a] \in {t.byAddr[a], None}
    <3>1. \A a \in Address : t.byAddr[a] \in Session \cup {None}
      BY StateFacts DEF Sound
    <3> QED
      BY <1>2, <1>6, <3>1 DEF Ended
  <2> QED
    BY <2>2, <2>3
<1>12. \A s \in Session : Live(v.session[s]) => s \in T
  <2> TAKE s \in Session
  <2> HAVE Live(v.session[s])
  <2>1. Leads(v, s) /\ s # None
    BY <1>9, SessionsAssumption DEF Led
  <2> QED
    BY <1>3, <1>11, <2>1 DEF Leads
<1>13. u.open = v.open \ {v.session[s].port : s \in {w \in T : Live(v.session[w])}}
  BY <1>10 DEF Ended
<1>14. ASSUME NEW p \in u.open  PROVE FALSE
  <2>1. p \in v.open /\ \A s \in T : Live(v.session[s]) => v.session[s].port # p
    BY <1>13, <1>14
  <2>2. v.open \subseteq Session \cup {None}
    BY <1>7, StateFacts DEF Sound
  <2>3. CASE p = None
    <3>1. PICK s \in Session : Live(v.session[s]) /\ v.session[s].port = None
      BY <1>9, <2>1, <2>3 DEF Led
    <3> QED
      BY <1>12, <2>1, <2>3, <3>1
  <2>4. CASE p # None
    <3>1. p \in Session /\ Live(v.session[p]) /\ v.session[p].port = p
      BY <1>9, <2>1, <2>2, <2>4 DEF Led
    <3> QED
      BY <1>12, <2>1, <3>1
  <2> QED
    BY <2>3, <2>4
<1> QED
  BY <1>14

\* At the end of a replay every recording gets its stop: the two passes of Hoover over the
\* maps, all being overdue, leave no port open (StopAll).
THEOREM ReplayEndsAll == Spec => [](Unbroken(conf) /\ ~conf.lateInfo => StopAllStops)
<1>1. SessionsInv => (Unbroken(conf) /\ ~conf.lateInfo => StopAllStops)
  <2> HAVE SessionsInv
  <2> HAVE Unbroken(conf) /\ ~conf.lateInfo
  <2> SUFFICES ASSUME ~Stale  PROVE Swept(Now, TRUE).open = {}
    BY DEF StopAllStops
  <2>1. Sound(conf, Now) /\ Led(Now, None)
    BY NowIs DEF SessionsInv
  <2> QED
    BY <2>1, SweepStops
<1> QED
  BY <1>1, SessionsAlways, PTL

-----------------------------------------------------------------------------
(* What is recorded, and what the ports hear.                                *)

\* The packets after which look-back recording starts, without DiscardUnidirectionalCalls.
Threshold(proto) == IF proto = "RawRtp" THEN MinPackets ELSE 2

\* A session by itself.  With DiscardUnidirectionalCalls a recording has both sides; else
\* look-back mode records what has talked, and what it records has talked; without
\* look-back what is recorded was started early.
Right(r) ==
  /\ conf.discard /\ r.started => r.s1 # None /\ r.s2 # None
  /\ MinPackets >= 2 /\ conf.lookBack /\ ~conf.discard /\ r.rtp >= Threshold(r.proto) => r.started
  /\ StartsOnce /\ conf.lookBack /\ ~conf.discard /\ r.started => r.rtp >= Threshold(r.proto)
  /\ StartsOnce /\ ~conf.lookBack /\ ~conf.discard => r.proto # "RawRtp" /\ (r.started => r.early)
AllRight(t) == \A s \in Session : t.session[s] # None => Right(t.session[s])

\* Nothing was told out of turn; a session's own port is open while it is recorded.
InTurn(t) ==
  /\ t.misheard \subseteq {None}
  /\ \A s \in Session : t.session[s] # None =>
        (s \in t.open <=> Live(t.session[s]) /\ t.session[s].port = s)

\* A step of a handler that keeps both.
Tells(t, u) ==
  /\ AllRight(t) => AllRight(u)
  /\ StartsOnce /\ AllRight(t) /\ InTurn(t) => InTurn(u)

\* A step that neither starts nor stops a recording, nor counts a packet.
Quiet(t, u) ==
  /\ u.open = t.open /\ u.misheard = t.misheard
  /\ \A s \in Session : u.session[s] # None =>
        t.session[s] # None /\ SameTalk(t.session[s], u.session[s])

LEMMA TellsTwice ==
  ASSUME NEW t, NEW u, NEW v, Tells(t, u), Tells(u, v)
  PROVE  Tells(t, v)
BY DEF Tells

LEMMA QuietTells ==
  ASSUME NEW t \in State, NEW u \in State, Quiet(t, u)
  PROVE  Tells(t, u)
<1>1. ASSUME NEW s \in Session, u.session[s] # None, Right(t.session[s])
      PROVE  Right(u.session[s])
  <2>1. t.session[s] \in SessionRecord /\ SameTalk(t.session[s], u.session[s])
    BY <1>1, StateFacts DEF Quiet
  <2> QED
    BY <1>1, <2>1, Bounds DEF Right, SameTalk, StartsOnce, Threshold, SessionRecord
<1>2. AllRight(t) => AllRight(u)
  BY <1>1 DEF AllRight, Quiet
<1>3. InTurn(t) => InTurn(u)
  BY DEF InTurn, Quiet, SameTalk, Live
<1> QED
  BY <1>2, <1>3 DEF Tells

\* A session that has not said anything yet.
Fresh(r) ==
  /\ r \in SessionRecord /\ r.rtp = 0 /\ ~r.started /\ ~r.stopped
  /\ StartsOnce /\ ~conf.lookBack /\ ~conf.discard => r.proto # "RawRtp"

LEMMA PutTells ==
  ASSUME NEW t \in State, NEW i \in Session, i \notin t.open, NEW r, Fresh(r),
         NEW u, u = Put(t, i, r)
  PROVE  Tells(t, u)
<1>1. /\ u \in State /\ u.session[i] = r
      /\ \A x \in Session \ {i} : u.session[x] = t.session[x]
      /\ u.open = t.open /\ u.misheard = t.misheard
  BY PutIs DEF Fresh
<1>2. Right(r)
  BY Bounds, SessionsAssumption DEF Right, Fresh, Threshold
<1>3. AllRight(t) => AllRight(u)
  BY <1>1, <1>2 DEF AllRight
<1>4. InTurn(t) => InTurn(u)
  BY <1>1 DEF InTurn, Fresh, Live
<1> QED
  BY <1>3, <1>4 DEF Tells

\* StopEach tells every port it closes once, but for the port without name.
LEMMA StopTells ==
  ASSUME NEW k, NEW t, Sound(k, t), NEW S, S \subseteq Session, \A s \in S : t.session[s] # None,
         NEW u, u = StopEach(t, S)
  PROVE  Tells(t, u) /\ u.open \subseteq t.open
<1>0. t \in State /\ Ended(t, S, u)
  BY StopEachIs DEF Sound
<1> DEFINE live == {s \in S : t.session[s].started /\ ~t.session[s].stopped}
           ports == {t.session[s].port : s \in live}
           again == {t.session[s].port : s \in
                    {x \in live : \E v \in live \ {x} : t.session[v].port = t.session[x].port}}
<1>1. u.open = t.open \ ports /\ u.misheard = t.misheard \cup again \cup (ports \ t.open)
  BY DEF StopEach
<1>2. \A s \in Session : u.session[s] = IF s \in S
         THEN [t.session[s] EXCEPT !.stopped = @ \/ s \in live, !.addrs = {}] ELSE t.session[s]
  BY DEF StopEach
<1>3. \A s \in Session : t.session[s] # None => t.session[s] \in SessionRecord /\ t.session[s].port \in {None, s}
  BY <1>0, StateFacts DEF Sound, Shape
<1> HIDE DEF live, ports, again
<1>4. ASSUME NEW s \in Session, u.session[s] # None
      PROVE  /\ t.session[s] # None
             /\ u.session[s].rtp = t.session[s].rtp /\ u.session[s].started = t.session[s].started
             /\ u.session[s].early = t.session[s].early /\ u.session[s].proto = t.session[s].proto
             /\ u.session[s].s1 = t.session[s].s1 /\ u.session[s].s2 = t.session[s].s2
             /\ u.session[s].port = t.session[s].port
             /\ u.session[s].stopped <=> (t.session[s].stopped \/ s \in live)
  <2>1. t.session[s] \in SessionRecord
    BY <1>2, <1>3, <1>4
  <2> QED
    BY <1>2, <1>4, <2>1 DEF SessionRecord, live
<1>5. AllRight(t) => AllRight(u)
  BY <1>4 DEF AllRight, Right
<1>6. ASSUME InTurn(t)  PROVE InTurn(u)
  <2>1. again \subseteq {None} /\ ports \ t.open \subseteq {None}
    BY <1>3, <1>6 DEF again, ports, live, InTurn, Live
  <2>2. \A s \in Session : s \in ports <=> s \in live /\ t.session[s].port = s
    BY <1>3, SessionsAssumption DEF ports, live
  <2>3. \A s \in Session : u.session[s] # None =>
          (s \in u.open <=> Live(u.session[s]) /\ u.session[s].port = s)
    <3> TAKE s \in Session
    <3> HAVE u.session[s] # None
    <3>1. s \in t.open <=> Live(t.session[s]) /\ t.session[s].port = s
      BY <1>4, <1>6 DEF InTurn
    <3> QED
      BY <1>1, <1>4, <2>2, <3>1 DEF Live, live
  <2> QED
    BY <1>1, <1>6, <2>1, <2>3 DEF InTurn
<1> QED
  BY <1>1, <1>5, <1>6 DEF Tells

LEMMA PutQuiet ==
  ASSUME NEW t \in State, NEW s \in Session, t.session[s] # None,
         NEW q \in SessionRecord, SameTalk(t.session[s], q)
  PROVE  Quiet(t, Put(t, s, q)) /\ Tells(t, Put(t, s, q))
<1>1. /\ Put(t, s, q) \in State /\ Put(t, s, q).session[s] = q
      /\ \A x \in Session \ {s} : Put(t, s, q).session[x] = t.session[x]
      /\ Put(t, s, q).open = t.open /\ Put(t, s, q).misheard = t.misheard
  BY PutIs
<1>2. Quiet(t, Put(t, s, q))
  BY <1>1 DEF Quiet, SameTalk
<1> QED
  BY <1>1, <1>2, QuietTells

\* Fields that neither.
LEMMA QuietEdits ==
  ASSUME NEW t \in State, NEW s \in Session, t.session[s] # None
  PROVE  /\ \A x \in BOOLEAN : Tells(t, [t EXCEPT !.session[s].keep = x])
         /\ \A x \in BOOLEAN : Tells(t, [t EXCEPT !.session[s].waitS2 = x])
         /\ \A x \in BOOLEAN : Tells(t, [t EXCEPT !.session[s].hold = x])
         /\ \A x \in BOOLEAN : Tells(t, [t EXCEPT !.session[s].last = x])
         /\ Tells(t, GoOffHold(t, s))
         /\ \A n \in 0 .. MaxCount : Tells(t, [t EXCEPT !.session[s].age = 0, !.session[s].ignored = n])
         /\ \A c \in Call : Tells(t, [t EXCEPT !.session[s].callId = c])
         /\ ~conf.multi => Tells(t, [t EXCEPT !.session[s].proto = "RawRtp"])
<1> DEFINE r == t.session[s]
<1>0. r \in SessionRecord /\ 0 \in 0 .. MaxAge
  BY StateFacts, Bounds
<1>1. /\ \A x : [t EXCEPT !.session[s].keep = x] = Put(t, s, [r EXCEPT !.keep = x])
      /\ \A x : [t EXCEPT !.session[s].waitS2 = x] = Put(t, s, [r EXCEPT !.waitS2 = x])
      /\ \A x : [t EXCEPT !.session[s].hold = x] = Put(t, s, [r EXCEPT !.hold = x])
      /\ \A x : [t EXCEPT !.session[s].last = x] = Put(t, s, [r EXCEPT !.last = x])
  BY DEF Put
<1>2. /\ GoOffHold(t, s) = Put(t, s, [r EXCEPT !.hold = FALSE, !.age = 0])
      /\ \A n : [t EXCEPT !.session[s].age = 0, !.session[s].ignored = n] =
                Put(t, s, [r EXCEPT !.age = 0, !.ignored = n])
      /\ \A c : [t EXCEPT !.session[s].callId = c] = Put(t, s, [r EXCEPT !.callId = c])
      /\ [t EXCEPT !.session[s].proto = "RawRtp"] = Put(t, s, [r EXCEPT !.proto = "RawRtp"])
  BY DEF GoOffHold, Put
<1> HIDE DEF r
<1>3. \A q \in SessionRecord : SameTalk(r, q) => Tells(t, Put(t, s, q))
  BY PutQuiet DEF r
<1>8. LET q == [r EXCEPT !.hold = FALSE, !.age = 0] IN q \in SessionRecord /\ SameTalk(r, q)
  <2> DEFINE p == [r EXCEPT !.hold = FALSE]
             q == [r EXCEPT !.hold = FALSE, !.age = 0]
  <2>1. p \in SessionRecord /\ SameTalk(r, p)
    BY <1>0, ZenonT(40) DEF SessionRecord, SameTalk
  <2>2. q = [p EXCEPT !.age = 0]
    OBVIOUS
  <2> HIDE DEF p, q
  <2>3. q \in SessionRecord /\ SameTalk(p, q)
    BY <1>0, <2>1, <2>2 DEF SessionRecord, SameTalk
  <2>4. q \in SessionRecord /\ SameTalk(r, q)
    BY <2>1, <2>3 DEF SameTalk
  <2> QED
    BY <2>4 DEF q
<1>11. LET q == [r EXCEPT !.proto = "RawRtp"]
       IN  q \in SessionRecord /\ (~conf.multi => SameTalk(r, q))
  BY <1>0 DEF SessionRecord, SameTalk
<1>12. \A x \in BOOLEAN : Tells(t, [t EXCEPT !.session[s].keep = x])
  <2> TAKE x \in BOOLEAN
  <2>1. [r EXCEPT !.keep = x] \in SessionRecord
    BY <1>0 DEF SessionRecord
  <2>2. SameTalk(r, [r EXCEPT !.keep = x])
    BY <1>0 DEF SessionRecord, SameTalk
  <2>3. [t EXCEPT !.session[s].keep = x] = Put(t, s, [r EXCEPT !.keep = x])
    BY <1>1, Zenon
  <2> QED
    BY <1>3, <2>1, <2>2, <2>3, Zenon
<1>13. \A x \in BOOLEAN : Tells(t, [t EXCEPT !.session[s].waitS2 = x])
  <2> TAKE x \in BOOLEAN
  <2>1. [r EXCEPT !.waitS2 = x] \in SessionRecord
    BY <1>0 DEF SessionRecord
  <2>2. SameTalk(r, [r EXCEPT !.waitS2 = x])
    BY <1>0 DEF SessionRecord, SameTalk
  <2>3. [t EXCEPT !.session[s].waitS2 = x] = Put(t, s, [r EXCEPT !.waitS2 = x])
    BY <1>1, Zenon
  <2> QED
    BY <1>3, <2>1, <2>2, <2>3, Zenon
<1>14. \A x \in BOOLEAN : Tells(t, [t EXCEPT !.session[s].hold = x])
  <2> TAKE x \in BOOLEAN
  <2>1. [r EXCEPT !.hold = x] \in SessionRecord
    BY <1>0 DEF SessionRecord
  <2>2. SameTalk(r, [r EXCEPT !.hold = x])
    BY <1>0 DEF SessionRecord, SameTalk
  <2>3. [t EXCEPT !.session[s].hold = x] = Put(t, s, [r EXCEPT !.hold = x])
    BY <1>1, Zenon
  <2> QED
    BY <1>3, <2>1, <2>2, <2>3, Zenon
<1>15. \A x \in BOOLEAN : Tells(t, [t EXCEPT !.session[s].last = x])
  <2> TAKE x \in BOOLEAN
  <2>1. [r EXCEPT !.last = x] \in SessionRecord
    BY <1>0 DEF SessionRecord
  <2>2. SameTalk(r, [r EXCEPT !.last = x])
    BY <1>0 DEF SessionRecord, SameTalk
  <2>3. [t EXCEPT !.session[s].last = x] = Put(t, s, [r EXCEPT !.last = x])
    BY <1>1, Zenon
  <2> QED
    BY <1>3, <2>1, <2>2, <2>3, Zenon
<1>16. Tells(t, GoOffHold(t, s))
  BY <1>2, <1>3, <1>8, Zenon
<1>17. \A n \in 0 .. MaxCount : Tells(t, [t EXCEPT !.session[s].age = 0, !.session[s].ignored = n])
  <2> TAKE n \in 0 .. MaxCount
  <2>1. [r EXCEPT !.age = 0, !.ignored = n] \in SessionRecord
    BY <1>0 DEF SessionRecord
  <2>2. SameTalk(r, [r EXCEPT !.age = 0, !.ignored = n])
    BY <1>0 DEF SessionRecord, SameTalk
  <2>3. [t EXCEPT !.session[s].age = 0, !.session[s].ignored = n] = Put(t, s, [r EXCEPT !.age = 0, !.ignored = n])
    BY <1>2, Zenon
  <2> QED
    BY <1>3, <2>1, <2>2, <2>3, Zenon
<1>18. \A c \in Call : Tells(t, [t EXCEPT !.session[s].callId = c])
  <2> TAKE c \in Call
  <2>1. [r EXCEPT !.callId = c] \in SessionRecord
    BY <1>0 DEF SessionRecord
  <2>2. SameTalk(r, [r EXCEPT !.callId = c])
    BY <1>0 DEF SessionRecord, SameTalk
  <2>3. [t EXCEPT !.session[s].callId = c] = Put(t, s, [r EXCEPT !.callId = c])
    BY <1>2, Zenon
  <2> QED
    BY <1>3, <2>1, <2>2, <2>3, Zenon
<1>19. ~conf.multi => Tells(t, [t EXCEPT !.session[s].proto = "RawRtp"])
  BY <1>2, <1>3, <1>11, Zenon
<1> QED
  BY <1>12, <1>13, <1>14, <1>15, <1>16, <1>17, <1>18, <1>19, Zenon

LEMMA HoldTells ==
  ASSUME NEW t \in State, NEW s \in Session, t.session[s] # None
  PROVE  /\ Tells(t, GoOnHold(t, s))
         /\ \A x \in BOOLEAN : Tells(t, [t EXCEPT !.session[s].keep = @ \/ x])
<1>0. t.session[s].hold \in BOOLEAN /\ t.session[s].started \in BOOLEAN /\ t.session[s].keep \in BOOLEAN
  BY StateFacts DEF SessionRecord
<1>1. Tells(t, GoOnHold(t, s))
  <2>1. PICK x : x = (t.session[s].hold \/ t.session[s].started)
    OBVIOUS
  <2>2. x \in BOOLEAN
    BY <1>0, <2>1
  <2>3. GoOnHold(t, s) = [t EXCEPT !.session[s].hold = x]
    BY <2>1 DEF GoOnHold
  <2>4. Tells(t, [t EXCEPT !.session[s].hold = x])
    BY <2>2, QuietEdits
  <2> QED
    BY <2>3, <2>4
<1>2. \A x \in BOOLEAN : Tells(t, [t EXCEPT !.session[s].keep = @ \/ x])
  <2> TAKE x \in BOOLEAN
  <2>1. (t.session[s].keep \/ x) \in BOOLEAN
    BY <1>0
  <2> QED
    BY <2>1, QuietEdits
<1> QED
  BY <1>1, <1>2

\* The maps alone.
LEMMA MapsTell ==
  ASSUME NEW t \in State, NEW u \in State,
         u.session = t.session, u.open = t.open, u.misheard = t.misheard
  PROVE  Tells(t, u)
<1>1. Quiet(t, u)
  BY DEF Quiet, SameTalk
<1> QED
  BY <1>1, QuietTells

LEMMA MappedTells ==
  ASSUME NEW t \in State, NEW s \in Session
  PROVE  /\ \A a \in Address : Tells(t, MapAddr(t, a, s))
         /\ \A c \in Call \cup {None} : Tells(t, MapCall(t, c, s))
         /\ \A A : Tells(t, Unmap(t, s, A))
<1>1. \A a \in Address : Tells(t, MapAddr(t, a, s))
  BY MapAddrIs, MapsTell
<1>2. \A c \in Call \cup {None} : Tells(t, MapCall(t, c, s))
  BY MapCallIs, MapsTell
<1>3. ASSUME NEW A  PROVE Tells(t, Unmap(t, s, A))
  BY UnmapIs, MapsTell
<1> QED
  BY <1>1, <1>2, <1>3

LEMMA SetTells ==
  ASSUME NEW t, Sound(conf, t), NEW s \in Session, t.session[s] # None,
         NEW a \in Address \cup {None}, NEW u, u = SetMediaAddress(t, s, a)
  PROVE  Tells(t, u) /\ u.open \subseteq t.open
<1>1. CASE u = t
  BY <1>1 DEF Tells
<1>2. CASE /\ a \in Address /\ t.byAddr[a] # s
           /\ \E f : Freed(t, a, f) /\ Moved(f, s, a, u)
  <2>1. PICK f : Freed(t, a, f) /\ Moved(f, s, a, u)
    BY <1>2
  <2>0. t \in State /\ t.byAddr[a] \in Session \cup {None}
        /\ (t.byAddr[a] # None => t.session[t.byAddr[a]] # None)
    BY <1>2, StateFacts DEF Sound
  <2>2. Sound(conf, f) /\ f.session[s] = t.session[s]
    BY <1>2, <2>1, FreedSound
  <2>3. Tells(t, f) /\ f.open \subseteq t.open
    <3>1. CASE f = t
      BY <3>1 DEF Tells
    <3>2. CASE t.byAddr[a] # None /\ f = StopEach(t, {t.byAddr[a]})
      BY <2>0, <3>2, StopTells
    <3>3. CASE t.byAddr[a] # None /\ f = Unmap(t, t.byAddr[a], {a})
      BY <2>0, <3>3, MappedTells, UnmapIs
    <3> QED
      BY <2>1, <3>1, <3>2, <3>3 DEF Freed
  <2>4. u \in State /\ f \in State /\ u.open = f.open /\ Quiet(f, u)
    <3>1. /\ u \in State /\ f \in State /\ u.open = f.open /\ u.misheard = f.misheard
          /\ \A y \in Session \ {s} : u.session[y] = f.session[y]
          /\ SameTalk(f.session[s], u.session[s])
      BY <2>1, <2>2 DEF Moved, Sound
    <3>2. \A y \in Session : SameTalk(f.session[y], u.session[y])
      BY <3>1 DEF SameTalk
    <3>3. \A y \in Session : u.session[y] # None => f.session[y] # None
      BY <2>2, <3>1
    <3> QED
      BY <3>1, <3>2, <3>3 DEF Quiet
  <2> QED
    BY <2>3, <2>4, QuietTells, TellsTwice
<1> QED
  BY <1>1, <1>2, SetMediaAddressIs

-----------------------------------------------------------------------------
(* Packets.                                                                  *)

\* A packet of session s keeps both, but tells nothing in turn of a session that is over.
Says(t, u, s) ==
  /\ AllRight(t) => AllRight(u)
  /\ StartsOnce /\ AllRight(t) /\ InTurn(t) /\ ~t.session[s].stopped => InTurn(u)

LEMMA SaysTwice ==
  ASSUME NEW t, NEW u, NEW v, NEW s, Says(t, u, s), Says(u, v, s), Heard(t, u, s)
  PROVE  Says(t, v, s)
BY DEF Says, Heard

LEMMA TellsSays ==
  ASSUME NEW t, NEW u, NEW s, Tells(t, u)
  PROVE  Says(t, u, s)
BY DEF Tells, Says

\* One session is right again, and the others are as they were.
LEMMA RightAgain ==
  ASSUME NEW t, NEW s \in Session, t.session[s] # None, NEW u,
         \A x \in Session \ {s} : u.session[x] = t.session[x],
         Right(t.session[s]) => Right(u.session[s])
  PROVE  AllRight(t) => AllRight(u)
BY DEF AllRight

\* The ports hear nothing new.
LEMMA InTurnStill ==
  ASSUME NEW t, NEW s \in Session, t.session[s] # None, NEW u, u.session[s] # None,
         u.open = t.open, u.misheard = t.misheard,
         \A x \in Session \ {s} : u.session[x] = t.session[x],
         u.session[s].started = t.session[s].started, u.session[s].stopped = t.session[s].stopped,
         u.session[s].port = t.session[s].port
  PROVE  InTurn(t) => InTurn(u)
BY DEF InTurn, Live

\* Start, field by field.
Begun(t, s, u) ==
  LET r == t.session[s]
      q == u.session[s]
  IN  /\ u \in State /\ q \in SessionRecord /\ q # None /\ q.started
      /\ q.rtp = r.rtp /\ q.proto = r.proto /\ q.early = r.early /\ q.s1 = r.s1 /\ q.s2 = r.s2
      /\ q.stopped = r.stopped /\ q.port = r.port
      /\ \A x \in Session \ {s} : u.session[x] = t.session[x]
      /\ u.open = t.open \cup {r.port}
      /\ u.misheard = IF r.port \in t.open THEN t.misheard \cup {r.port} ELSE t.misheard

LEMMA StartIs ==
  ASSUME NEW t \in State, NEW s \in Session, t.session[s] # None, NEW u, u = Start(t, s)
  PROVE  Begun(t, s, u)
<1> DEFINE r == t.session[s]
           q == [r EXCEPT !.started = TRUE]
           v == Put(t, s, q)
<1>0. r \in SessionRecord
  BY StateFacts
<1>1. /\ q \in SessionRecord /\ q.started
      /\ q.rtp = r.rtp /\ q.proto = r.proto /\ q.early = r.early /\ q.s1 = r.s1 /\ q.s2 = r.s2
      /\ q.stopped = r.stopped /\ q.port = r.port
  BY <1>0 DEF SessionRecord
<1>n. q # None
  BY <1>1, StateFacts
<1> HIDE DEF q
<1>2. /\ v.session[s] = q /\ v.open = t.open /\ v.misheard = t.misheard
      /\ \A x \in Session \ {s} : v.session[x] = t.session[x]
      /\ v \in State
  BY <1>1, PutIs
<1>3. u = TellStart(v, r.port)
  BY DEF Start, q
<1> HIDE DEF v
<1>4. /\ u.session = v.session /\ u.open = v.open \cup {r.port}
      /\ u.misheard = IF r.port \in v.open THEN v.misheard \cup {r.port} ELSE v.misheard
  BY <1>2, <1>3 DEF TellStart, State
<1>5. u \in State
  <2>1. r.port \in Session \cup {None}
    BY <1>0 DEF SessionRecord
  <2>2. u.misheard \subseteq Session \cup {None} /\ u.open \subseteq Session \cup {None}
    BY <1>2, <1>4, <2>1, StateFacts
  <2>3. u = [v EXCEPT !.open = u.open, !.misheard = u.misheard]
    BY <1>2, <1>3 DEF TellStart, State
  <2> QED
    BY <1>2, <2>2, <2>3 DEF State
<1> QED
  BY <1>n, <1>1, <1>2, <1>4, <1>5 DEF Begun

\* A session that is not recorded yet, nor over, opens a closed port.
LEMMA StartInTurn ==
  ASSUME NEW t \in State, NEW s \in Session, t.session[s] # None,
         ~t.session[s].started, ~t.session[s].stopped, t.session[s].port \in {None, s},
         InTurn(t)
  PROVE  InTurn(Start(t, s))
<1> DEFINE r == t.session[s]
<1>1. PICK u : u = Start(t, s)
  OBVIOUS
<1>0. r \in SessionRecord /\ s # None
  BY StateFacts, SessionsAssumption
<1>a. Begun(t, s, u)
  BY <1>1, StartIs
<1>2. u.session[s].started /\ ~u.session[s].stopped /\ u.session[s].port = r.port /\ u.session[s] # None
  BY <1>a DEF Begun
<1>3. /\ \A x \in Session \ {s} : u.session[x] = t.session[x]
      /\ u.open = t.open \cup {r.port}
      /\ u.misheard = IF r.port \in t.open THEN t.misheard \cup {r.port} ELSE t.misheard
  BY <1>a DEF Begun
<1>4. s \notin t.open
  BY DEF InTurn, Live
<1>5. u.misheard \subseteq {None}
  BY <1>3, <1>4 DEF InTurn
<1>6. \A x \in Session : u.session[x] # None =>
        (x \in u.open <=> Live(u.session[x]) /\ u.session[x].port = x)
  <2> TAKE x \in Session
  <2>0. x # None
    BY SessionsAssumption
  <2>1. CASE x = s
    BY <1>0, <1>2, <1>3, <1>4, <2>1 DEF Live
  <2>2. CASE x # s
    BY <1>3, <2>0, <2>2 DEF InTurn
  <2> QED
    BY <2>1, <2>2
<1> QED
  BY <1>1, <1>5, <1>6 DEF InTurn

\* The fields of a session that naming it leaves alone.
LEMMA NamedTells ==
  ASSUME NEW t, Sound(conf, t), NEW s \in Session, t.session[s] # None, NEW u, u = Named(t, s)
  PROVE  /\ Tells(t, u)
         /\ u.session[s].rtp = t.session[s].rtp /\ u.session[s].early = t.session[s].early
         /\ u.session[s].proto = t.session[s].proto
         /\ u.session[s].started = t.session[s].started /\ u.session[s].stopped = t.session[s].stopped
<1>1. CASE t.session[s].metadata
  BY <1>1 DEF Named, Tells
<1>2. CASE ~t.session[s].metadata
  <2> DEFINE r == t.session[s]
             q == [r EXCEPT !.metadata = TRUE, !.port = s]
  <2>0. r \in SessionRecord /\ t \in State /\ ~r.started
    BY <1>2, StateFacts DEF Sound, Shape
  <2>1. /\ q \in SessionRecord
        /\ q.proto = r.proto /\ q.rtp = r.rtp /\ q.early = r.early /\ q.s1 = r.s1 /\ q.s2 = r.s2
        /\ q.started = r.started /\ q.stopped = r.stopped
    BY <2>0 DEF SessionRecord
  <2>2. u = Put(t, s, q)
    BY <1>2 DEF Named, Put
  <2> HIDE DEF q
  <2>3. /\ u.session[s] = q /\ u.open = t.open /\ u.misheard = t.misheard
        /\ \A x \in Session \ {s} : u.session[x] = t.session[x]
    BY <2>0, <2>1, <2>2, PutIs
  <2>4. AllRight(t) => AllRight(u)
    <3>1. Right(r) => Right(q)
      BY <2>1 DEF Right
    <3> QED
      BY <2>3, <3>1, RightAgain
  <2>5. InTurn(t) => InTurn(u)
    BY <2>0, <2>1, <2>3 DEF InTurn, Live
  <2> QED
    BY <2>1, <2>3, <2>4, <2>5 DEF Tells
<1> QED
  BY <1>1, <1>2

LEMMA PreparedSays ==
  ASSUME NEW t, Sound(conf, t), NEW s \in Session, t.session[s] # None, NEW u, u = Prepared(t, s)
  PROVE  /\ Says(t, u, s)
         /\ u.session[s].rtp = t.session[s].rtp
         /\ StartsOnce /\ ~conf.lookBack /\ ~conf.discard /\ AllRight(t) => u.session[s].early
<1> DEFINE r == t.session[s]
           n == Named(t, s)
           w == Start(n, s)
           e == [w EXCEPT !.session[s].early = TRUE]
<1>0. t \in State /\ r \in SessionRecord
  BY StateFacts DEF Sound
<1>1. /\ Tells(t, n)
      /\ n.session[s].rtp = r.rtp /\ n.session[s].early = r.early
      /\ n.session[s].proto = r.proto
      /\ n.session[s].started = r.started /\ n.session[s].stopped = r.stopped
  BY NamedTells
<1>2. Heard(t, n, s) /\ n.session[s].metadata
  BY <1>0, NamedHeard
<1>3. n \in State /\ n.session[s] # None /\ Sound(conf, n)
  BY <1>2, HeardWhole
<1>4. CASE ~StartsEarly(r)
  <2>1. u = n
    BY <1>4 DEF Prepared
  <2>2. StartsOnce /\ ~conf.lookBack /\ ~conf.discard /\ AllRight(t) => r.early
    BY <1>0, <1>4 DEF StartsEarly, AllRight, Right, SessionRecord
  <2> QED
    BY <1>1, <2>1, <2>2, TellsSays
<1>5. CASE StartsEarly(r) /\ conf.discard
  <2>1. u = [n EXCEPT !.session[s].waitS2 = TRUE]
    BY <1>5 DEF Prepared, StartOrWait
  <2>2. Tells(n, [n EXCEPT !.session[s].waitS2 = TRUE])
    BY <1>3, QuietEdits
  <2>3. u.session[s].rtp = n.session[s].rtp
    BY <1>3, <2>1, StateFacts DEF SessionRecord
  <2> HIDE DEF n
  <2> QED
    BY <1>1, <1>5, <2>1, <2>2, <2>3, TellsTwice, TellsSays
<1>6. CASE StartsEarly(r) /\ ~conf.discard
  <2>1. u = e
    BY <1>6 DEF Prepared, StartOrWait
  <2>2. ~conf.lookBack /\ ~r.early
    BY <1>6 DEF StartsEarly
  <2> HIDE DEF n
  <2>3. Begun(n, s, w)
    BY <1>3, StartIs
  <2>5. /\ w \in State /\ w.session[s] # None /\ w.session[s] \in SessionRecord
        /\ \A x \in Session \ {s} : w.session[x] = n.session[x]
    BY <2>3 DEF Begun
  <2>6. w.session[s].rtp = r.rtp /\ w.session[s].proto = r.proto
    BY <1>1, <2>3 DEF Begun
  <2> HIDE DEF w
  <2> DEFINE q == [w.session[s] EXCEPT !.early = TRUE]
  <2>7. /\ q \in SessionRecord /\ q.early /\ q.rtp = r.rtp /\ q.proto = r.proto
        /\ q.started = w.session[s].started /\ q.stopped = w.session[s].stopped
        /\ q.port = w.session[s].port
    BY <2>5, <2>6 DEF SessionRecord
  <2>8. u = Put(w, s, q)
    BY <2>1 DEF Put
  <2> HIDE DEF q
  <2>9. /\ u.session[s] = q /\ u.open = w.open /\ u.misheard = w.misheard /\ q # None
        /\ \A x \in Session \ {s} : u.session[x] = w.session[x]
    BY <2>5, <2>7, <2>8, PutIs, StateFacts
  <2>10. Right(n.session[s]) => Right(q)
    BY <1>1, <1>6, <2>2, <2>7 DEF Right
  <2>11. AllRight(n) => AllRight(u)
    BY <1>3, <2>5, <2>9, <2>10, RightAgain
  <2>12. StartsOnce /\ AllRight(n) /\ InTurn(n) /\ ~n.session[s].stopped => InTurn(u)
    <3> HAVE StartsOnce /\ AllRight(n) /\ InTurn(n) /\ ~n.session[s].stopped
    <3>1. ~n.session[s].started
      BY <1>1, <1>3, <1>6, <2>2 DEF AllRight, Right
    <3>2. n.session[s].port \in {None, s}
      BY <1>3 DEF Sound, Shape
    <3>3. InTurn(w)
      BY <1>3, <3>1, <3>2, StartInTurn DEF w
    <3> QED
      BY <2>5, <2>7, <2>9, <3>3, InTurnStill
  <2>13. Says(n, u, s)
    BY <2>11, <2>12 DEF Says
  <2>14. Says(t, n, s)
    BY <1>1, TellsSays
  <2> QED
    BY <1>2, <2>7, <2>9, <2>13, <2>14, SaysTwice
<1> QED
  BY <1>4, <1>5, <1>6

\* A side of a session gets its stream.
LEMMA SideTells ==
  ASSUME NEW t \in State, NEW s \in Session, t.session[s] # None, NEW x \in Stream, NEW u,
         u \in {[t EXCEPT !.session[s].s1 = x], [t EXCEPT !.session[s].s2 = x]}
  PROVE  /\ Tells(t, u)
         /\ u.session[s].started = t.session[s].started /\ u.session[s].stopped = t.session[s].stopped
         /\ u.session[s].port = t.session[s].port
         /\ u.open = t.open /\ u.misheard = t.misheard
         /\ \A y \in Session \ {s} : u.session[y] = t.session[y]
         /\ t.session[s].s1 # None => u.session[s].s1 # None
         /\ u = [t EXCEPT !.session[s].s2 = x] => u.session[s].s2 # None
<1> DEFINE r == t.session[s]
<1>0. r \in SessionRecord /\ x # None
  BY StateFacts, NoneAssumption
<1>1. PICK q \in {[r EXCEPT !.s1 = x], [r EXCEPT !.s2 = x]} :
        /\ u = Put(t, s, q)
        /\ u = [t EXCEPT !.session[s].s2 = x] => q = [r EXCEPT !.s2 = x] \/ u = [t EXCEPT !.session[s].s1 = x]
  BY DEF Put
<1>2. /\ q \in SessionRecord
      /\ q.rtp = r.rtp /\ q.started = r.started /\ q.stopped = r.stopped /\ q.early = r.early
      /\ q.port = r.port /\ q.proto = r.proto
      /\ q.s1 \in {r.s1, x} /\ q.s2 \in {r.s2, x}
  BY <1>0 DEF SessionRecord
<1> HIDE DEF r
<1>3. /\ u.session[s] = q /\ u.open = t.open /\ u.misheard = t.misheard /\ q # None
      /\ \A y \in Session \ {s} : u.session[y] = t.session[y]
  BY <1>1, <1>2, PutIs, StateFacts
<1>4. Right(r) => Right(q)
  BY <1>0, <1>2 DEF Right
<1>5. Tells(t, u)
  <2>1. AllRight(t) => AllRight(u)
    BY <1>3, <1>4, RightAgain DEF r
  <2>2. InTurn(t) => InTurn(u)
    BY <1>2, <1>3, InTurnStill DEF r
  <2> QED
    BY <2>1, <2>2 DEF Tells
<1>6. u = [t EXCEPT !.session[s].s2 = x] => u.session[s].s2 # None
  <2> HAVE u = [t EXCEPT !.session[s].s2 = x]
  <2>1. u.session[s] = [t.session[s] EXCEPT !.s2 = x]
    BY StateFacts
  <2> QED
    BY <1>0, <2>1, StateFacts DEF SessionRecord
<1> QED
  BY <1>0, <1>2, <1>3, <1>5, <1>6 DEF r

\* DetectChannel: with DiscardUnidirectionalCalls the second side starts the recording, and
\* a session gets its second side once.
LEMMA DetectSays ==
  ASSUME NEW t, Sound(conf, t), NEW s \in Session, t.session[s] # None, t.session[s].metadata,
         NEW stream \in Stream, NEW u, u = DetectChannel(t, s, stream)
  PROVE  Says(t, u, s)
<1> DEFINE r == t.session[s]
           heard == IF Channel(r, stream) = 1
                    THEN [t EXCEPT !.session[s].s1 = stream]
                    ELSE [t EXCEPT !.session[s].s2 = stream]
           late == [heard EXCEPT !.session[s].early = @ \/ ~conf.lookBack]
<1>0. t \in State /\ r \in SessionRecord /\ Shape(conf, s, r)
  BY StateFacts DEF Sound
<1>1. /\ Tells(t, heard)
      /\ heard.session[s].started = r.started /\ heard.session[s].stopped = r.stopped
      /\ heard.session[s].port = r.port
      /\ heard.open = t.open /\ heard.misheard = t.misheard
      /\ \A y \in Session \ {s} : heard.session[y] = t.session[y]
      /\ r.s1 # None => heard.session[s].s1 # None
  <2>1. PICK h : h = heard
    OBVIOUS
  <2>2. h \in {[t EXCEPT !.session[s].s1 = stream], [t EXCEPT !.session[s].s2 = stream]}
    BY <2>1
  <2> HIDE DEF heard
  <2>3. /\ Tells(t, h)
        /\ h.session[s].started = r.started /\ h.session[s].stopped = r.stopped
        /\ h.session[s].port = r.port
        /\ h.open = t.open /\ h.misheard = t.misheard
        /\ \A y \in Session \ {s} : h.session[y] = t.session[y]
        /\ r.s1 # None => h.session[s].s1 # None
    BY <1>0, <2>2, SideTells
  <2> QED
    BY <2>1, <2>3
<1>2. Heard(t, heard, s)
  BY <1>0, EditsHeard
<1>3. heard \in State /\ heard.session[s] # None /\ heard.session[s].metadata
  BY <1>2 DEF Heard
<1>4. CASE u = t
  BY <1>4 DEF Says
<1>5. CASE u = heard
  BY <1>1, <1>5, TellsSays
<1>6. CASE /\ IsFirst(r, stream) /\ Channel(r, stream) = 2 /\ conf.discard
           /\ u = Start(late, s)
  <2>1. r.s1 # None /\ r.s2 = None
    BY <1>6, SMTT(30) DEF IsFirst, Channel
  <2>2. heard = [t EXCEPT !.session[s].s2 = stream]
    BY <1>6
  <2>3. heard.session[s].s2 # None
    BY <1>0, <2>2, SideTells
  <2> HIDE DEF heard
  <2>4. PICK x \in BOOLEAN : late = [heard EXCEPT !.session[s].early = x]
    <3>1. heard.session[s].early \in BOOLEAN
      BY <1>3, StateFacts DEF SessionRecord
    <3> QED
      BY <3>1
  <2> DEFINE q == [heard.session[s] EXCEPT !.early = x]
  <2>5. late = Put(heard, s, q)
    BY <2>4 DEF Put
  <2>6. /\ q \in SessionRecord /\ q.started = r.started /\ q.stopped = r.stopped /\ q.port = r.port
        /\ q.s1 # None /\ q.s2 # None
    <3>1. heard.session[s] \in SessionRecord
      BY <1>3, StateFacts
    <3> QED
      BY <1>1, <2>1, <2>3, <3>1 DEF SessionRecord
  <2> HIDE DEF late, q
  <2>7. /\ late \in State /\ late.session[s] = q /\ q # None
        /\ late.open = t.open /\ late.misheard = t.misheard
        /\ \A y \in Session \ {s} : late.session[y] = t.session[y]
    BY <1>1, <1>3, <2>5, <2>6, PutIs, StateFacts
  <2>8. Begun(late, s, u)
    BY <1>6, <2>7, StartIs
  <2>9. Right(u.session[s])
    BY <1>6, <2>6, <2>7, <2>8 DEF Begun, Right
  <2>10. AllRight(t) => AllRight(u)
    BY <2>7, <2>8, <2>9 DEF AllRight, Begun
  <2>11. StartsOnce /\ AllRight(t) /\ InTurn(t) /\ ~r.stopped => InTurn(u)
    <3> HAVE StartsOnce /\ AllRight(t) /\ InTurn(t) /\ ~r.stopped
    <3>1. ~r.started
      BY <1>6, <2>1 DEF AllRight, Right
    <3>2. InTurn(late)
      BY <2>6, <2>7, InTurnStill
    <3>3. r.port \in {None, s}
      BY <1>0 DEF Shape
    <3> QED
      BY <1>6, <2>6, <2>7, <3>1, <3>2, <3>3, StartInTurn
  <2> QED
    BY <2>10, <2>11 DEF Says
<1> QED
  BY <1>4, <1>5, <1>6 DEF DetectChannel

LEMMA IgnoredSays ==
  ASSUME NEW t, Sound(conf, t), NEW s \in Session, t.session[s] # None, t.session[s].metadata,
         NEW p \in PacketRecord, NEW u, u = Ignored(t, s, p)
  PROVE  Says(t, u, s)
<1> DEFINE d == IF t.session[s].early THEN t ELSE DetectChannel(t, s, p.stream)
<1>0. t \in State
  BY DEF Sound
<1>1. Heard(t, d, s)
  BY <1>0, DetectHeard, HeardOnce DEF PacketRecord
<1>2. d \in State /\ d.session[s] # None
  BY <1>1 DEF Heard
<1>3. u = [d EXCEPT !.session[s].age = 0, !.session[s].ignored = Bump(d.session[s].ignored)]
  BY DEF Ignored
<1>4. Says(t, d, s)
  <2>1. CASE t.session[s].early
    BY <2>1 DEF Says
  <2>2. CASE ~t.session[s].early
    BY <2>2, DetectSays DEF PacketRecord
  <2> QED
    BY <2>1, <2>2
<1> HIDE DEF d
<1>5. PICK n \in 0 .. MaxCount : n = Bump(d.session[s].ignored)
  <2>1. d.session[s].ignored \in 0 .. MaxCount
    BY <1>2, StateFacts DEF SessionRecord
  <2> QED
    BY <2>1, Bounds
<1>6. Tells(d, u)
  <2>1. u = [d EXCEPT !.session[s].age = 0, !.session[s].ignored = n]
    BY <1>3, <1>5
  <2>2. Tells(d, [d EXCEPT !.session[s].age = 0, !.session[s].ignored = n])
    BY <1>2, QuietEdits
  <2> QED
    BY <2>1, <2>2
<1> QED
  BY <1>1, <1>4, <1>6, TellsSays, SaysTwice

LEMMA ResumedTells ==
  ASSUME NEW t \in State, NEW s \in Session, t.session[s] # None, NEW p, NEW u, u = Resumed(t, s, p)
  PROVE  Tells(t, u)
<1>1. PICK d \in {t, GoOffHold(t, s)} : u = [d EXCEPT !.session[s].last = TRUE]
  BY DEF Resumed
<1>2. Heard(t, d, s)
  BY HeardOnce, TwoEdits
<1>3. d \in State /\ d.session[s] # None
  BY <1>2 DEF Heard
<1>4. Tells(t, d)
  BY QuietEdits DEF Tells
<1>5. Tells(d, u)
  BY <1>1, <1>3, QuietEdits
<1> QED
  BY <1>4, <1>5, TellsTwice

\* What a packet that counts does to the counters.
LEMMA BumpIs ==
  ASSUME NEW k \in 0 .. MaxCount, NEW proto
  PROVE  /\ Bump(k) \in 0 .. MaxCount
         /\ Bump(k) >= Threshold(proto) => k >= Threshold(proto) \/ Bump(k) = Threshold(proto)
         /\ k >= Threshold(proto) => Bump(k) >= Threshold(proto) /\ Bump(k) # Threshold(proto)
BY SessionsAssumption DEF Bump, Threshold

\* Counted: look-back mode starts the session at one count.  It has not been started before,
\* for then it had that many packets already.
LEMMA CountedSays ==
  ASSUME NEW t, Sound(conf, t), NEW s \in Session, t.session[s] # None, t.session[s].metadata,
         NEW u, u = Counted(t, s)
  PROVE  Says(t, u, s)
<1> DEFINE r == t.session[s]
           n == Bump(r.rtp)
           d == [t EXCEPT !.session[s].rtp = n, !.session[s].age = 0]
           e == IF conf.lookBack /\ EnoughPackets(d.session[s]) THEN StartOrWait(d, s) ELSE d
           p == e.session[s].port
           q == [r EXCEPT !.rtp = n, !.age = 0]
<1>0. t \in State /\ r \in SessionRecord /\ r.rtp \in 0 .. MaxCount /\ Shape(conf, s, r)
  BY StateFacts DEF Sound, SessionRecord
<1>1. n \in 0 .. MaxCount
  BY <1>0, BumpIs
<1>2. u = IF e.session[s].started THEN TellAudio(e, p) ELSE e
  BY DEF Counted
<1>3. Heard(t, d, s)
  <2> HIDE DEF n
  <2> QED
    BY <1>0, <1>1, TwoEdits
<1>4. d \in State /\ d.session[s] # None /\ d.session[s].metadata /\ Sound(conf, d)
  <2> HIDE DEF d
  <2> QED
    BY <1>3, HeardWhole
<1>5. d = Put(t, s, q)
  BY DEF Put
<1>6. /\ q \in SessionRecord /\ q.rtp = n /\ q.started = r.started /\ q.stopped = r.stopped
      /\ q.port = r.port /\ q.proto = r.proto /\ q.early = r.early /\ q.s1 = r.s1 /\ q.s2 = r.s2
  <2> HIDE DEF n
  <2> QED
    BY <1>0, <1>1, Bounds DEF SessionRecord
<1> HIDE DEF d, q
<1>7. /\ d.session[s] = q /\ d.open = t.open /\ d.misheard = t.misheard
      /\ \A y \in Session \ {s} : d.session[y] = t.session[y]
  BY <1>0, <1>5, <1>6, PutIs
<1>8. InTurn(t) => InTurn(d)
  BY <1>4, <1>6, <1>7, InTurnStill
<1>9. ~conf.discard => (EnoughPackets(q) <=> n = Threshold(r.proto))
  BY <1>0, <1>6 DEF EnoughPackets, Threshold, SessionRecord
<1>10. n >= Threshold(r.proto) => r.rtp >= Threshold(r.proto) \/ n = Threshold(r.proto)
  BY <1>0, BumpIs
<1>11. r.rtp >= Threshold(r.proto) => n >= Threshold(r.proto) /\ n # Threshold(r.proto)
  BY <1>0, BumpIs
<1>t. Threshold(r.proto) >= Threshold(r.proto)
  BY Bounds DEF Threshold
<1> HIDE DEF n
<1>12. Heard(d, e, s)
  BY <1>4, HeardOnce, StartOrWaitHeard
<1>13. Says(t, e, s)
  <2>1. CASE ~(conf.lookBack /\ EnoughPackets(q)) \/ conf.discard
    <3>1. Right(r) => Right(q)
      BY <1>6, <1>9, <1>10, <1>11, <2>1 DEF Right
    <3>2. AllRight(t) => AllRight(d)
      BY <1>7, <3>1, RightAgain
    <3>3. Tells(t, d)
      BY <1>8, <3>2 DEF Tells
    <3>4. Tells(d, e)
      <4>1. CASE e = d
        BY <4>1 DEF Tells
      <4>2. CASE e # d
        <5>1. e = [d EXCEPT !.session[s].waitS2 = TRUE]
          BY <1>7, <2>1, <4>2 DEF StartOrWait
        <5> QED
          BY <1>4, <5>1, QuietEdits
      <4> QED
        BY <4>1, <4>2
    <3> QED
      BY <3>3, <3>4, TellsTwice, TellsSays
  <2>2. CASE conf.lookBack /\ EnoughPackets(q) /\ ~conf.discard
    <3>1. e = Start(d, s)
      BY <1>7, <2>2 DEF StartOrWait
    <3>2. Begun(d, s, e)
      BY <1>4, <3>1, StartIs
    <3>3. Right(e.session[s])
      BY <1>6, <1>7, <1>9, <1>t, <2>2, <3>2 DEF Begun, Right
    <3>4. AllRight(t) => AllRight(e)
      BY <1>7, <3>2, <3>3 DEF AllRight, Begun
    <3>5. StartsOnce /\ AllRight(t) /\ InTurn(t) /\ ~r.stopped => InTurn(e)
      <4> HAVE StartsOnce /\ AllRight(t) /\ InTurn(t) /\ ~r.stopped
      <4>1. ~r.started
        BY <1>9, <1>11, <2>2 DEF AllRight, Right
      <4>2. r.port \in {None, s}
        BY <1>0 DEF Shape
      <4> QED
        BY <1>4, <1>6, <1>7, <1>8, <3>1, <4>1, <4>2, StartInTurn
    <3> QED
      BY <3>4, <3>5 DEF Says
  <2> QED
    BY <2>1, <2>2
<1>14. Heard(t, e, s)
  BY <1>0, <1>3, <1>12, HeardTwice
<1>15. e \in State /\ e.session[s] # None /\ Sound(conf, e)
  BY <1>14, HeardWhole
<1> HIDE DEF e
<1>16. Says(e, u, s)
  <2>1. CASE ~e.session[s].started
    BY <1>2, <2>1 DEF Says
  <2>2. CASE e.session[s].started
    <3>1. /\ u.session = e.session /\ u.open = e.open
          /\ u.misheard = IF p \notin e.open THEN e.misheard \cup {p} ELSE e.misheard
      BY <1>2, <1>15, <2>2 DEF TellAudio, State
    <3>2. p \in {None, s}
      BY <1>15 DEF Sound, Shape
    <3>3. InTurn(e) /\ ~e.session[s].stopped => InTurn(u)
      BY <1>15, <2>2, <3>1, <3>2 DEF InTurn, Live
    <3> QED
      BY <3>1, <3>3 DEF Says, AllRight
  <2> QED
    BY <2>1, <2>2
<1> QED
  BY <1>13, <1>14, <1>16, SaysTwice

LEMMA SortedSays ==
  ASSUME NEW t, Sound(conf, t), NEW s \in Session, t.session[s] # None, t.session[s].metadata,
         NEW p \in PacketRecord
  PROVE  Says(t, Sorted(t, s, p).t, s)
<1> DEFINE d == DetectChannel(t, s, p.stream)
           e == [d EXCEPT !.session[s].s1 = p.stream]
           f == [d EXCEPT !.session[s].s2 = p.stream]
<1>0. p.stream \in Stream /\ t \in State
  BY DEF PacketRecord, Sound
<1>1. Heard(t, d, s) /\ Says(t, d, s)
  BY <1>0, DetectHeard, DetectSays
<1>2. d \in State /\ d.session[s] # None /\ d.session[s].metadata /\ Sound(conf, d)
  BY <1>1, HeardWhole
<1>3. Sorted(t, s, p).t \in {d, Counted(e, s), Counted(f, s), Counted(d, s)}
  BY DEF Sorted
<1> HIDE DEF d
<1>4. Heard(d, e, s) /\ Heard(d, f, s)
  BY <1>0, <1>2, EditsHeard
<1>5. Says(d, e, s) /\ Says(d, f, s)
  BY <1>0, <1>2, SideTells, TellsSays
<1>6. /\ e.session[s] # None /\ e.session[s].metadata /\ Sound(conf, e)
      /\ f.session[s] # None /\ f.session[s].metadata /\ Sound(conf, f)
  <2> HIDE DEF e, f
  <2>1. e.session[s] # None /\ e.session[s].metadata /\ Sound(conf, e)
    BY <1>2, <1>4, HeardWhole
  <2>2. f.session[s] # None /\ f.session[s].metadata /\ Sound(conf, f)
    BY <1>2, <1>4, HeardWhole
  <2> QED
    BY <2>1, <2>2
<1> HIDE DEF e, f
<1>7. Says(d, Counted(d, s), s) /\ Says(e, Counted(e, s), s) /\ Says(f, Counted(f, s), s)
  BY <1>2, <1>6, CountedSays
<1>8. Says(d, Counted(e, s), s) /\ Says(d, Counted(f, s), s)
  BY <1>4, <1>5, <1>7, SaysTwice
<1> QED
  BY <1>1, <1>3, <1>7, <1>8, SaysTwice

\* AddRtpPacket
LEMMA PacketSays ==
  ASSUME NEW t, Sound(conf, t), NEW s \in Session, t.session[s] # None, NEW p \in PacketRecord
  PROVE  Says(t, AddRtpPacket(t, s, p).t, s)
<1> DEFINE d == Prepared(t, s)
           r == d.session[s]
           e == IF ~conf.lookBack /\ r.rtp = 0 /\ ~r.early THEN StartOrWait(d, s) ELSE d
           f == Resumed(e, s, p)
<1>0. t \in State
  BY DEF Sound
<1>1. Heard(t, d, s) /\ d.session[s].metadata
  BY <1>0, PreparedHeard
<1>2. /\ Says(t, d, s)
      /\ StartsOnce /\ ~conf.lookBack /\ ~conf.discard /\ AllRight(t) => r.early
  BY PreparedSays
<1>3. d \in State /\ d.session[s] # None /\ Sound(conf, d)
  BY <1>1, HeardWhole
<1>4. \/ AddRtpPacket(t, s, p) = [t |-> Ignored(d, s, p), ok |-> TRUE]
      \/ AddRtpPacket(t, s, p) = [t |-> e, ok |-> TRUE]
      \/ AddRtpPacket(t, s, p) = Sorted(f, s, p)
  BY DEF AddRtpPacket
<1> HIDE DEF d
<1>5. Says(d, Ignored(d, s, p), s)
  BY <1>1, <1>3, IgnoredSays
<1>6. Heard(d, e, s) /\ e.session[s].metadata
  BY <1>1, <1>3, StartOrWaitHeard, HeardOnce
<1>7. e \in State /\ e.session[s] # None /\ Sound(conf, e)
  BY <1>3, <1>6, HeardWhole
<1>8. Says(t, e, s)
  <2>1. CASE e = d
    BY <1>2, <2>1
  <2>2. CASE ~conf.lookBack /\ ~r.early /\ conf.discard /\ e # d
    <3>1. e = [d EXCEPT !.session[s].waitS2 = TRUE]
      BY <2>2 DEF StartOrWait
    <3>2. Says(d, e, s)
      BY <1>3, <3>1, QuietEdits, TellsSays
    <3> QED
      BY <1>1, <1>2, <3>2, SaysTwice
  <2>3. CASE ~conf.lookBack /\ ~r.early /\ ~conf.discard /\ e # d
    <3>1. e = Start(d, s)
      BY <2>3 DEF StartOrWait
    <3>2. Begun(d, s, e)
      BY <1>3, <3>1, StartIs
    <3>3. AllRight(t) => ~StartsOnce
      BY <1>2, <2>3
    <3>4. ~StartsOnce => Right(e.session[s])
      BY <2>3 DEF Right
    <3>5. AllRight(t) => AllRight(d)
      BY <1>2 DEF Says
    <3>6. AllRight(t) => AllRight(e)
      BY <1>3, <3>2, <3>3, <3>4, <3>5 DEF AllRight, Begun
    <3> QED
      BY <3>3, <3>6 DEF Says
  <2> QED
    BY <2>1, <2>2, <2>3
<1>9. Heard(t, e, s)
  BY <1>0, <1>1, <1>6, HeardTwice
<1> HIDE DEF e
<1>10. Heard(e, f, s) /\ Says(e, f, s)
  BY <1>7, ResumedHeard, ResumedTells, TellsSays
<1>11. f.session[s] # None /\ f.session[s].metadata /\ Sound(conf, f)
  BY <1>6, <1>7, <1>10, HeardWhole
<1>12. Heard(t, f, s) /\ Says(t, f, s)
  BY <1>0, <1>8, <1>9, <1>10, HeardTwice, SaysTwice
<1> HIDE DEF f
<1>13. Says(f, Sorted(f, s, p).t, s)
  BY <1>11, SortedSays
<1>14. Says(t, Sorted(f, s, p).t, s) /\ Says(t, Ignored(d, s, p), s)
  BY <1>1, <1>2, <1>5, <1>12, <1>13, SaysTwice
<1>15. CASE AddRtpPacket(t, s, p) = [t |-> Ignored(d, s, p), ok |-> TRUE]
  BY <1>14, <1>15
<1>16. CASE AddRtpPacket(t, s, p) = [t |-> e, ok |-> TRUE]
  BY <1>8, <1>16
<1>17. CASE AddRtpPacket(t, s, p) = Sorted(f, s, p)
  BY <1>14, <1>17
<1> QED
  BY <1>4, <1>15, <1>16, <1>17

-----------------------------------------------------------------------------
(* What the handlers tell the ports.                                         *)

\* A whole handler: the session that an address leads to goes on, so it may still start.
Hears(t, u) ==
  /\ AllRight(t) => AllRight(u)
  /\ StartsOnce /\ AllRight(t) /\ Tidy(t) /\ InTurn(t) => InTurn(u)

LEMMA TellsHears ==
  ASSUME NEW t, NEW u, Tells(t, u)
  PROVE  Hears(t, u)
BY DEF Tells, Hears

LEMMA HearsTells ==
  ASSUME NEW t, NEW u, NEW v, Hears(t, u), Tells(u, v)
  PROVE  Hears(t, v)
BY DEF Tells, Hears

LEMMA KeepsHears ==
  ASSUME NEW t, NEW u, NEW v, Keeps(t, u), Hears(t, u), Hears(u, v)
  PROVE  Hears(t, v)
BY DEF Keeps, Hears

\* A tracking id that no session and no port has.
Free(t, i) == t.session[i] = None /\ i \notin t.open

\* A packet at one of its two addresses.
LEMMA DeliverHears ==
  ASSUME NEW t, Sound(conf, t), NEW b \in Address, NEW p \in PacketRecord,
         NEW d, d = Deliver(t, t.byAddr[b], p)
  PROVE  Hears(t, d.t) /\ \A i \in Session : Free(t, i) => Free(d.t, i)
<1>0. t \in State /\ t.byAddr[b] \in Session \cup {None} /\ None \notin Session
  BY StateFacts, SessionsAssumption DEF Sound
<1>1. CASE t.byAddr[b] = None
  <2>1. d.t = t
    BY <1>1 DEF Deliver
  <2> QED
    BY <2>1 DEF Hears
<1>2. CASE t.byAddr[b] # None
  <2>1. PICK s \in Session : s = t.byAddr[b] /\ t.session[s] # None
    BY <1>0, <1>2 DEF Sound
  <2>2. PICK v : v = AddRtpPacket(t, s, p).t
    OBVIOUS
  <2>3. Heard(t, v, s) /\ Says(t, v, s)
    BY <1>0, <2>1, <2>2, PacketHeard, PacketSays
  <2>4. Tidy(t) => ~t.session[s].stopped
    BY <1>2, <2>1 DEF Tidy
  <2>5. Hears(t, v)
    BY <2>3, <2>4 DEF Says, Hears
  <2>6. Sound(conf, v) /\ v.session[s] # None
    BY <2>1, <2>3, HeardWhole
  <2>7. ASSUME NEW i \in Session, Free(t, i)  PROVE Free(v, i)
    <3>1. i # s /\ v.session[i] = t.session[i]
      BY <2>1, <2>3, <2>7 DEF Free, Heard
    <3>2. t.session[s].port \in {None, s}
      BY <2>1 DEF Sound, Shape
    <3>3. v.session[s].port \in {None, s}
      BY <2>3, <3>2 DEF Heard
    <3>4. v.open \subseteq t.open \cup {v.session[s].port}
      BY <2>3 DEF Heard
    <3> QED
      BY <1>0, <2>7, <3>1, <3>3, <3>4 DEF Free
  <2>8. \/ d.t = v
        \/ d.t = StopEach(v, {s})
    BY <1>2, <2>1, <2>2 DEF Deliver, Stop
  <2>9. CASE d.t = v
    BY <2>5, <2>7, <2>9
  <2>10. CASE d.t = StopEach(v, {s})
    <3>1. Tells(v, d.t) /\ d.t.open \subseteq v.open
      BY <2>6, <2>10, StopTells
    <3>2. Ended(v, {s}, d.t)
      BY <2>6, <2>10, StopEachIs DEF Sound
    <3>3. \A i \in Session : v.session[i] = None => d.t.session[i] = None
      BY <2>6, <3>2 DEF Ended
    <3> QED
      BY <2>5, <2>7, <3>1, <3>3, HearsTells DEF Free
  <2> QED
    BY <2>8, <2>9, <2>10
<1> QED
  BY <1>1, <1>2

\* Both ends of a packet, one after the other.
LEMMA DeliveredHears ==
  ASSUME Sound(conf, Now), NEW p \in PacketRecord, NEW d, d = Delivered(p)
  PROVE  Hears(Now, d.t) /\ \A i \in Session : Free(Now, i) => Free(d.t, i)
<1>0. p.stream[1] \in Address /\ p.stream[2] \in Address /\ Now.byAddr = byAddr
  BY DEF PacketRecord, Stream, Now
<1>1. PICK e : e = Deliver(Now, Now.byAddr[p.stream[1]], p)
  OBVIOUS
<1>2. PICK q : q = [p EXCEPT !.again = (byAddr[p.stream[1]] = e.t.byAddr[p.stream[2]])]
  OBVIOUS
<1>3. PICK f : f = Deliver(e.t, e.t.byAddr[p.stream[2]], q)
  OBVIOUS
<1>4. d.t = f.t
  BY <1>0, <1>1, <1>2, <1>3 DEF Delivered
<1>5. q \in PacketRecord
  BY <1>2 DEF PacketRecord
<1>6. Keeps(Now, e.t)
  BY <1>0, <1>1, DeliverIs
<1>7. Hears(Now, e.t) /\ \A i \in Session : Free(Now, i) => Free(e.t, i)
  BY <1>0, <1>1, DeliverHears
<1>8. Sound(conf, e.t)
  BY <1>6 DEF Keeps
<1>9. Hears(e.t, f.t) /\ \A i \in Session : Free(e.t, i) => Free(f.t, i)
  BY <1>0, <1>3, <1>5, <1>8, DeliverHears
<1> QED
  BY <1>4, <1>6, <1>7, <1>9, KeepsHears

\* The one session a packet finds gets its other address.
LEMMA OneFoundTells ==
  ASSUME NEW t, Sound(conf, t), NEW s \in Session, t.session[s] # None,
         NEW fromSource, NEW p \in PacketRecord, NEW u, u = OneFound(t, s, fromSource, p)
  PROVE  Tells(t, u)
<1> DEFINE other == IF fromSource THEN p.stream[2] ELSE p.stream[1]
           v == IF conf.useSecond THEN SetMediaAddress(t, s, other) ELSE t
           end == CASE p.stream[2] \in conf.tracked -> p.stream[2]
                    [] p.stream[2] \notin conf.tracked /\ p.stream[1] \in conf.tracked -> p.stream[1]
                    [] OTHER -> None
<1>0. other \in Address \cup {None} /\ end \in Address \cup {None}
  BY DEF PacketRecord, Stream
<1>1. u \in {v, SetMediaAddress(v, s, end)}
  BY DEF OneFound
<1> HIDE DEF other, end
<1>2. Sound(conf, v) /\ v.session[s] # None
  BY <1>0, SetSound
<1>3. Tells(t, v)
  <2>1. Tells(t, t)
    BY DEF Tells
  <2> QED
    BY <1>0, <2>1, SetTells
<1> HIDE DEF v
<1>4. CASE u = v
  BY <1>3, <1>4
<1>5. CASE u = SetMediaAddress(v, s, end)
  BY <1>0, <1>2, <1>3, <1>5, SetTells, TellsTwice
<1> QED
  BY <1>1, <1>4, <1>5

\* A session of its own.
LEMMA RawSessionTells ==
  ASSUME NEW t, Sound(conf, t), conf \in ConfigRecord, NEW i \in Session, Free(t, i),
         conf.lookBack \/ conf.trackRaw, NEW p \in PacketRecord, NEW u, u = RawSession(t, i, p)
  PROVE  Tells(t, u)
<1> DEFINE a == IF p.stream[1] \in conf.tracked THEN p.stream[1] ELSE p.stream[2]
           r == [NewSession("RawRtp") EXCEPT !.endpoint = a]
           v == Put(t, i, r)
           w == SetMediaAddress(v, i, a)
<1>0. a \in Address
  BY DEF PacketRecord, Stream
<1>1. u = AddRtpPacket(w, i, p).t
  BY DEF RawSession
<1> HIDE DEF a
<1>2. r \in SessionRecord /\ Shape(conf, i, r) /\ ~r.started /\ ~r.stopped /\ r.rtp = 0
  BY <1>0, NewRawIs
<1> HIDE DEF r
<1>3. Fresh(r)
  BY <1>2 DEF Fresh, StartsOnce
<1>4. Sound(conf, v) /\ v.session[i] = r /\ r # None
  BY <1>2, PutNew, NoneAssumption DEF Free
<1>5. Tells(t, v)
  <2>1. t \in State /\ i \notin t.open
    BY DEF Sound, Free
  <2> QED
    BY <1>3, <2>1, PutTells
<1> HIDE DEF v
<1>6. Sound(conf, w) /\ w.session[i] # None /\ ~w.session[i].stopped
  BY <1>0, <1>2, <1>4, SetSound
<1>7. Tells(v, w)
  BY <1>0, <1>4, SetTells
<1> HIDE DEF w
<1>8. Says(w, u, i)
  BY <1>1, <1>6, PacketSays
<1>9. Tells(w, u)
  BY <1>6, <1>8 DEF Says, Tells
<1> QED
  BY <1>5, <1>7, <1>9, TellsTwice

\* ReportRtpPacket.
LEMMA PacketHears ==
  ASSUME Sound(conf, Now), conf \in ConfigRecord, NEW p \in PacketRecord, ReportRtpPacket(p)
  PROVE  \E u : Become(u) /\ Hears(Now, u)
<1>1. PICK d \in {Delivered(p)} :
        \/ /\ d.n = 2 /\ d.s1 # d.s2 /\ BothSip(d.t, d.s1, d.s2)
           /\ \E u \in Separated(d.t, d.s1, d.s2, p) : Become(u)
        \/ /\ d.n = 2 /\ d.s1 # d.s2 /\ ~BothSip(d.t, d.s1, d.s2)
           /\ \E m \in Mergers(d.t, d.s1, d.s2, p) :
                 Become(Stop(d.t, IF m = d.s1 THEN d.s2 ELSE d.s1))
        \/ /\ d.n = 2 /\ d.s1 = d.s2
           /\ Become(d.t)
        \/ /\ d.n = 1
           /\ Become(OneFound(d.t, IF d.s2 # None THEN d.s2 ELSE d.s1, d.s1 # None, p))
        \/ /\ d.n = 0 /\ (conf.lookBack \/ conf.trackRaw)
           /\ \E i \in Session : FreeId(i) /\ Become(RawSession(d.t, i, p))
        \/ /\ d.n = 0 /\ ~(conf.lookBack \/ conf.trackRaw)
           /\ Become(d.t)
  BY DEF ReportRtpPacket
<1>0. /\ p.stream[1] \in Address /\ p.stream[2] \in Address
      /\ Now.session = session /\ Now.open = open
  BY DEF PacketRecord, Stream, Now
<1>2. /\ Keeps(Now, d.t)
      /\ d.s1 \in Session \cup {None} /\ d.s2 \in Session \cup {None}
      /\ d.n = 2 => /\ d.s1 \in Session /\ d.t.byAddr[p.stream[1]] = d.s1
                    /\ d.s2 \in Session /\ d.t.byAddr[p.stream[2]] = d.s2
      /\ d.n = 1 => /\ d.s1 # None \/ d.s2 # None
                    /\ d.s1 # None => d.t.session[d.s1] # None
                    /\ d.s2 # None => d.t.session[d.s2] # None
  BY DeliveredIs
<1>3. Hears(Now, d.t) /\ Sound(conf, d.t) /\ \A i \in Session : Free(Now, i) => Free(d.t, i)
  BY <1>2, DeliveredHears DEF Keeps
<1>4. ASSUME NEW u, Become(u), Tells(d.t, u)
      PROVE  \E v : Become(v) /\ Hears(Now, v)
  BY <1>3, <1>4, HearsTells
<1>5. d.t \in State
  BY <1>3 DEF Sound
<1>6. CASE /\ d.n = 2 /\ d.s1 # d.s2 /\ BothSip(d.t, d.s1, d.s2)
           /\ \E u \in Separated(d.t, d.s1, d.s2, p) : Become(u)
  <2>1. PICK u \in Separated(d.t, d.s1, d.s2, p) : Become(u)
    BY <1>6
  <2>2. PICK t \in State : t = d.t
    BY <1>5
  <2>3. \/ u = t
        \/ \E b \in Address : u = [t EXCEPT !.byAddr = [@ EXCEPT ![b] = None]]
    BY <1>0, <2>2 DEF Separated
  <2>4. ASSUME NEW b \in Address, u = [t EXCEPT !.byAddr = [@ EXCEPT ![b] = None]]
        PROVE  Tells(t, u)
    <3> DEFINE new == [t.byAddr EXCEPT ![b] = None]
    <3>1. new \in [Address \cup {None} -> Session \cup {None}]
      BY StateFacts
    <3>2. u = [t EXCEPT !.byAddr = new]
      BY <2>4
    <3> HIDE DEF new
    <3>3. u \in State /\ u.session = t.session /\ u.open = t.open /\ u.misheard = t.misheard
      BY <3>1, <3>2 DEF State
    <3> QED
      BY <3>3, MapsTell
  <2>5. u = t => Tells(t, u)
    BY DEF Tells
  <2> QED
    BY <1>4, <2>1, <2>2, <2>3, <2>4, <2>5
<1>7. CASE /\ d.n = 2 /\ d.s1 # d.s2 /\ ~BothSip(d.t, d.s1, d.s2)
           /\ \E m \in Mergers(d.t, d.s1, d.s2, p) :
                 Become(Stop(d.t, IF m = d.s1 THEN d.s2 ELSE d.s1))
  <2>1. PICK s \in {d.s1, d.s2} : Become(StopEach(d.t, {s}))
    BY <1>7 DEF Stop
  <2>2. s \in Session /\ d.t.session[s] # None
    <3>1. /\ d.s1 \in Session /\ d.t.byAddr[p.stream[1]] = d.s1
          /\ d.s2 \in Session /\ d.t.byAddr[p.stream[2]] = d.s2
      BY <1>2, <1>7
    <3>2. \A t, a, x : Sound(conf, t) /\ a \in Address /\ t.byAddr[a] = x /\ x \in Session
                       => t.session[x] # None
      BY SessionsAssumption DEF Sound
    <3>3. d.t.session[d.s1] # None /\ d.t.session[d.s2] # None
      BY <1>0, <1>3, <3>1, <3>2
    <3> QED
      BY <2>1, <3>1, <3>3
  <2>3. Tells(d.t, StopEach(d.t, {s}))
    BY <1>3, <2>2, StopTells
  <2> QED
    BY <1>4, <2>1, <2>3
<1>8. CASE d.n = 2 /\ d.s1 = d.s2 /\ Become(d.t)
  BY <1>3, <1>8
<1>9. CASE /\ d.n = 1
           /\ Become(OneFound(d.t, IF d.s2 # None THEN d.s2 ELSE d.s1, d.s1 # None, p))
  <2> DEFINE s == IF d.s2 # None THEN d.s2 ELSE d.s1
             u == OneFound(d.t, s, d.s1 # None, p)
  <2>1. s \in Session /\ d.t.session[s] # None
    BY <1>2, <1>9
  <2>2. Become(u)
    BY <1>9
  <2> HIDE DEF s
  <2>3. Tells(d.t, u)
    BY <1>3, <2>1, OneFoundTells
  <2> HIDE DEF u
  <2> QED
    BY <1>4, <2>2, <2>3
<1>10. CASE /\ d.n = 0 /\ (conf.lookBack \/ conf.trackRaw)
            /\ \E i \in Session : FreeId(i) /\ Become(RawSession(d.t, i, p))
  <2>1. PICK i \in Session : FreeId(i) /\ Become(RawSession(d.t, i, p))
    BY <1>10
  <2>2. Free(d.t, i)
    BY <1>0, <1>3, <2>1 DEF FreeId, Unused, Free
  <2>3. Tells(d.t, RawSession(d.t, i, p))
    BY <1>3, <1>10, <2>2, RawSessionTells
  <2> QED
    BY <1>4, <2>1, <2>3
<1>11. CASE d.n = 0 /\ ~(conf.lookBack \/ conf.trackRaw) /\ Become(d.t)
  BY <1>3, <1>11
<1> QED
  BY <1>1, <1>6, <1>7, <1>8, <1>9, <1>10, <1>11

\* A session of signalling has said nothing yet.
LEMMA NewIsFresh ==
  ASSUME conf \in ConfigRecord, NEW proto \in {"Sip", "Skinny"}, NEW c \in Call \cup {None},
         NEW e \in Address \cup {None}, NEW k \in BOOLEAN, NEW r,
         r = [NewSession(proto) EXCEPT !.callId = c, !.keep = k, !.endpoint = e]
  PROVE  Fresh(r)
<1>1. r = [proto |-> proto, callId |-> c, addr |-> None, addrs |-> {}, endpoint |-> e,
           rtp |-> 0, ignored |-> 0, age |-> 0, port |-> None, metadata |-> FALSE,
           started |-> FALSE, stopped |-> FALSE, keep |-> k, early |-> FALSE,
           waitS2 |-> FALSE, hold |-> FALSE, last |-> FALSE, s1 |-> None, s2 |-> None]
  BY DEF NewSession
<1>2. PICK q : q = r
  OBVIOUS
<1>3. q = [proto |-> proto, callId |-> c, addr |-> None, addrs |-> {}, endpoint |-> e,
           rtp |-> 0, ignored |-> 0, age |-> 0, port |-> None, metadata |-> FALSE,
           started |-> FALSE, stopped |-> FALSE, keep |-> k, early |-> FALSE,
           waitS2 |-> FALSE, hold |-> FALSE, last |-> FALSE, s1 |-> None, s2 |-> None]
  BY <1>1, <1>2
<1>4. q \in SessionRecord
  BY <1>3, Bounds DEF SessionRecord
<1>5. q.rtp = 0 /\ ~q.started /\ ~q.stopped /\ q.proto # "RawRtp"
  BY <1>3
<1> QED
  BY <1>2, <1>4, <1>5 DEF Fresh

\* An invite for a call that has its session.
LEMMA ReinviteTells ==
  ASSUME NEW t, Sound(conf, t), NEW s \in Session, t.session[s] # None, NEW a \in Address \cup {None},
         NEW sendonly, NEW demand \in BOOLEAN, NEW byId,
         NEW u, u = Reinvite(t, s, a, sendonly, demand, byId)
  PROVE  Tells(t, u)
<1>0. t \in State
  BY DEF Sound
<1>1. PICK off : off = GoOffHold(t, s)
  OBVIOUS
<1>2. PICK set : set = SetMediaAddress(t, s, a)
  OBVIOUS
<1>3. \/ u = GoOnHold(t, s)
      \/ u = SetMediaAddress(off, s, a)
      \/ u = [set EXCEPT !.session[s].keep = @ \/ demand]
      \/ u = [t EXCEPT !.session[s].keep = @ \/ demand]
  BY <1>1, <1>2 DEF Reinvite
<1>4. CASE u = GoOnHold(t, s)
  BY <1>0, <1>4, HoldTells
<1>5. CASE u = SetMediaAddress(off, s, a)
  <2>1. Heard(t, off, s) /\ Tells(t, off)
    BY <1>0, <1>1, HoldHeard, QuietEdits
  <2>2. Sound(conf, off) /\ off.session[s] # None
    BY <2>1, HeardWhole
  <2>3. Tells(off, u)
    BY <1>5, <2>2, SetTells
  <2> QED
    BY <2>1, <2>3, TellsTwice
<1>6. CASE u = [set EXCEPT !.session[s].keep = @ \/ demand]
  <2>1. Sound(conf, set) /\ set.session[s] # None /\ Tells(t, set)
    BY <1>2, SetSound, SetTells
  <2>2. Tells(set, u)
    BY <1>6, <2>1, HoldTells DEF Sound
  <2> QED
    BY <2>1, <2>2, TellsTwice
<1>7. CASE u = [t EXCEPT !.session[s].keep = @ \/ demand]
  BY <1>0, <1>7, HoldTells
<1> QED
  BY <1>3, <1>4, <1>5, <1>6, <1>7

\* A session that gives way to the call of an invite: only where StartsOnce does not hold.
LEMMA DemotedTells ==
  ASSUME NEW t \in State, NEW s \in Session \cup {None}, s # None => t.session[s] # None, NEW c,
         NEW u, u = Demoted(t, s, c)
  PROVE  Tells(t, u) /\ u.open = t.open
<1>1. CASE u = t
  BY <1>1 DEF Tells
<1>2. CASE s # None /\ ~conf.multi /\ u = [t EXCEPT !.session[s].proto = "RawRtp"]
  <2>1. s \in Session /\ t.session[s] # None
    BY <1>2
  <2>2. Tells(t, [t EXCEPT !.session[s].proto = "RawRtp"])
    BY <1>2, <2>1, QuietEdits
  <2>3. u.open = t.open
    BY <1>2
  <2> QED
    BY <1>2, <2>2, <2>3
<1> QED
  BY <1>1, <1>2 DEF Demoted

\* An invite.
LEMMA InviteTells ==
  ASSUME Sound(conf, Now), conf \in ConfigRecord, NEW c \in SipCall, NEW a \in Address \cup {None},
         NEW sendonly, NEW demand \in BOOLEAN, ReportSipInvite(c, a, sendonly, demand)
  PROVE  \E u : Become(u) /\ Tells(Now, u)
<1>1. PICK s : s = byAddr[a]
  OBVIOUS
<1>2. PICK t : t = Demoted(Now, s, c)
  OBVIOUS
<1>3. PICK x : x = byCall[c]
  OBVIOUS
<1>0. /\ Now.byAddr = byAddr /\ Now.byCall = byCall /\ Now.session = session /\ Now.open = open
      /\ Now \in State /\ s \in Session \cup {None} /\ x \in Session \cup {None}
      /\ c \in Call /\ c # None
      /\ s # None => Now.session[s] # None
      /\ s # None => Leads(Now, s)
      /\ x # None => Now.session[x] # None
  <2>1. Now \in State /\ c \in Call /\ c # None
    BY SessionsAssumption DEF Sound, Call
  <2>2. Now.byAddr = byAddr /\ Now.byCall = byCall /\ Now.session = session /\ Now.open = open
    BY DEF Now
  <2>3. s \in Session \cup {None} /\ x \in Session \cup {None}
    BY <1>1, <1>3, <2>1, <2>2, StateFacts
  <2>4. s # None => a \in Address
    BY <1>1, <2>2 DEF Sound
  <2> QED
    BY <1>1, <1>3, <2>1, <2>2, <2>3, <2>4 DEF Sound, Leads
<1>4. /\ Tells(Now, t) /\ t.open = open /\ Sound(conf, t)
      /\ \A y \in Session : t.session[y] = None <=> session[y] = None
  <2>1. Goes(Now, t) /\ \A y \in Session : t.session[y] = None <=> Now.session[y] = None
    BY <1>0, <1>2, DemotedGoes
  <2>2. Tells(Now, t) /\ t.open = Now.open
    BY <1>0, <1>2, DemotedTells
  <2> QED
    BY <1>0, <2>1, <2>2 DEF Goes
<1>5. \/ s # None /\ Become(Reinvite(Now, s, a, sendonly, demand, FALSE))
      \/ x # None /\ Become(Reinvite(t, x, a, sendonly, demand, TRUE))
      \/ \E i \in Session, e \in conf.phones \cup {None} :
                 FreeId(i) /\ Become(NewSipSession(t, i, c, a, demand, e))
  BY <1>1, <1>2, <1>3 DEF ReportSipInvite
<1>6. CASE s # None /\ Become(Reinvite(Now, s, a, sendonly, demand, FALSE))
  BY <1>0, <1>6, ReinviteTells
<1>7. CASE x # None /\ Become(Reinvite(t, x, a, sendonly, demand, TRUE))
  <2>1. Tells(t, Reinvite(t, x, a, sendonly, demand, TRUE))
    BY <1>0, <1>4, <1>7, ReinviteTells
  <2> QED
    BY <1>4, <1>7, <2>1, TellsTwice
<1>8. CASE \E i \in Session, e \in conf.phones \cup {None} :
                 FreeId(i) /\ Become(NewSipSession(t, i, c, a, demand, e))
  <2>1. PICK i \in Session, e \in conf.phones \cup {None} :
                 FreeId(i) /\ Become(NewSipSession(t, i, c, a, demand, e))
    BY <1>8
  <2>2. t.session[i] = None /\ i \notin t.open /\ t \in State
    BY <1>4, <2>1 DEF FreeId, Unused, Sound
  <2>3. PICK k \in BOOLEAN : k = (conf.lookBack \/ demand)
    BY DEF ConfigRecord
  <2>4. PICK r : r = [NewSession("Sip") EXCEPT !.callId = c, !.keep = @ \/ demand, !.endpoint = e]
    OBVIOUS
  <2>5. r = [NewSession("Sip") EXCEPT !.callId = c, !.keep = k, !.endpoint = e]
    BY <2>3, <2>4 DEF NewSession
  <2>6. Fresh(r)
    <3>1. e \in Address \cup {None}
      BY DEF ConfigRecord
    <3> QED
      BY <1>0, <2>5, <3>1, NewIsFresh
  <2>7. r \in SessionRecord /\ Shape(conf, i, r) /\ ~r.started /\ ~r.stopped /\ r # None
    <3>1. r \in SessionRecord /\ ~r.started /\ ~r.stopped
      BY <2>6 DEF Fresh
    <3>2. r.addrs = {} /\ r.port = None /\ r.callId = c /\ r.proto = "Sip"
      BY <2>5 DEF NewSession
    <3> QED
      BY <1>0, <3>1, <3>2, NoneAssumption DEF Shape
  <2>8. PICK v : v = Put(t, i, r)
    OBVIOUS
  <2>9. Sound(conf, v) /\ v.session[i] # None /\ Tells(t, v)
    BY <1>4, <2>2, <2>6, <2>7, <2>8, PutNew, PutTells
  <2>10. PICK w : w = SetMediaAddress(v, i, a)
    OBVIOUS
  <2>11. Sound(conf, w) /\ Tells(v, w)
    BY <2>9, <2>10, SetSound, SetTells
  <2>12. Tells(w, MapCall(w, c, i))
    BY <1>0, <2>11, MappedTells DEF Sound
  <2>13. NewSipSession(t, i, c, a, demand, e) = MapCall(w, c, i)
    BY <2>4, <2>8, <2>10 DEF NewSipSession
  <2> QED
    BY <1>4, <2>1, <2>9, <2>11, <2>12, <2>13, TellsTwice
<1> QED
  BY <1>5, <1>6, <1>7, <1>8

\* A new session of a phone.
LEMMA SkinnyFresh ==
  ASSUME conf \in ConfigRecord, NEW c \in Call \cup {None}, NEW e \in Address,
         c # None \/ conf.lateInfo, NEW r, r = [NewSession("Skinny") EXCEPT !.callId = c, !.endpoint = e]
  PROVE  Fresh(r) /\ r # None
<1>1. r.rtp = 0 /\ r.proto = "Skinny"
  BY DEF NewSession
<1>2. r \in SessionRecord /\ ~r.started /\ ~r.stopped
  BY NewSkinnyIs
<1> QED
  BY <1>1, <1>2, NoneAssumption DEF Fresh

LEMMA CallInfoTells ==
  ASSUME Sound(conf, Now), conf \in ConfigRecord, NEW c \in SkinnyCall, NEW e \in Address,
         ReportSkinnyCallInfo(c, e)
  PROVE  \E u : Become(u) /\ Tells(Now, u)
<1>0. /\ Now.byAddr = byAddr /\ Now.byCall = byCall /\ Now.session = session /\ Now.open = open
      /\ c \in Call /\ c # None /\ Now \in State
  BY SessionsAssumption DEF Now, Call, Sound
<1>1. CASE /\ conf.lateInfo
           /\ \E s \in OnAddresses(e) :
                /\ session[s].callId = None
                /\ Become(MapCall([Now EXCEPT !.session[s].callId = c], c, s))
  <2>1. PICK s \in OnAddresses(e) : Become(MapCall([Now EXCEPT !.session[s].callId = c], c, s))
    BY <1>1
  <2>2. s \in Session /\ Now.session[s] # None
    BY PhoneLeads, LedTo
  <2>3. PICK v : v = [Now EXCEPT !.session[s].callId = c]
    OBVIOUS
  <2>4. Tells(Now, v)
    BY <1>0, <2>2, <2>3, QuietEdits
  <2>5. v \in State
    <3>1. PICK r \in SessionRecord : r = Now.session[s]
      BY <1>0, <2>2, StateFacts
    <3>2. [r EXCEPT !.callId = c] \in SessionRecord
      BY <1>0 DEF SessionRecord
    <3>3. v = Put(Now, s, [r EXCEPT !.callId = c])
      BY <2>3, <3>1 DEF Put
    <3> QED
      BY <1>0, <2>2, <3>2, <3>3, PutIs
  <2>6. Tells(v, MapCall(v, c, s))
    BY <1>0, <2>2, <2>5, MappedTells
  <2> QED
    BY <2>1, <2>3, <2>4, <2>6, TellsTwice
<1>2. CASE \E i \in Session, previous \in OnAddresses(e) \cup {None} :
                /\ FreeId(i)
                /\ previous # None => conf.stopPrevious
                /\ LET t == NewSkinnySession(Now, i, c, e)
                       t1 == IF previous = None THEN t ELSE Stop(t, previous)
                   IN  Become(MapCall(t1, c, i))
  <2>1. PICK i \in Session, previous \in OnAddresses(e) \cup {None} :
                /\ FreeId(i)
                /\ LET t == NewSkinnySession(Now, i, c, e)
                       t1 == IF previous = None THEN t ELSE Stop(t, previous)
                   IN  Become(MapCall(t1, c, i))
    BY <1>2
  <2>2. PICK r : r = [NewSession("Skinny") EXCEPT !.callId = c, !.endpoint = e]
    OBVIOUS
  <2>3. PICK v : v = Put(Now, i, r)
    OBVIOUS
  <2>4. PICK w : w = IF previous = None THEN v ELSE StopEach(v, {previous})
    OBVIOUS
  <2>5. Become(MapCall(w, c, i))
    BY <2>1, <2>2, <2>3, <2>4 DEF NewSkinnySession, Stop
  <2>6. Now.session[i] = None /\ i \notin Now.open
    BY <1>0, <2>1 DEF FreeId, Unused
  <2>7. r \in SessionRecord /\ Shape(conf, i, r) /\ ~r.started /\ ~r.stopped /\ Fresh(r) /\ r # None
    BY <1>0, <2>2, NewSkinnyIs, SkinnyFresh
  <2>8. /\ Sound(conf, v) /\ v.session[i] = r
        /\ \A y \in Session \ {i} : v.session[y] = Now.session[y]
    BY <2>3, <2>6, <2>7, PutNew
  <2>9. Tells(Now, v)
    BY <1>0, <2>3, <2>6, <2>7, PutTells
  <2>10. Tells(v, w) /\ w \in State
    <3>1. CASE previous = None
      BY <2>4, <2>8, <3>1 DEF Tells, Sound
    <3>2. CASE previous # None
      <4>1. previous \in Session /\ Now.session[previous] # None
        BY <3>2, PhoneLeads, LedTo
      <4>2. v.session[previous] # None
        BY <2>7, <2>8, <4>1
      <4>3. w = StopEach(v, {previous})
        BY <2>4, <3>2
      <4>4. Tells(v, w)
        BY <2>8, <4>1, <4>2, <4>3, StopTells
      <4>5. Sound(conf, w)
        BY <2>8, <4>1, <4>2, <4>3, StopSound
      <4> QED
        BY <4>4, <4>5 DEF Sound
    <3> QED
      BY <3>1, <3>2
  <2>11. Tells(w, MapCall(w, c, i))
    BY <1>0, <2>10, MappedTells
  <2> QED
    BY <2>5, <2>9, <2>10, <2>11, TellsTwice
<1> QED
  BY <1>1, <1>2 DEF ReportSkinnyCallInfo

LEMMA SkinnyMediaTells ==
  ASSUME Sound(conf, Now), conf \in ConfigRecord, NEW e \in Address, NEW a \in Address \cup {None},
         ReportSkinnyMedia(e, a)
  PROVE  \E u : Become(u) /\ Tells(Now, u)
<1>0. Now.session = session /\ Now.open = open /\ Now \in State
  BY DEF Now, Sound
<1>1. CASE \E s \in OfPhone(e) :
          /\ session[s].addr = None \/ conf.skinnyDynamic
          /\ Become(SetMediaAddress(Now, s, a))
  BY <1>1, PhoneLeads, LedTo, SetTells
<1>2. CASE /\ OfPhone(e) = {} /\ conf.lateInfo
           /\ \E i \in Session :
             /\ FreeId(i)
             /\ Become(SetMediaAddress(NewSkinnySession(Now, i, None, e), i, a))
  <2>1. PICK i \in Session :
             /\ FreeId(i)
             /\ Become(SetMediaAddress(NewSkinnySession(Now, i, None, e), i, a))
    BY <1>2
  <2>2. PICK r : r = [NewSession("Skinny") EXCEPT !.callId = None, !.endpoint = e]
    OBVIOUS
  <2>3. PICK v : v = Put(Now, i, r)
    OBVIOUS
  <2>4. Now.session[i] = None /\ i \notin Now.open
    BY <1>0, <2>1 DEF FreeId, Unused
  <2>5. r \in SessionRecord /\ Shape(conf, i, r) /\ ~r.started /\ ~r.stopped /\ Fresh(r) /\ r # None
    BY <1>2, <2>2, NewSkinnyIs, SkinnyFresh
  <2>6. Sound(conf, v) /\ v.session[i] = r /\ Tells(Now, v)
    BY <1>0, <2>3, <2>4, <2>5, PutNew, PutTells
  <2>7. Tells(v, SetMediaAddress(v, i, a))
    BY <2>5, <2>6, SetTells
  <2> QED
    BY <2>1, <2>2, <2>3, <2>6, <2>7, TellsTwice DEF NewSkinnySession
<1> QED
  BY <1>1, <1>2 DEF ReportSkinnyMedia

\* A command stops a session; the copy that goes on has said nothing yet.
LEMMA StopCaptureHears ==
  ASSUME Sound(conf, Now), conf \in ConfigRecord, NEW s, StopCapture(s)
  PROVE  \E u : Become(u) /\ Hears(Now, u)
<1>0. Now.session = session /\ Now.byAddr = byAddr /\ Now.open = open /\ Now \in State
  BY DEF Now, Sound
<1>1. PICK i \in Session :
          /\ FreeId(i)
          /\ LET r == Copied(session[s])
                 t == Stop(Put(Now, i, r), s)
             IN  Become(MapCall(MapAddr(t, r.addr, i), r.callId, i))
  BY DEF StopCapture
<1>2. s \in Session /\ Leads(Now, s) /\ \E a \in Address : byAddr[a] = s
  BY PhoneLeads DEF StopCapture
<1>3. PICK o \in SessionRecord : o = Now.session[s] /\ Shape(conf, s, o)
  BY <1>0, <1>2, LedTo, StateFacts DEF Sound
<1>4. PICK r : r = Copied(o)
  OBVIOUS
<1>5. /\ r \in SessionRecord /\ Shape(conf, i, r) /\ ~r.started /\ ~r.stopped
      /\ r.callId = o.callId /\ r.addr = o.addr /\ r.addrs = o.addrs /\ r.proto = o.proto /\ r.rtp = 0
  BY <1>3, <1>4, CopiedIs
<1>6. r.addr \in Address /\ r.callId \in Call \cup {None} /\ r # None
  <2>1. PICK a \in Address : byAddr[a] = s
    BY <1>2
  <2>2. a \in o.addrs
    BY <1>0, <1>2, <1>3, <2>1, SessionsAssumption DEF Sound
  <2>3. o.addrs \subseteq Address /\ o.callId \in Call \cup {None}
    BY DEF SessionRecord
  <2>4. o.addr \in o.addrs
    BY <1>3, <2>2 DEF Shape
  <2> QED
    BY <1>5, <2>3, <2>4, NoneAssumption
<1>7. AllRight(Now) => Fresh(r)
  <2> HAVE AllRight(Now)
  <2>1. Now.session[s] # None
    BY <1>3, NoneAssumption
  <2>2. Right(o)
    BY <1>2, <1>3, <2>1 DEF AllRight
  <2> QED
    BY <1>5, <2>2 DEF Right, Fresh
<1>8. PICK t : t = Put(Now, i, r)
  OBVIOUS
<1>9. PICK v : v = StopEach(t, {s})
  OBVIOUS
<1>10. PICK w : w = MapAddr(v, r.addr, i)
  OBVIOUS
<1>11. PICK u : u = MapCall(w, r.callId, i)
  OBVIOUS
<1>12. Become(u)
  BY <1>0, <1>1, <1>3, <1>4, <1>8, <1>9, <1>10, <1>11 DEF Stop
<1>13. Now.session[i] = None /\ i \notin Now.open /\ i # s
  BY <1>0, <1>1, <1>3, NoneAssumption DEF FreeId, Unused
<1>14. AllRight(Now) => Tells(Now, t)
  BY <1>0, <1>7, <1>8, <1>13, PutTells
<1>15. Sound(conf, t) /\ t.session[s] # None
  <2>1. Sound(conf, t) /\ \A y \in Session \ {i} : t.session[y] = Now.session[y]
    BY <1>5, <1>8, <1>13, PutNew
  <2> QED
    BY <1>2, <1>3, <1>13, <2>1, NoneAssumption
<1>16. Tells(t, v) /\ v \in State
  <2>1. Tells(t, v)
    BY <1>2, <1>9, <1>15, StopTells
  <2>2. Sound(conf, v)
    BY <1>2, <1>9, <1>15, StopSound
  <2> QED
    BY <2>1, <2>2 DEF Sound
<1>17. Tells(v, w) /\ w \in State
  BY <1>6, <1>10, <1>16, MappedTells, MapAddrIs
<1>18. Tells(w, u)
  BY <1>6, <1>11, <1>17, MappedTells
<1>19. AllRight(Now) => Tells(Now, u)
  BY <1>14, <1>16, <1>17, <1>18, TellsTwice
<1>20. Hears(Now, u)
  BY <1>19 DEF Tells, Hears
<1> QED
  BY <1>12, <1>20

LEMMA SweptTells ==
  ASSUME NEW t, Sound(conf, t), NEW all, NEW u, u = Swept(t, all)
  PROVE  Tells(t, u)
<1>1. PICK S : S = {s \in Session : /\ \E a \in Address : t.byAddr[a] = s
                                 /\ (all \/ t.session[s].age > AddrTimeout(t.session[s]))}
  OBVIOUS
<1>2. PICK v : v = StopEach(t, S)
  OBVIOUS
<1>3. PICK T : T = {s \in Session : /\ \E c \in Call \cup {None} : v.byCall[c] = s
                                 /\ (all \/ v.session[s].age > SignallingTimeout(v.session[s]))}
  OBVIOUS
<1>4. u = StopEach(v, T)
  BY <1>1, <1>2, <1>3 DEF Swept
<1>5. S \subseteq Session /\ \A s \in S : t.session[s] # None
  BY <1>1, LedTo DEF Leads
<1>6. Tells(t, v) /\ Sound(conf, v)
  BY <1>2, <1>5, StopTells, StopSound
<1>7. T \subseteq Session /\ \A s \in T : v.session[s] # None
  BY <1>3, <1>6, LedTo DEF Leads
<1>8. Tells(v, u)
  BY <1>4, <1>6, <1>7, StopTells
<1> QED
  BY <1>6, <1>8, TellsTwice

\* When time passes only the ages change.
LEMMA ElapseTells ==
  ASSUME Sound(conf, Now), Elapse,
         NEW v, v = [Now EXCEPT !.session = [s \in Session |->
            IF session[s] = None THEN None
            ELSE [session[s] EXCEPT !.age = IF @ = MaxAge THEN @ ELSE @ + 1]]]
  PROVE  Tells(Now, v)
<1> DEFINE new == [s \in Session |->
            IF session[s] = None THEN None
            ELSE [session[s] EXCEPT !.age = IF @ = MaxAge THEN @ ELSE @ + 1]]
<1>0. Now \in State /\ Now.session = session
  BY DEF Sound, Now
<1>1. Sound(conf, v)
  BY ElapseGoes DEF Goes
<1>2. ASSUME NEW s \in Session, session[s] # None
      PROVE  SameTalk(session[s], new[s])
  <2>1. PICK r \in SessionRecord : r = session[s]
    BY <1>0, <1>2, StateFacts
  <2>2. PICK n : n = IF r.age = MaxAge THEN r.age ELSE r.age + 1
    OBVIOUS
  <2>3. new[s] = [r EXCEPT !.age = n]
    BY <1>2, <2>1, <2>2
  <2>4. SameTalk(r, [r EXCEPT !.age = n])
    BY DEF SameTalk, SessionRecord
  <2> QED
    BY <2>1, <2>3, <2>4
<1>3. \A s \in Session : new[s] # None => session[s] # None
  OBVIOUS
<1>4. v = [Now EXCEPT !.session = new]
  OBVIOUS
<1> HIDE DEF new
<1>5. v.session = new /\ v.open = Now.open /\ v.misheard = Now.misheard
  BY <1>0, <1>4 DEF State
<1>6. Quiet(Now, v)
  BY <1>0, <1>2, <1>3, <1>5 DEF Quiet
<1> QED
  BY <1>0, <1>1, <1>6, QuietTells DEF Sound

\* What no map refers to any more is deleted.
LEMMA KeptTells ==
  ASSUME NEW t, NEW u, NEW v, Hears(t, u), v.open = u.open, v.misheard = u.misheard,
         \A s \in Session : v.session[s] # None => v.session[s] = u.session[s]
  PROVE  Hears(t, v)
<1>1. AllRight(u) => AllRight(v)
  BY DEF AllRight
<1>2. InTurn(u) => InTurn(v)
  BY DEF InTurn
<1> QED
  BY <1>1, <1>2 DEF Hears

\* Every handler.
LEMMA NextHears ==
  ASSUME Sound(conf, Now), conf \in ConfigRecord, Next
  PROVE  Elapse \/ \E u : Become(u) /\ Hears(Now, u)
<1>0. /\ Now.byAddr = byAddr /\ Now.byCall = byCall /\ Now.session = session /\ Now \in State
      /\ conf.media \subseteq Address \cup {None} /\ conf.phones \subseteq Address
  BY DEF Now, Sound, ConfigRecord
<1>1. \A c \in Call \cup {None} : byCall[c] # None =>
         byCall[c] \in Session /\ Now.session[byCall[c]] # None
  <2> TAKE c \in Call \cup {None}
  <2> HAVE byCall[c] # None
  <2>1. byCall[c] \in Session /\ Leads(Now, byCall[c])
    BY <1>0, StateFacts DEF Leads
  <2> QED
    BY <2>1, LedTo
<1>2. ASSUME NEW u, Become(u), Tells(Now, u)
      PROVE  \E v : Become(v) /\ Hears(Now, v)
  BY <1>2, TellsHears
<1>3. ASSUME NEW p \in Packet, ReportRtpPacket(p)
      PROVE  \E u : Become(u) /\ Hears(Now, u)
  <2>1. p \in PacketRecord
    BY DEF Packet, PacketRecord, ConfigRecord
  <2> QED
    BY <1>3, <2>1, PacketHears
<1>4. ASSUME NEW c \in SipCall, NEW a \in conf.media, NEW sendonly \in BOOLEAN,
             NEW demand \in BOOLEAN, ReportSipInvite(c, a, sendonly, demand)
      PROVE  \E u : Become(u) /\ Hears(Now, u)
  BY <1>0, <1>2, <1>4, InviteTells
<1>5. ASSUME NEW c \in SipCall, NEW a \in conf.media,
             ReportSipSessionProgress(c, a) \/ ReportSip200Ok(c, a)
      PROVE  \E u : Become(u) /\ Hears(Now, u)
  <2>1. PICK s \in Session : s = byCall[c] /\ Now.session[s] # None
    BY <1>1, <1>5 DEF ReportSipSessionProgress, ReportSip200Ok, Call
  <2>2. Become(SetMediaAddress(Now, s, a))
    BY <1>5, <2>1 DEF ReportSipSessionProgress, ReportSip200Ok
  <2>3. Tells(Now, SetMediaAddress(Now, s, a))
    BY <1>0, <2>1, SetTells
  <2> QED
    BY <1>2, <2>2, <2>3
<1>6. ASSUME NEW s \in Session, Now.session[s] # None, Become(Stop(Now, s))
      PROVE  \E u : Become(u) /\ Hears(Now, u)
  <2>1. Tells(Now, StopEach(Now, {s}))
    BY <1>6, StopTells
  <2> QED
    BY <1>2, <1>6, <2>1 DEF Stop
<1>7. ASSUME NEW c \in SipCall, ReportSipBye(c)
      PROVE  \E u : Become(u) /\ Hears(Now, u)
  BY <1>1, <1>6, <1>7 DEF ReportSipBye, Call
<1>8. ASSUME NEW c \in SkinnyCall, NEW e \in conf.phones, ReportSkinnyCallInfo(c, e)
      PROVE  \E u : Become(u) /\ Hears(Now, u)
  BY <1>0, <1>2, <1>8, CallInfoTells
<1>9. ASSUME NEW e \in conf.phones, NEW a \in conf.media, ReportSkinnyMedia(e, a)
      PROVE  \E u : Become(u) /\ Hears(Now, u)
  BY <1>0, <1>2, <1>9, SkinnyMediaTells
<1>10. ASSUME NEW c \in SkinnyCall, NEW e, ReportSkinnyStopMedia(c, e)
       PROVE  \E u : Become(u) /\ Hears(Now, u)
  <2>1. PICK s \in IF byCall[c] # None THEN {byCall[c]} ELSE OfPhone(e) : Become(Stop(Now, s))
    BY <1>10 DEF ReportSkinnyStopMedia
  <2>2. s \in Session /\ Now.session[s] # None
    BY <1>1, PhoneLeads, LedTo DEF Call
  <2> QED
    BY <1>6, <2>1, <2>2
<1>11. ASSUME NEW c \in SkinnyCall, SoftKeyTransfer(c)
       PROVE  \E u : Become(u) /\ Hears(Now, u)
  BY <1>1, <1>6, <1>11 DEF SoftKeyTransfer, Call
<1>12. ASSUME NEW c \in SkinnyCall, SoftKeyHold(c) \/ SoftKeyResume(c)
       PROVE  \E u : Become(u) /\ Hears(Now, u)
  <2>1. PICK s \in Session : s = byCall[c] /\ Now.session[s] # None
    BY <1>1, <1>12 DEF SoftKeyHold, SoftKeyResume, Call
  <2>2. Become(GoOnHold(Now, s)) \/ Become(GoOffHold(Now, s))
    BY <1>12, <2>1 DEF SoftKeyHold, SoftKeyResume
  <2>3. Tells(Now, GoOnHold(Now, s)) /\ Tells(Now, GoOffHold(Now, s))
    BY <1>0, <2>1, HoldTells, QuietEdits
  <2> QED
    BY <1>2, <2>2, <2>3
<1>13. ASSUME NEW s \in Session, StartCapture(s) \/ PauseCapture(s)
       PROVE  \E u : Become(u) /\ Hears(Now, u)
  <2>1. PICK x \in BOOLEAN : Become([Now EXCEPT !.session[s].keep = x])
    BY <1>13 DEF StartCapture, PauseCapture
  <2>2. Now.session[s] # None
    BY <1>13, PhoneLeads, LedTo DEF StartCapture, PauseCapture
  <2>3. Tells(Now, [Now EXCEPT !.session[s].keep = x])
    BY <1>0, <2>2, QuietEdits
  <2> QED
    BY <1>2, <2>1, <2>3
<1>14. ASSUME NEW s \in Session, StopCapture(s)
       PROVE  \E u : Become(u) /\ Hears(Now, u)
  BY <1>14, StopCaptureHears
<1>15. ASSUME Hoover \/ StopAll
       PROVE  \E u : Become(u) /\ Hears(Now, u)
  BY <1>2, <1>15, SweptTells DEF Hoover, StopAll
<1>16. CASE \E p \in Packet : ReportRtpPacket(p)
  BY <1>3, <1>16
<1>17. CASE \E c \in conf.calls \cap SipCall :
          \/ \E a \in conf.media, sendonly, demand \in BOOLEAN :
                /\ sendonly => "hold" \in conf.inputs
                /\ demand => ~conf.lookBack
                /\ ReportSipInvite(c, a, sendonly, demand)
          \/ \E a \in conf.media : ReportSipSessionProgress(c, a) \/ ReportSip200Ok(c, a)
          \/ ReportSipBye(c)
  BY <1>4, <1>5, <1>7, <1>17
<1>18. CASE \E c \in conf.calls \cap SkinnyCall, e \in conf.phones :
          \/ ReportSkinnyCallInfo(c, e)
          \/ \E a \in conf.media : ReportSkinnyMedia(e, a)
          \/ ReportSkinnyStopMedia(c, e)
          \/ SoftKeyTransfer(c)
          \/ "hold" \in conf.inputs /\ (SoftKeyHold(c) \/ SoftKeyResume(c))
  BY <1>8, <1>9, <1>10, <1>11, <1>12, <1>18
<1>19. CASE \E s \in Session : StartCapture(s) \/ PauseCapture(s) \/ StopCapture(s)
  BY <1>13, <1>14, <1>19
<1>20. CASE Elapse \/ Hoover
  BY <1>15, <1>20
<1>21. CASE StopAll
  BY <1>15, <1>21
<1> QED
  BY <1>16, <1>17, <1>18, <1>19, <1>20, <1>21 DEF Next

\* The invariant: every session is right, and every port has heard its recording in turn
\* where what the maps lead to goes on.
TalkInv ==
  /\ AllRight(Now)
  /\ StartsOnce /\ Unbroken(conf) /\ ~StaleIn(Now) => InTurn(Now)

LEMMA TalkInit == Init => TalkInv
<1> SUFFICES ASSUME Init  PROVE TalkInv
  OBVIOUS
<1>1. /\ \A s \in Session : Now.session[s] = None
      /\ Now.misheard = {}
  BY DEF Now, Init
<1> QED
  BY <1>1 DEF TalkInv, AllRight, InTurn

LEMMA TalkStep == SessionsInv /\ TalkInv /\ [Next]_vars => TalkInv'
<1> SUFFICES ASSUME SessionsInv, TalkInv, [Next]_vars  PROVE TalkInv'
  OBVIOUS
<1>0. /\ conf \in ConfigRecord /\ Sound(conf, Now)
      /\ Unbroken(conf) /\ ~StaleIn(Now) => Tidy(Now)
  BY SessionsAssumption DEF SessionsInv
<1>1. ASSUME NEW v, Now' = v, conf' = conf, Hears(Now, v), StaleIn(Now) => StaleIn(v)
      PROVE  TalkInv'
  <2>1. AllRight(v)
    BY <1>1 DEF Hears, TalkInv
  <2>2. StartsOnce /\ Unbroken(conf) /\ ~StaleIn(v) => InTurn(v)
    BY <1>0, <1>1 DEF Hears, TalkInv
  <2>3. AllRight(Now)'
    BY <1>1, <2>1 DEF AllRight, Right, StartsOnce
  <2>4. (StartsOnce /\ Unbroken(conf) /\ ~StaleIn(Now))' => InTurn(Now)'
    BY <1>1, <2>2 DEF InTurn, StartsOnce, Unbroken, StaleIn
  <2> QED
    BY <2>3, <2>4 DEF TalkInv
<1>2. CASE Next
  <2>1. PICK v : Now' = v /\ conf' = conf /\ Goes(Now, v)
    BY <1>0, <1>2, NextKeeps
  <2>2. StaleIn(Now) => StaleIn(v)
    BY <2>1 DEF Goes
  <2>3. CASE Elapse
    <3>1. PICK u : u = [Now EXCEPT !.session = [s \in Session |->
            IF session[s] = None THEN None
            ELSE [session[s] EXCEPT !.age = IF @ = MaxAge THEN @ ELSE @ + 1]]]
      OBVIOUS
    <3>2. Now' = u
      BY <2>3, <3>1 DEF Now, Elapse
    <3>3. Hears(Now, u)
      BY <1>0, <2>3, <3>1, ElapseTells, TellsHears
    <3> QED
      BY <1>1, <2>1, <2>2, <3>2, <3>3
  <2>4. CASE \E u : Become(u) /\ Hears(Now, u)
    <3>1. PICK u : Become(u) /\ Hears(Now, u)
      BY <2>4
    <3>2. v.session = session' /\ v.open = open' /\ v.misheard = misheard'
      BY <2>1 DEF Now
    <3>3. /\ v.open = u.open /\ v.misheard = u.misheard
          /\ \A s \in Session : v.session[s] # None => v.session[s] = u.session[s]
      BY <3>1, <3>2 DEF Become
    <3>4. Hears(Now, v)
      BY <3>1, <3>3, KeptTells
    <3> QED
      BY <1>1, <2>1, <2>2, <3>4
  <2> QED
    BY <1>0, <1>2, <2>3, <2>4, NextHears
<1>3. CASE UNCHANGED vars
  <2>1. PICK v : v = Now
    OBVIOUS
  <2>2. Now' = v /\ conf' = conf
    BY <1>3, <2>1 DEF vars, Now
  <2>3. Hears(Now, v) /\ (StaleIn(Now) => StaleIn(v))
    BY <2>1 DEF Hears
  <2> QED
    BY <1>1, <2>2, <2>3
<1> QED
  BY <1>2, <1>3

LEMMA TalkAlways == Spec => []TalkInv
<1> QED
  BY SessionsAlways, TalkInit, TalkStep, PTL DEF Spec

\* In look-back mode every call that has talked is recorded, whatever the order of packets
\* and signalling, and with DiscardUnidirectionalCalls none of which one side only was
\* heard (AddRtpPacket, DetectChannel).  A raw RTP session must not start at its first
\* packet: with that count a session of signalling that has one packet when an invite calls
\* it raw RTP is past the count (ReportSipInvite).
THEOREM TalkRecorded ==
  ASSUME MinPackets >= 2
  PROVE  Spec => []RecordsWhatTalks
<1>1. TalkInv => RecordsWhatTalks
  <2> HAVE TalkInv
  <2> SUFFICES ASSUME NEW s \in Session, session[s] # None
               PROVE  /\ conf.discard /\ session[s].started =>
                            session[s].s1 # None /\ session[s].s2 # None
                      /\ conf.lookBack /\ ~conf.discard /\ session[s].rtp = MaxCount =>
                            session[s].started
    BY DEF RecordsWhatTalks
  <2>1. Right(session[s])
    BY NowIs DEF TalkInv, AllRight
  <2>2. \A proto : MaxCount >= Threshold(proto)
    BY SessionsAssumption DEF Threshold
  <2> QED
    BY <2>1, <2>2 DEF Right
<1> QED
  BY <1>1, TalkAlways, PTL

\* A port hears start, audio and stop in turn, whatever packets, signalling, commands and
\* time-outs come in between, where the settings keep a session from a second start (Start,
\* AddRtpPacket, Stop, StopCapture).
THEOREM PortsHearInTurn == Spec => [](Unbroken(conf) => HeardInTurn)
<1>1. TalkInv => (Unbroken(conf) => HeardInTurn)
  BY NowIs DEF TalkInv, InTurn, HeardInTurn
<1> QED
  BY <1>1, TalkAlways, PTL

===============================================================================
