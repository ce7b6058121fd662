---------------------------- MODULE VoIpSessions ----------------------------
(***************************************************************************)
(* The sessions of the VoIP capture plugin (VoIpSession.cpp): the calls    *)
(* that SIP and Skinny signalling announce and the RTP streams seen on the *)
(* wire, tied together by two maps, m_byIpAndPort and m_byCallId, and      *)
(* reported to the capture ports of the recorder.  Every handler runs      *)
(* under the mutex of the plugin (VoIp.cpp), so a handler is one action.   *)
(*                                                                         *)
(* Data: a media address is an IP address with its only media port, a      *)
(* packet is its two addresses and what its numbers say of it, ages stand  *)
(* for m_lastUpdated.  Parties, tags, names and payloads are left out.     *)
(***************************************************************************)
EXTENDS Naturals, FiniteSets

CONSTANTS Address,        \* media addresses on the wire
          SipCall,        \* SIP call ids
          SkinnyCall,     \* Skinny call ids
          Session,        \* tracking ids, one for each session alive at a time
          None,           \* no address, no call id, no session, no stream
          Configs,        \* the configurations of the plugin, one for a run
          MinPackets,     \* RtpMinAmountOfPacketsBeforeStart
          FewPackets,     \* the 5 packets of the choice between two sessions
          MaxCount,       \* bound: the counters of packets stop there
          MaxAge,         \* bound: ages stop there
          RawTimeout, TalkTimeout, RingTimeout, HoldTimeout

Call == SipCall \cup SkinnyCall
Stream == Address \X Address
\* What a packet is like: the next one of its side, after a gap, a duplicate, of a broken
\* sequence, of a dynamic payload type, or of a stream that takes a side over.
Kinds == {"next", "gap", "duplicate", "broken", "dynamic", "takeover1", "takeover2"}

ConfigRecord ==
    [lookBack: BOOLEAN, discard: BOOLEAN, multi: BOOLEAN, useSecond: BOOLEAN,
     trackRaw: BOOLEAN, breaks: BOOLEAN, tracked: SUBSET Address, skinnyTransfer: BOOLEAN,
     sipTransfer: BOOLEAN, inviteOffHold: BOOLEAN, dynamic: BOOLEAN, lateInfo: BOOLEAN,
     stopPrevious: BOOLEAN, skinnyDynamic: BOOLEAN, ignoreStopMedia: BOOLEAN,
     inputs: SUBSET {"hold", "commands", "time"}, kinds: SUBSET Kinds, calls: SUBSET Call,
     phones: SUBSET Address, media: SUBSET (Address \cup {None}), streams: SUBSET Stream,
     most: Nat]

ASSUME SessionsAssumption ==
    /\ Configs \subseteq ConfigRecord
    /\ None \notin Address \cup SipCall \cup SkinnyCall \cup Session
    /\ SipCall \cap SkinnyCall = {}
    /\ {MinPackets, FewPackets, 2} \subseteq 1 .. MaxCount - 1
    /\ MaxCount \in Nat /\ MaxAge \in Nat
    /\ {RawTimeout, TalkTimeout, RingTimeout, HoldTimeout} \subseteq 0 .. MaxAge - 1

VARIABLES session,        \* the sessions alive, None for a free tracking id
          byAddr,         \* m_byIpAndPort
          byCall,         \* m_byCallId; None is the empty call id
          open,           \* the capture ports a start has opened; None is port ""
          misheard,       \* ports told something out of turn
          conf            \* the configuration, read at startup

vars == <<session, byAddr, byCall, open, misheard, conf>>

SessionRecord ==
    [proto: {"RawRtp", "Sip", "Skinny"}, callId: Call \cup {None},
     addr: Address \cup {None}, addrs: SUBSET Address, endpoint: Address \cup {None},
     rtp: 0 .. MaxCount, ignored: 0 .. MaxCount, age: 0 .. MaxAge,
     port: Session \cup {None}, metadata: BOOLEAN,
     started: BOOLEAN, stopped: BOOLEAN, keep: BOOLEAN, early: BOOLEAN,
     waitS2: BOOLEAN, hold: BOOLEAN, last: BOOLEAN,
     s1: Stream \cup {None}, s2: Stream \cup {None}]

ASSUME NoneAssumption == None \notin SessionRecord /\ None \notin Stream

----------------------------------------------------------------------------
(* The state a handler works on, and what a session tells its port.        *)

Now == [session |-> session, byAddr |-> byAddr, byCall |-> byCall,
        open |-> open, misheard |-> misheard]

Put(t, s, r) == [t EXCEPT !.session[s] = r]

\* A handler returns: sessions that no map refers to any more are deleted.
Mapped(t) == {t.byAddr[a] : a \in Address} \cup {t.byCall[c] : c \in Call \cup {None}}
Become(result) == \E t \in {result} :
    /\ session' = [s \in Session |-> IF s \in Mapped(t) THEN t.session[s] ELSE None]
    /\ byAddr' = t.byAddr /\ byCall' = t.byCall
    /\ open' = t.open /\ misheard' = t.misheard
    /\ UNCHANGED conf

TellStart(t, p) ==
    [t EXCEPT !.open = @ \cup {p},
              !.misheard = IF p \in t.open THEN @ \cup {p} ELSE @]
TellStop(t, p) ==
    [t EXCEPT !.open = @ \ {p},
              !.misheard = IF p \notin t.open THEN @ \cup {p} ELSE @]
TellAudio(t, p) ==
    [t EXCEPT !.misheard = IF p \notin t.open THEN @ \cup {p} ELSE @]

NewSession(proto) ==
    [proto |-> proto, callId |-> None, addr |-> None, addrs |-> {}, endpoint |-> None,
     rtp |-> 0, ignored |-> 0, age |-> 0, port |-> None, metadata |-> FALSE,
     started |-> FALSE, stopped |-> FALSE, keep |-> conf.lookBack, early |-> FALSE,
     waitS2 |-> FALSE, hold |-> FALSE, last |-> FALSE, s1 |-> None, s2 |-> None]

\* A tracking id no session and no open port has: m_alphaCounter.GetNext().
Unused == {i \in Session : session[i] = None /\ i \notin open}
FreeId(s) == s \in Unused /\ Cardinality(Session \ Unused) < conf.most

----------------------------------------------------------------------------
(* One session.                                                            *)

Start(t, s) == TellStart(Put(t, s, [t.session[s] EXCEPT !.started = TRUE]),
                         t.session[s].port)

GoOnHold(t, s) == [t EXCEPT !.session[s].hold = @ \/ t.session[s].started]
GoOffHold(t, s) == [t EXCEPT !.session[s].hold = FALSE, !.session[s].age = 0]

\* Enough to start: at once, or when the other side is heard.
StartOrWait(t, s) ==
    IF conf.discard THEN [t EXCEPT !.session[s].waitS2 = TRUE] ELSE Start(t, s)

Bump(n) == IF n = MaxCount THEN n ELSE n + 1

\* The side a stream is on: 1, 2, or 0 for a third stream.
Channel(r, stream) ==
    CASE r.s1 = None \/ r.s1 = stream -> 1
      [] r.s1 # None /\ r.s1 # stream /\ (r.s2 = None \/ r.s2 = stream) -> 2
      [] OTHER -> 0

IsFirst(r, stream) == r.s1 = None \/ (r.s1 # stream /\ r.s2 = None)

\* DetectChannel: the first packet of a side is kept; side 2 may start the session.
DetectChannel(t, s, stream) ==
    LET r == t.session[s]
        heard == IF Channel(r, stream) = 1
                 THEN [t EXCEPT !.session[s].s1 = stream]
                 ELSE [t EXCEPT !.session[s].s2 = stream]
    IN  CASE ~IsFirst(r, stream) -> t
          [] IsFirst(r, stream) /\ Channel(r, stream) = 2 /\ conf.discard /\ r.waitS2 ->
                Start([heard EXCEPT !.session[s].early = @ \/ ~conf.lookBack], s)
          [] OTHER -> heard

\* In non look-back mode a session starts at once.
StartsEarly(r) ==
    /\ ~conf.lookBack /\ ~r.early
    /\ r.proto # "RawRtp" \/ (conf.trackRaw /\ r.ignored = MinPackets)

\* The first packet names the session and the port it reports to.
Named(t, s) ==
    IF t.session[s].metadata THEN t
    ELSE [t EXCEPT !.session[s].metadata = TRUE, !.session[s].port = s]

Prepared(t, s) ==
    CASE ~StartsEarly(t.session[s]) -> Named(t, s)
      [] StartsEarly(t.session[s]) /\ conf.discard -> StartOrWait(Named(t, s), s)
      [] OTHER -> [StartOrWait(Named(t, s), s) EXCEPT !.session[s].early = TRUE]

\* A packet of a session that does not keep its audio.
Ignored(t, s, p) ==
    LET t1 == IF t.session[s].early THEN t ELSE DetectChannel(t, s, p.stream)
    IN  [t1 EXCEPT !.session[s].age = 0, !.session[s].ignored = Bump(@)]

\* What AddRtpPacket dismisses before it looks at the two sides.
NotOfPhone(r, p) ==
    r.proto = "Skinny" /\ p.stream[1] # r.endpoint /\ p.stream[2] # r.endpoint
HoldNoise(r, p) == r.hold /\ r.last /\ p.kind = "dynamic"

Resumed(t, s, p) ==
    LET r == t.session[s]
        t1 == IF r.hold /\ r.last /\ p.kind = "gap" THEN GoOffHold(t, s) ELSE t
    IN  [t1 EXCEPT !.session[s].last = TRUE]

EnoughPackets_OrMore(r) ==
    r.rtp >= CASE r.proto = "RawRtp" -> MinPackets
               [] r.proto = "Skinny" -> 2
               [] r.proto = "Sip" -> IF conf.discard THEN 1 ELSE 2
EnoughPackets(r) ==
    r.rtp = CASE r.proto = "RawRtp" -> MinPackets
              [] r.proto = "Skinny" -> 2
              [] r.proto = "Sip" -> IF conf.discard THEN 1 ELSE 2

Counted_WantsBoth(t, s) ==
    LET t1 == [t EXCEPT !.session[s].rtp = Bump(@), !.session[s].age = 0]
        t2 == IF conf.lookBack /\ EnoughPackets(t1.session[s]) /\ t1.session[s].s2 # None
              THEN StartOrWait(t1, s) ELSE t1
    IN  IF t2.session[s].started THEN TellAudio(t2, t2.session[s].port) ELSE t2
\* A packet that counts: it may start the session, and is passed on once started.
Counted(t, s) ==
    LET t1 == [t EXCEPT !.session[s].rtp = Bump(@), !.session[s].age = 0]
        t2 == IF conf.lookBack /\ EnoughPackets(t1.session[s]) THEN StartOrWait(t1, s) ELSE t1
    IN  IF t2.session[s].started THEN TellAudio(t2, t2.session[s].port) ELSE t2

\* The part of AddRtpPacket after the dismissals: by side, duplicate, jump or third stream.
Sorted(t, s, p) ==
    LET r == t.session[s]
        t1 == DetectChannel(t, s, p.stream)
        known == Channel(r, p.stream) # 0 /\ ~IsFirst(r, p.stream)
    IN  CASE known /\ (p.again \/ p.kind = "duplicate") -> [t |-> t1, ok |-> TRUE]
          [] known /\ ~p.again /\ p.kind = "broken" -> [t |-> t1, ok |-> ~conf.breaks]
          [] Channel(r, p.stream) = 0 /\ p.kind = "takeover1" ->
                [t |-> Counted([t1 EXCEPT !.session[s].s1 = p.stream], s), ok |-> TRUE]
          [] Channel(r, p.stream) = 0 /\ p.kind = "takeover2" ->
                [t |-> Counted([t1 EXCEPT !.session[s].s2 = p.stream], s), ok |-> TRUE]
          [] Channel(r, p.stream) = 0 /\ p.kind \notin {"takeover1", "takeover2"} ->
                [t |-> t1, ok |-> TRUE]
          [] OTHER -> [t |-> Counted(t1, s), ok |-> TRUE]

\* The result: the state after, and FALSE when the stream breaks the session up.
AddRtpPacket(t, s, p) ==
    LET t1 == Prepared(t, s)
        r == t1.session[s]
        t2 == IF ~conf.lookBack /\ r.rtp = 0 /\ ~r.early THEN StartOrWait(t1, s) ELSE t1
    IN  CASE ~r.keep -> [t |-> Ignored(t1, s, p), ok |-> TRUE]
          [] r.keep /\ (NotOfPhone(r, p) \/ HoldNoise(r, p)) -> [t |-> t2, ok |-> TRUE]
          [] OTHER -> Sorted(Resumed(t2, s, p), s, p)

----------------------------------------------------------------------------
(* The two maps.                                                           *)

Unmap(t, s, A) ==
    [t EXCEPT !.byAddr = [a \in DOMAIN @ |-> IF a \in A /\ @[a] = s THEN None ELSE @[a]]]

\* std::map::insert: an entry that is there stays.
MapAddr(t, a, s) == [t EXCEPT !.byAddr[a] = IF @ = None THEN s ELSE @]
MapCall(t, c, s) == [t EXCEPT !.byCall[c] = IF @ = None THEN s ELSE @]

\* VoIpSession::Stop and VoIpSessions::Stop of every session in S, one after another: each
\* tells its port if it was started, and leaves both maps.  The order does not matter, for
\* all they may have in common is the port without name.
StopEach(t, S) ==
    LET live == {s \in S : t.session[s].started /\ ~t.session[s].stopped}
        ports == {t.session[s].port : s \in live}
        again == {t.session[s].port : s \in
                    {u \in live : \E v \in live \ {u} : t.session[v].port = t.session[u].port}}
    IN  [session |-> [s \in Session |->
            IF s \in S THEN [t.session[s] EXCEPT !.stopped = @ \/ s \in live, !.addrs = {}]
            ELSE t.session[s]],
         byAddr |-> [a \in DOMAIN t.byAddr |->
            IF t.byAddr[a] \in S /\ a \in t.session[t.byAddr[a]].addrs THEN None
            ELSE t.byAddr[a]],
         byCall |-> [c \in DOMAIN t.byCall |->
            IF c # None /\ \E s \in S : t.session[s].callId = c THEN None ELSE t.byCall[c]],
         open |-> t.open \ ports,
         misheard |-> t.misheard \cup again \cup (ports \ t.open)]

Stop_LeavesCall(t, s) == [StopEach(t, {s}) EXCEPT !.byCall = t.byCall]
Stop(t, s) == StopEach(t, {s})

\* May session s have the address that old has?
MayTake(r, old) ==
    \/ old.proto = "RawRtp"
    \/ old.rtp = 0
    \/ r.proto = "Skinny" /\ conf.skinnyTransfer
    \/ r.proto = "Sip" /\ conf.sipTransfer

\* The address is freed.  A raw RTP session that has it ends, for nobody would end it later;
\* one that signalling ends stays and leaves the map.
FreeAddress(t, a) ==
    LET old == t.byAddr[a]
    IN  CASE old = None -> t
          [] old # None /\ t.session[old].proto = "RawRtp" -> Stop(t, old)
          [] OTHER -> Unmap(t, old, {a})

\* Session s has address a, and, without multiple mappings, no other one.
Remap(t, s, a) ==
    LET moved == IF conf.multi THEN t
                 ELSE [Unmap(t, s, {t.session[s].addr}) EXCEPT !.session[s].addrs = {}]
    IN  MapAddr([moved EXCEPT !.session[s].addrs = @ \cup {a}, !.session[s].addr = a], a, s)

KeepsAddresses(t, s, a) ==
    LET old == t.byAddr[a]
    IN  a = None \/ old = s \/ (old # None /\ ~MayTake(t.session[s], t.session[old]))
SetMediaAddress_DropsRaw(t, s, a) ==
    IF KeepsAddresses(t, s, a) THEN t
    ELSE Remap(IF t.byAddr[a] = None THEN t ELSE Unmap(t, t.byAddr[a], {a}), s, a)
SetMediaAddress_TakesNone(t, s, a) ==
    IF t.byAddr[a] # None THEN t ELSE MapAddr([t EXCEPT !.session[s].addr = a], a, s)
\* a = None: the port is zero or the address is in a range not to be used.
SetMediaAddress(t, s, a) ==
    IF KeepsAddresses(t, s, a) THEN t ELSE Remap(FreeAddress(t, a), s, a)

----------------------------------------------------------------------------
(* RTP packets.                                                            *)

\* A packet for the session of one of its two addresses, if there is one.
Deliver(t, s, p) ==
    IF s = None THEN [t |-> t, n |-> 0]
    ELSE LET res == AddRtpPacket(t, s, p)
         IN  IF res.ok THEN [t |-> res.t, n |-> 1] ELSE [t |-> Stop(res.t, s), n |-> 0]

\* The session that survives when the two ends of a stream have one each.  Which way
\* the call goes (m_direction) is not modelled: then it may be either.
Mergers(t, s1, s2, p) ==
    LET r1 == t.session[s1]
        r2 == t.session[s2]
    IN  CASE p.stream[1] \in conf.tracked -> {s1}
          [] p.stream[1] \notin conf.tracked /\ p.stream[2] \in conf.tracked -> {s2}
          [] OTHER ->
               CASE r1.proto = "RawRtp" -> {s2}
                 [] r1.proto # "RawRtp" /\ r2.proto = "RawRtp" -> {s1}
                 [] OTHER -> IF r1.rtp < r2.rtp /\ r1.rtp < FewPackets THEN {s2}
                             ELSE IF r2.rtp < r1.rtp /\ r2.rtp < FewPackets THEN {s1}
                             ELSE {s1, s2}

BothSip(t, s1, s2) ==
    /\ conf.multi
    /\ t.session[s1].proto = "Sip" /\ t.session[s2].proto = "Sip"

\* With multiple mappings the end of the older of two SIP sessions is unmapped, unless
\* this was its first packet.  Which one is newer (m_sipLastInvite) is not modelled.
Separated(t, s1, s2, p) ==
    {IF t.session[s2].rtp # 1 THEN [t EXCEPT !.byAddr[p.stream[2]] = None] ELSE t,
     IF t.session[s1].rtp # 1 THEN [t EXCEPT !.byAddr[p.stream[1]] = None] ELSE t}

\* The one session found may be given the other address of the packet too.
OneFound(t, s, fromSource, p) ==
    LET other == IF fromSource THEN p.stream[2] ELSE p.stream[1]
        t1 == IF conf.useSecond THEN SetMediaAddress(t, s, other) ELSE t
        end == CASE p.stream[2] \in conf.tracked -> p.stream[2]
                 [] p.stream[2] \notin conf.tracked /\ p.stream[1] \in conf.tracked -> p.stream[1]
                 [] OTHER -> None
    IN  IF t1.session[s].rtp = 1 /\ t1.session[s].proto = "Sip"
        THEN SetMediaAddress(t1, s, end) ELSE t1

\* No session knows the packet: a session of its own, without signalling.
RawSession(t, s, p) ==
    LET a == IF p.stream[1] \in conf.tracked THEN p.stream[1] ELSE p.stream[2]
        t1 == SetMediaAddress(Put(t, s, [NewSession("RawRtp") EXCEPT !.endpoint = a]), s, a)
    IN  AddRtpPacket(t1, s, p).t

\* The packet goes to the session of its source, then to that of its destination.
Delivered(p) ==
    LET s1 == byAddr[p.stream[1]]
        d1 == Deliver(Now, s1, p)
        s2 == d1.t.byAddr[p.stream[2]]
        d2 == Deliver(d1.t, s2, [p EXCEPT !.again = (s1 = s2)])
    IN  [t |-> d2.t, n |-> d1.n + d2.n, s1 |-> s1, s2 |-> s2]

ReportRtpPacket(p) ==
    \E d \in {Delivered(p)} :
        \/ /\ d.n = 2 /\ d.s1 # d.s2 /\ BothSip(d.t, d.s1, d.s2)
           /\ \E u \in Separated(d.t, d.s1, d.s2, p) : Become(u)
        \/ /\ d.n = 2 /\ d.s1 # d.s2 /\ ~BothSip(d.t, d.s1, d.s2)
           /\ \E m \in Mergers(d.t, d.s1, d.s2, p) :
                 Become(Stop(d.t, IF m = d.s1 THEN d.s2 ELSE d.s1))
        \/ /\ d.n = 2 /\ d.s1 = d.s2
           /\ Become(d.t)
        \/ /\ d.n = 1
           /\ Become(OneFound(d.t, IF d.s2 # None THEN d.s2 ELSE d.s1, d.s1 # None, p))
        \/ /\ d.n = 0 /\ (conf.lookBack \/ conf.trackRaw)
           /\ \E i \in Session : FreeId(i) /\ Become(RawSession(d.t, i, p))
        \/ /\ d.n = 0 /\ ~(conf.lookBack \/ conf.trackRaw)
           /\ Become(d.t)

----------------------------------------------------------------------------
(* SIP messages.  demand: the invite carries the field that asks for recording.    *)

SoftKeyHold(c) ==
    /\ byCall[c] # None
    /\ Become(GoOnHold(Now, byCall[c]))

\* An invite for a call that has its session: hold, off hold, or a new address.
Reinvite(t, s, a, sendonly, demand, byId) ==
    CASE sendonly -> GoOnHold(t, s)
      [] ~sendonly /\ t.session[s].hold /\ conf.inviteOffHold ->
            SetMediaAddress(GoOffHold(t, s), s, a)
      [] OTHER ->
            LET t1 == IF byId /\ a # t.session[s].addr /\ conf.dynamic
                      THEN SetMediaAddress(t, s, a) ELSE t
            IN  [t1 EXCEPT !.session[s].keep = @ \/ demand]

\* A session on the address that the call of the invite is to take over.
GivesWay(s, c) ==
    \/ session[s].proto = "RawRtp"
    \/ session[s].proto = "Sip" /\ conf.multi
    \/ ~conf.multi /\ session[s].callId # c

\* The old session is called raw RTP so that SetMediaAddress stops it.
Demoted(t, s, c) ==
    IF s # None /\ ~conf.multi /\ t.session[s].callId # c
    THEN [t EXCEPT !.session[s].proto = "RawRtp"] ELSE t

NewSipSession(t, s, c, a, demand, e) ==
    LET r == [NewSession("Sip") EXCEPT !.callId = c, !.keep = @ \/ demand, !.endpoint = e]
    IN  MapCall(SetMediaAddress(Put(t, s, r), s, a), c, s)

ReportSipInvite(c, a, sendonly, demand) ==
    LET s == byAddr[a]
        t == Demoted(Now, s, c)
    IN  \/ /\ s # None /\ ~GivesWay(s, c)
           /\ Become(Reinvite(Now, s, a, sendonly, demand, FALSE))
        \/ /\ s # None => GivesWay(s, c)
           /\ byCall[c] # None
           /\ Become(Reinvite(t, byCall[c], a, sendonly, demand, TRUE))
        \/ /\ s # None => GivesWay(s, c)
           /\ byCall[c] = None
           /\ \E i \in Session, e \in conf.phones \cup {None} :
                 FreeId(i) /\ Become(NewSipSession(t, i, c, a, demand, e))

\* A session progress message names the address of the media.
ReportSipSessionProgress(c, a) ==
    /\ byCall[c] # None
    /\ Become(SetMediaAddress(Now, byCall[c], a))

\* So does a 200 OK, which is passed over once packets have come, unless the
\* address is configured to be dynamic.
ReportSip200Ok(c, a) ==
    /\ byCall[c] # None
    /\ conf.dynamic \/ session[byCall[c]].rtp = 0
    /\ Become(SetMediaAddress(Now, byCall[c], a))

\* A BYE, or a failure other than 407, ends the session of the call.
ReportSipBye(c) ==
    /\ byCall[c] # None
    /\ Become(Stop(Now, byCall[c]))

----------------------------------------------------------------------------
(* Skinny messages: the phone is known by its address.  Of several sessions of a  *)
(* phone the code takes the newest, by times that are not modelled: any of them.  *)

OfPhone(e) == {s \in {byCall[c] : c \in Call \cup {None}} \ {None} : session[s].endpoint = e}
OnAddresses(e) == {s \in {byAddr[a] : a \in Address} \ {None} : session[s].endpoint = e}

NewSkinnySession(t, s, c, e) ==
    Put(t, s, [NewSession("Skinny") EXCEPT !.callId = c, !.endpoint = e])

ReportSkinnyCallInfo(c, e) ==
    /\ byCall[c] = None
    /\ \/ /\ conf.lateInfo
          /\ \E s \in OnAddresses(e) :
                /\ session[s].callId = None
                /\ Become(MapCall([Now EXCEPT !.session[s].callId = c], c, s))
       \/ /\ ~conf.lateInfo \/ OnAddresses(e) = {}
                \/ \E s \in OnAddresses(e) : session[s].callId # None
          /\ \E i \in Session, previous \in OnAddresses(e) \cup {None} :
                /\ FreeId(i)
                /\ previous # None => conf.stopPrevious
                /\ LET t == NewSkinnySession(Now, i, c, e)
                       t1 == IF previous = None THEN t ELSE Stop(t, previous)
                   IN  Become(MapCall(t1, c, i))

\* OpenReceiveChannelAck (a is the phone) and StartMediaTransmission (a is the far end).
ReportSkinnyMedia(e, a) ==
    \/ \E s \in OfPhone(e) :
          /\ session[s].addr = None \/ conf.skinnyDynamic
          /\ Become(SetMediaAddress(Now, s, a))
    \/ /\ OfPhone(e) = {} /\ conf.lateInfo
       /\ \E i \in Session :
             /\ FreeId(i)
             /\ Become(SetMediaAddress(NewSkinnySession(Now, i, None, e), i, a))

\* StopMediaTransmission: of the call, or of a session of the phone; not while on hold.
ReportSkinnyStopMedia(c, e) ==
    /\ ~conf.ignoreStopMedia
    /\ \E s \in IF byCall[c] # None THEN {byCall[c]} ELSE OfPhone(e) :
          /\ ~session[s].hold
          /\ Become(Stop(Now, s))

SoftKeyResume(c) ==
    /\ byCall[c] # None
    /\ Become(GoOffHold(Now, byCall[c]))

SoftKeyTransfer(c) ==
    /\ byCall[c] # None
    /\ Become(Stop(Now, byCall[c]))

----------------------------------------------------------------------------
(* Commands: of a party, a recording or a call; the first session that matches on  *)
(* the map of addresses, so any session there may be the one.                      *)

OnMap == {byAddr[a] : a \in Address} \ {None}

StartCapture(s) == s \in OnMap /\ Become([Now EXCEPT !.session[s].keep = TRUE])
PauseCapture(s) == s \in OnMap /\ Become([Now EXCEPT !.session[s].keep = FALSE])

\* CopyMetadataToNewSession
Copied(old) ==
    [NewSession(old.proto) EXCEPT
        !.callId = old.callId, !.addr = old.addr, !.addrs = old.addrs,
        !.endpoint = old.endpoint, !.metadata = TRUE]

\* The session is stopped and a copy gathers what follows of the call.
StopCapture(s) ==
    /\ s \in OnMap
    /\ \E i \in Session :
          /\ FreeId(i)
          /\ LET r == Copied(session[s])
                 t == Stop(Put(Now, i, r), s)
             IN  Become(MapCall(MapAddr(t, r.addr, i), r.callId, i))

----------------------------------------------------------------------------
(* Time.                                                                   *)

Elapse ==
    /\ \E s \in Session : session[s] # None /\ session[s].age < MaxAge
    /\ session' = [s \in Session |->
          IF session[s] = None THEN None
          ELSE [session[s] EXCEPT !.age = IF @ = MaxAge THEN @ ELSE @ + 1]]
    /\ UNCHANGED <<byAddr, byCall, open, misheard, conf>>

SignallingTimeout(r) ==
    CASE r.hold -> HoldTimeout
      [] ~r.hold /\ r.rtp + r.ignored > 0 -> TalkTimeout
      [] OTHER -> RingTimeout

AddrTimeout(r) == IF r.proto = "RawRtp" THEN RawTimeout ELSE SignallingTimeout(r)

Swept_OnePass(t, all) ==
    StopEach(t, {s \in Session : /\ \E a \in Address : t.byAddr[a] = s
                                /\ (all \/ t.session[s].age > AddrTimeout(t.session[s]))})
\* Two passes: over the sessions with an address, then over those with a call id.  With
\* all, the time is so late that every session is overdue.
Swept(t, all) ==
    LET t1 == StopEach(t, {s \in Session :
            /\ \E a \in Address : t.byAddr[a] = s
            /\ (all \/ t.session[s].age > AddrTimeout(t.session[s]))})
    IN  StopEach(t1, {s \in Session :
            /\ \E c \in Call \cup {None} : t1.byCall[c] = s
            /\ (all \/ t1.session[s].age > SignallingTimeout(t1.session[s]))})

Hoover == Become(Swept(Now, FALSE))
StopAll == Become(Swept(Now, TRUE))

----------------------------------------------------------------------------
\* Bounds of a configuration: its streams, what its packets are like, its calls, its
\* phones, the addresses its signalling names, and whether there are holds, commands and
\* time-outs.
Packet == [stream: conf.streams, kind: conf.kinds, again: {FALSE}]

Init ==
    /\ conf \in Configs
    /\ session = [s \in Session |-> None]
    /\ byAddr = [a \in Address \cup {None} |-> None]
    /\ byCall = [c \in Call \cup {None} |-> None]
    /\ open = {} /\ misheard = {}

Next ==
    \/ \E p \in Packet : ReportRtpPacket(p)
    \/ \E c \in conf.calls \cap SipCall :
          \/ \E a \in conf.media, sendonly, demand \in BOOLEAN :
                /\ sendonly => "hold" \in conf.inputs
                /\ demand => ~conf.lookBack
                /\ ReportSipInvite(c, a, sendonly, demand)
          \/ \E a \in conf.media : ReportSipSessionProgress(c, a) \/ ReportSip200Ok(c, a)
          \/ ReportSipBye(c)
    \/ \E c \in conf.calls \cap SkinnyCall, e \in conf.phones :
          \/ ReportSkinnyCallInfo(c, e)
          \/ \E a \in conf.media : ReportSkinnyMedia(e, a)
          \/ ReportSkinnyStopMedia(c, e)
          \/ SoftKeyTransfer(c)
          \/ "hold" \in conf.inputs /\ (SoftKeyHold(c) \/ SoftKeyResume(c))
    \/ /\ "commands" \in conf.inputs
       /\ \E s \in Session : StartCapture(s) \/ PauseCapture(s) \/ StopCapture(s)
    \/ "time" \in conf.inputs /\ (Elapse \/ Hoover)
    \/ StopAll

Spec == Init /\ [][Next]_vars

----------------------------------------------------------------------------
(* Properties.                                                             *)

\* The values of the variables.
TypeOK ==
    /\ session \in [Session -> SessionRecord \cup {None}]
    /\ byAddr \in [Address \cup {None} -> Session \cup {None}] /\ byAddr[None] = None
    /\ byCall \in [Call \cup {None} -> Session \cup {None}]
    /\ open \subseteq Session \cup {None} /\ misheard \subseteq Session \cup {None}

\* StopCapture of a session without call id leaves the copy under the empty call id,
\* and Stop does not erase that entry.
Stale == byCall[None] # None /\ session[byCall[None]].stopped

\* The two maps agree with the sessions (Stop, SetMediaAddress, StopCapture): what an
\* address or a call id leads to is a session that goes on and that knows of the
\* address or the call, so Stop takes it out of both maps.
MapsAgree == ~Stale =>
    /\ \A a \in Address : byAddr[a] # None =>
          /\ session[byAddr[a]] # None
          /\ a \in session[byAddr[a]].addrs /\ ~session[byAddr[a]].stopped
    /\ \A c \in Call : byCall[c] # None =>
          /\ session[byCall[c]] # None
          /\ session[byCall[c]].callId = c /\ ~session[byCall[c]].stopped

\* A recording that was started is never forgotten: while its port is open some map
\* leads to the session that will stop it (SetMediaAddress, Stop, the merge of two
\* sessions in ReportRtpPacket).
Attended == ~Stale =>
    /\ \A p \in open \ {None} :
          session[p] # None /\ session[p].started /\ ~session[p].stopped
    /\ None \in open =>
          \E s \in Session : /\ session[s] # None /\ session[s].port = None
                             /\ session[s].started /\ ~session[s].stopped

\* AddRtpPacket starts a session at one count of packets, whether it has been started or
\* not.  Nothing but these settings keeps it from a second start: with multiple mappings
\* no session becomes raw RTP under way (Demoted), whose count is another one.
StartsOnce == conf.discard \/ (conf.multi /\ (conf.lookBack \/ ~conf.trackRaw))

\* A port hears start, then audio, then stop, whatever the order of packets, signalling,
\* commands and time-outs (Start, AddRtpPacket, Stop); but for the port without name
\* that the sessions made by StopCapture share.
HeardInTurn == ~Stale /\ StartsOnce => misheard \subseteq {None}

\* The same of every configuration.
EveryPortInTurn == ~Stale => misheard \subseteq {None}

\* What is recorded: in look-back mode every call that has talked, whatever the protocol
\* it was taken for when its packets were counted (AddRtpPacket starts it at one count
\* only); with DiscardUnidirectionalCalls no call of which one side only was heard
\* (DetectChannel).
RecordsWhatTalks ==
    \A s \in Session : session[s] # None =>
        LET r == session[s]
        IN  /\ conf.discard /\ r.started => r.s1 # None /\ r.s2 # None
            /\ conf.lookBack /\ ~conf.discard /\ r.rtp = MaxCount => r.started

\* At the end of a replay every recording gets its stop, the sessions without a media
\* address included (StopAll, Hoover).
StopAllStops == ~Stale => Swept(Now, TRUE).open = {}

\* Each port carries one call at a time.
PortPerCall == None \notin misheard

=============================================================================
