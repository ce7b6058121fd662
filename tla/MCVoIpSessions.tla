--------------------------- MODULE MCVoIpSessions ---------------------------
EXTENDS VoIpSessions, TLC

CONSTANTS phone, gate, u1, u2, u3, far, c1, c2, k1, k2

\* The plugin as installed (VoIpConfig.cpp): SIP calls with packets in both directions.
Default ==
    [lookBack |-> TRUE, discard |-> FALSE, multi |-> TRUE, useSecond |-> FALSE,
     trackRaw |-> FALSE, breaks |-> FALSE, tracked |-> {}, skinnyTransfer |-> TRUE,
     sipTransfer |-> FALSE, inviteOffHold |-> FALSE, dynamic |-> TRUE, lateInfo |-> FALSE,
     stopPrevious |-> FALSE, skinnyDynamic |-> TRUE, ignoreStopMedia |-> TRUE,
     inputs |-> {"time"}, kinds |-> {"next"}, calls |-> {c1, c2}, phones |-> {},
     media |-> {phone, gate},
     streams |-> {<<phone, gate>>, <<gate, phone>>}, most |-> 2]

\* A recording stopped by a command in the middle of its call; the address of a call
\* with packets stays as it is.
Commands == [Default EXCEPT !.inputs = {"commands"}, !.calls = {c1}, !.dynamic = FALSE]

\* Calls on hold, one-way calls not recorded, streams that jump.
Holds == [Default EXCEPT !.inputs = {"hold"}, !.inviteOffHold = TRUE,
                         !.discard = TRUE, !.breaks = TRUE,
                         !.kinds = {"next", "gap", "dynamic", "broken", "duplicate"}]

\* Skinny phones; the raw sessions of their streams.
Skinny == [Default EXCEPT !.inputs = {"hold", "time"}, !.calls = {k1, k2}, !.phones = {phone},
                          !.ignoreStopMedia = FALSE, !.stopPrevious = TRUE]

\* SIP and Skinny on the same addresses, one address for a session.
Mixed == [Default EXCEPT !.inputs = {"hold", "time"}, !.calls = {c1, k1}, !.phones = {phone},
                         !.multi = FALSE, !.lateInfo = TRUE, !.skinnyTransfer = FALSE]

\* A third stream on the addresses of a call, the second address followed as well.
Third == [Default EXCEPT !.useSecond = TRUE, !.media = {phone, gate, far}, !.tracked = {far},
                         !.calls = {c1}, !.most = 3,
                         !.kinds = {"next", "takeover1", "takeover2"},
                         !.streams = {<<phone, gate>>, <<gate, phone>>, <<far, phone>>}]

\* Recording on demand.
OnDemand == [Default EXCEPT !.lookBack = FALSE, !.discard = TRUE, !.inputs = {"commands"},
                            !.calls = {c1}]
OnDemandAnySide == [OnDemand EXCEPT !.discard = FALSE]

\* The sessions of streams without signalling recorded on demand too.
RawOnDemand == [OnDemandAnySide EXCEPT !.trackRaw = TRUE]

\* Two calls, each stopped by a command in its middle.
TwoStopped == [Default EXCEPT !.inputs = {"commands"}, !.most = 3,
                              !.streams = {<<phone, gate>>, <<far, gate>>}]

MCConfigs == {Default, Commands, Holds, Skinny, Mixed, Third, OnDemand, OnDemandAnySide}
MCRawOnDemand == {RawOnDemand}
MCTwoStopped == {TwoStopped}
Sym == Permutations(Session) \cup Permutations(SipCall) \cup Permutations(SkinnyCall)
=============================================================================
