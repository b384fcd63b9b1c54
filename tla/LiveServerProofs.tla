--------------------------- MODULE LiveServerProofs ---------------------------
(***************************************************************************)
(* The live source is correct for every number of sessions, tracks,        *)
(* connections and channels, and for every limit on clients.  Every        *)
(* handler that takes something away does it by TeardownFrom; the lemmas   *)
(* say what that leaves, and the theorems go through the handlers.         *)
(***************************************************************************)
EXTENDS LiveServer, TLAPS, FiniteSetTheorems

\* Only an interleaved endpoint has a connection.
OnlyTcpHasConn ==
    \A s \in Sessions, t \in Tracks : ep[s][t].trans # "tcp" => ep[s][t].conn = NoConn

\* The inductive invariant.  Finitely many sessions play: each came by a PLAY.
Inv ==
    /\ TypeOK /\ IsFiniteSet(playing)
    /\ ChannelsMatchEndpoints /\ NamedSessionsHaveEndpoints
    /\ NoIdleEncoding /\ CountCoversPlaying /\ OnlyTcpHasConn

\* The endpoints eps are those of ep but for what RTCP keeps about them.
SameEndpoints(eps) ==
    /\ eps \in [Sessions -> [Tracks -> Endpoints]]
    /\ \A s \in Sessions, t \in Tracks :
         /\ eps[s][t].trans = ep[s][t].trans
         /\ eps[s][t].conn = ep[s][t].conn
         /\ eps[s][t].chan = ep[s][t].chan

\* The endpoints and the freed sessions of a teardown.
EpsAfter(eps0, refs) ==
    [s \in Sessions |-> [t \in Tracks |-> IF <<s, t>> \in refs THEN NoEp ELSE eps0[s][t]]]
Gone(eps0, refs, ss) == FreedSessions(ss \cup {r[1] : r \in refs}, EpsAfter(eps0, refs))

-----------------------------------------------------------------------------
(* Endpoints.                                                               *)

\* An unused channel refers to no endpoint.
LEMMA NoRefNotRef == \A s, t : <<s, t>> # NoRef
BY DEF NoRef

\* The three kinds of endpoint have the type of endpoints.
LEMMA EndpointTypes ==
    /\ NoEp \in Endpoints /\ UdpEp \in Endpoints
    /\ \A c \in Conns, ch \in Chans : TcpEp(c, ch) \in Endpoints
    /\ NoEp.trans = "none" /\ UdpEp.trans = "udp"
    /\ NoEp.conn = NoConn /\ UdpEp.conn = NoConn
    /\ \A c, ch : TcpEp(c, ch).trans = "tcp" /\ TcpEp(c, ch).conn = c /\ TcpEp(c, ch).chan = ch
<1>1. NoEp \in Endpoints /\ NoEp.trans = "none" /\ NoEp.conn = NoConn
    <2>1. 0 \in Chans
        BY NChanAssumption DEF Chans
    <2> QED BY <2>1 DEF NoEp, Endpoints
<1>2. UdpEp \in Endpoints /\ UdpEp.trans = "udp" /\ UdpEp.conn = NoConn
    BY <1>1 DEF UdpEp, Endpoints
<1>3. ASSUME NEW c, NEW ch
      PROVE  TcpEp(c, ch).trans = "tcp" /\ TcpEp(c, ch).conn = c /\ TcpEp(c, ch).chan = ch
    BY DEF TcpEp, NoEp
<1>4. ASSUME NEW c \in Conns, NEW ch \in Chans PROVE TcpEp(c, ch) \in Endpoints
    BY <1>1 DEF TcpEp, Endpoints
<1> QED BY <1>1, <1>2, <1>3, <1>4

\* What TeardownFrom assigns, with its two local definitions named.
LEMMA TeardownEffect ==
    ASSUME NEW eps0, NEW ws, NEW refs, NEW ss, TeardownFrom(eps0, ws, refs, ss)
    PROVE  /\ ep' = EpsAfter(eps0, refs)
           /\ ichan' = [c \in Conns |-> [i \in Chans |->
                          IF Cleared(refs, c, i) THEN NoRef ELSE ichan[c][i]]]
           /\ waiting' = TrackCheckRunning(ws, {r[2] : r \in refs}, EpsAfter(eps0, refs))
           /\ open' = open \ Gone(eps0, refs, ss)
           /\ named' = named \ Gone(eps0, refs, ss)
           /\ playing' = playing \ Gone(eps0, refs, ss)
           /\ curConn' = CountAfter(Gone(eps0, refs, ss))
           /\ isRtcp' = isRtcp
BY DEF TeardownFrom, EpsAfter, Gone

\* Endpoint by endpoint: those of refs are gone, the others are as before.
LEMMA EpsAfterValues ==
    ASSUME NEW eps0, SameEndpoints(eps0), NEW refs
    PROVE  /\ EpsAfter(eps0, refs) \in [Sessions -> [Tracks -> Endpoints]]
           /\ \A s \in Sessions, t \in Tracks :
                EpsAfter(eps0, refs)[s][t] = IF <<s, t>> \in refs THEN NoEp ELSE eps0[s][t]
<1>1. \A s \in Sessions, t \in Tracks : eps0[s][t] \in Endpoints
    BY DEF SameEndpoints
<1> QED BY <1>1, EndpointTypes DEF EpsAfter

\* Freeing the sessions in gone takes their places away, and no more.
LEMMA CountAfterPlaces ==
    ASSUME TypeOK, IsFiniteSet(playing), CountCoversPlaying, NEW gone
    PROVE  /\ CountAfter(gone) \in Nat
           /\ IsFiniteSet(playing \ gone)
           /\ CountAfter(gone) >= Cardinality(playing \ gone)
<1>1. /\ IsFiniteSet(gone \cap playing) /\ IsFiniteSet(playing \ gone)
      /\ Cardinality(gone \cap playing) \in Nat /\ Cardinality(playing) \in Nat
      /\ Cardinality(playing \ gone) = Cardinality(playing) - Cardinality(playing \cap gone)
    <2>1. gone \cap playing = playing \cap gone
        OBVIOUS
    <2> QED BY <2>1, FS_Difference, FS_Intersection, FS_CardinalityType
<1>2. gone \cap playing = playing \cap gone
    OBVIOUS
<1>3. CountAfter(gone) = IF curConn > Cardinality(gone \cap playing)
                         THEN curConn - Cardinality(gone \cap playing) ELSE 0
    BY DEF CountAfter
<1>4. curConn \in Nat /\ curConn >= Cardinality(playing)
    BY DEF TypeOK, CountCoversPlaying
<1> QED BY <1>1, <1>2, <1>3, <1>4

-----------------------------------------------------------------------------
(* Teardown.                                                                *)

\* A session that keeps an endpoint is not freed, and one of refs or ss that has none
\* left is.
LEMMA GoneMeaning ==
    ASSUME NEW eps0, SameEndpoints(eps0), NEW refs, NEW ss, NEW s \in Sessions
    PROVE  s \in Gone(eps0, refs, ss) <=>
             /\ s \in ss \/ \E r \in refs : r[1] = s
             /\ \A t \in Tracks : EpsAfter(eps0, refs)[s][t].trans = "none"
BY DEF Gone, FreedSessions

LEMMA TeardownType ==
    ASSUME TypeOK, IsFiniteSet(playing), CountCoversPlaying,
           NEW eps0, SameEndpoints(eps0), NEW ws \in SUBSET Tracks,
           NEW refs \in SUBSET Refs, NEW ss, TeardownFrom(eps0, ws, refs, ss),
           connected' \subseteq Conns, ready' \subseteq Tracks
    PROVE  TypeOK' /\ IsFiniteSet(playing') /\ CountCoversPlaying'
<1>0. /\ ep' = EpsAfter(eps0, refs)
      /\ ichan' = [c \in Conns |-> [i \in Chans |->
                     IF Cleared(refs, c, i) THEN NoRef ELSE ichan[c][i]]]
      /\ waiting' = TrackCheckRunning(ws, {r[2] : r \in refs}, EpsAfter(eps0, refs))
      /\ open' = open \ Gone(eps0, refs, ss)
      /\ named' = named \ Gone(eps0, refs, ss)
      /\ playing' = playing \ Gone(eps0, refs, ss)
      /\ curConn' = CountAfter(Gone(eps0, refs, ss))
      /\ isRtcp' = isRtcp
    BY TeardownEffect
<1>1. /\ open' \subseteq Sessions /\ named' \subseteq open' /\ playing' \subseteq named'
      /\ waiting' \subseteq Tracks
    BY <1>0 DEF TypeOK, TrackCheckRunning
<1>2. ep' \in [Sessions -> [Tracks -> Endpoints]]
    BY <1>0, EpsAfterValues
<1>3. ichan' \in [Conns -> [Chans -> Refs \cup {NoRef}]]
    <2>1. ASSUME NEW c \in Conns, NEW i \in Chans PROVE ichan[c][i] \in Refs \cup {NoRef}
        BY DEF TypeOK
    <2> QED BY <1>0, <2>1
<1>4. isRtcp' \in [Conns -> [Chans -> BOOLEAN]]
    BY <1>0 DEF TypeOK
<1>5. curConn' \in Nat /\ IsFiniteSet(playing') /\ curConn' >= Cardinality(playing')
    BY <1>0, CountAfterPlaces
<1> QED BY <1>1, <1>2, <1>3, <1>4, <1>5 DEF TypeOK, CountCoversPlaying

\* ChannelsMatchEndpoints for one endpoint and for one channel.
LEMMA EndpointChannels ==
    ASSUME ChannelsMatchEndpoints, NEW s \in Sessions, NEW t \in Tracks,
           ep[s][t].trans = "tcp"
    PROVE  LET c == ep[s][t].conn  i == ep[s][t].chan
           IN  /\ c \in connected /\ i + 1 \in Chans
               /\ ichan[c][i] = <<s, t>> /\ isRtcp[c][i] = FALSE
               /\ ichan[c][i + 1] = <<s, t>> /\ isRtcp[c][i + 1] = TRUE
<1>1. OwnsPair(s, t, ep[s][t].conn, ep[s][t].chan)
    BY DEF ChannelsMatchEndpoints
<1> QED BY <1>1 DEF OwnsPair

LEMMA ChannelEndpoint ==
    ASSUME ChannelsMatchEndpoints, NEW c \in Conns, NEW i \in Chans,
           NEW s, NEW t, ichan[c][i] = <<s, t>>
    PROVE  /\ ep[s][t].trans = "tcp" /\ ep[s][t].conn = c
           /\ ep[s][t].chan = (IF isRtcp[c][i] THEN i - 1 ELSE i)
<1>1. ichan[c][i] # NoRef /\ ichan[c][i][1] = s /\ ichan[c][i][2] = t
    BY NoRefNotRef
<1>2. UsesChannel(ep[s][t], c, i)
    BY <1>1 DEF ChannelsMatchEndpoints
<1> QED BY <1>2 DEF UsesChannel

\* A cleared channel belonged to an endpoint of refs, and both channels of such an
\* endpoint are cleared.
LEMMA ClearedMeaning ==
    ASSUME TypeOK, ChannelsMatchEndpoints, NEW refs \in SUBSET Refs,
           NEW c \in Conns, NEW i \in Chans
    PROVE  Cleared(refs, c, i) <=> ichan[c][i] # NoRef /\ ichan[c][i] \in refs
<1>1. ASSUME Cleared(refs, c, i) PROVE ichan[c][i] # NoRef /\ ichan[c][i] \in refs
    <2>1. PICK r \in refs : /\ ep[r[1]][r[2]].trans = "tcp" /\ ep[r[1]][r[2]].conn = c
                            /\ i \in {ep[r[1]][r[2]].chan, ep[r[1]][r[2]].chan + 1}
        BY <1>1 DEF Cleared
    <2>2. PICK s \in Sessions, t \in Tracks : r = <<s, t>>
        BY DEF Refs
    <2>3. /\ ep[s][t].trans = "tcp" /\ ep[s][t].conn = c
          /\ i = ep[s][t].chan \/ i = ep[s][t].chan + 1
        BY <2>1, <2>2
    <2>4. /\ ichan[ep[s][t].conn][ep[s][t].chan] = <<s, t>>
          /\ ichan[ep[s][t].conn][ep[s][t].chan + 1] = <<s, t>>
        BY <2>3, EndpointChannels
    <2>5. ichan[c][i] = r
        BY <2>2, <2>3, <2>4
    <2> QED BY <2>2, <2>5, NoRefNotRef
<1>2. ASSUME ichan[c][i] # NoRef, ichan[c][i] \in refs PROVE Cleared(refs, c, i)
    <2> DEFINE r == ichan[c][i]
    <2>1. PICK s \in Sessions, t \in Tracks : r = <<s, t>>
        BY <1>2 DEF Refs
    <2>2. /\ ep[s][t].trans = "tcp" /\ ep[s][t].conn = c
          /\ ep[s][t].chan = (IF isRtcp[c][i] THEN i - 1 ELSE i)
        BY <1>2, <2>1, ChannelEndpoint
    <2>3. i \in {ep[s][t].chan, ep[s][t].chan + 1}
        BY <2>2 DEF Chans
    <2> QED BY <1>2, <2>1, <2>2, <2>3 DEF Cleared
<1> QED BY <1>1, <1>2

LEMMA TeardownChannels ==
    ASSUME TypeOK, ChannelsMatchEndpoints,
           NEW eps0, SameEndpoints(eps0), NEW ws,
           NEW refs \in SUBSET Refs, NEW ss, TeardownFrom(eps0, ws, refs, ss),
           \A s \in Sessions, t \in Tracks :
             ep[s][t].trans = "tcp" /\ <<s, t>> \notin refs => ep[s][t].conn \in connected'
    PROVE  ChannelsMatchEndpoints'
<1>0. /\ ep' = EpsAfter(eps0, refs) /\ isRtcp' = isRtcp
      /\ ichan' = [c \in Conns |-> [i \in Chans |->
                     IF Cleared(refs, c, i) THEN NoRef ELSE ichan[c][i]]]
    BY DEF TeardownFrom, EpsAfter
<1>1. ASSUME NEW s \in Sessions, NEW t \in Tracks, <<s, t>> \notin refs
      PROVE  ep'[s][t].trans = ep[s][t].trans /\ ep'[s][t].conn = ep[s][t].conn
             /\ ep'[s][t].chan = ep[s][t].chan
    <2>1. ep'[s][t] = eps0[s][t]
        BY <1>0, <1>1, EpsAfterValues
    <2> QED BY <2>1 DEF SameEndpoints
<1>2. ASSUME NEW s \in Sessions, NEW t \in Tracks, <<s, t>> \in refs
      PROVE  ep'[s][t].trans = "none"
    BY <1>0, <1>2, EpsAfterValues, EndpointTypes
<1>3. ASSUME NEW s \in Sessions, NEW t \in Tracks, ep'[s][t].trans = "tcp"
      PROVE  OwnsPair(s, t, ep[s][t].conn, ep[s][t].chan)'
    <2> DEFINE c == ep[s][t].conn
               i == ep[s][t].chan
    <2>1. <<s, t>> \notin refs
        BY <1>2, <1>3
    <2>2. ep[s][t].trans = "tcp" /\ ep'[s][t].conn = c /\ ep'[s][t].chan = i
        BY <1>1, <1>3, <2>1
    <2>3. /\ c \in connected /\ i + 1 \in Chans
          /\ ichan[c][i] = <<s, t>> /\ isRtcp[c][i] = FALSE
          /\ ichan[c][i + 1] = <<s, t>> /\ isRtcp[c][i + 1] = TRUE
        BY <2>2, EndpointChannels
    <2>4. c \in Conns /\ i \in Chans
        <3>1. ep[s][t] \in Endpoints /\ connected \subseteq Conns
            BY DEF TypeOK
        <3> QED BY <2>3, <3>1 DEF Endpoints
    <2>5. ~Cleared(refs, c, i) /\ ~Cleared(refs, c, i + 1)
        BY <2>1, <2>3, <2>4, ClearedMeaning
    <2>6. ichan'[c][i] = <<s, t>> /\ ichan'[c][i + 1] = <<s, t>>
        BY <1>0, <2>3, <2>4, <2>5
    <2>7. c \in connected'
        BY <2>1, <2>2
    <2> HIDE DEF c, i
    <2> QED BY <1>0, <2>2, <2>3, <2>6, <2>7 DEF OwnsPair
<1>4. ASSUME NEW c \in Conns, NEW i \in Chans, ichan'[c][i] # NoRef
      PROVE  UsesChannel(ep[ichan[c][i][1]][ichan[c][i][2]], c, i)'
    <2>1. ichan'[c][i] = ichan[c][i] /\ ~Cleared(refs, c, i)
        BY <1>0, <1>4
    <2>2. ichan[c][i] \notin refs
        BY <1>4, <2>1, ClearedMeaning
    <2>3. ichan[c][i] \in Refs
        BY <1>4, <2>1 DEF TypeOK
    <2>4. PICK s \in Sessions, t \in Tracks : ichan[c][i] = <<s, t>>
        BY <2>3 DEF Refs
    <2>5. /\ ep[s][t].trans = "tcp" /\ ep[s][t].conn = c
          /\ ep[s][t].chan = (IF isRtcp[c][i] THEN i - 1 ELSE i)
        BY <2>4, ChannelEndpoint
    <2>6. /\ ep'[s][t].trans = "tcp" /\ ep'[s][t].conn = c
          /\ ep'[s][t].chan = (IF isRtcp'[c][i] THEN i - 1 ELSE i)
        BY <1>0, <1>1, <2>2, <2>4, <2>5
    <2>7. ichan'[c][i][1] = s /\ ichan'[c][i][2] = t
        BY <2>1, <2>4
    <2> QED BY <2>6, <2>7 DEF UsesChannel
<1> QED BY <1>3, <1>4 DEF ChannelsMatchEndpoints

LEMMA TeardownNamed ==
    ASSUME TypeOK, NamedSessionsHaveEndpoints,
           NEW eps0, SameEndpoints(eps0), NEW ws,
           NEW refs \in SUBSET Refs, NEW ss, TeardownFrom(eps0, ws, refs, ss)
    PROVE  NamedSessionsHaveEndpoints'
<1>0. /\ ep' = EpsAfter(eps0, refs) /\ open' = open \ Gone(eps0, refs, ss)
      /\ named' = named \ Gone(eps0, refs, ss)
    BY TeardownEffect
<1>1. ASSUME NEW s \in Sessions, NEW t \in Tracks
      PROVE  ep'[s][t].trans = IF <<s, t>> \in refs THEN "none" ELSE ep[s][t].trans
    <2>1. ep'[s][t] = IF <<s, t>> \in refs THEN NoEp ELSE eps0[s][t]
        BY <1>0, EpsAfterValues
    <2> QED BY <2>1, EndpointTypes DEF SameEndpoints
<1>2. ASSUME NEW s \in Sessions
      PROVE  s \in named' <=> \E t \in Tracks : ep'[s][t].trans # "none"
    <2>1. s \in named <=> \E t \in Tracks : ep[s][t].trans # "none"
        BY DEF NamedSessionsHaveEndpoints, HasEp
    <2>2. s \in Gone(eps0, refs, ss) <=>
            /\ s \in ss \/ \E r \in refs : r[1] = s
            /\ \A t \in Tracks : ep'[s][t].trans = "none"
        BY <1>0, GoneMeaning
    <2>3. CASE \E t \in Tracks : ep'[s][t].trans # "none"
        BY <1>0, <1>1, <2>1, <2>2, <2>3
    <2>4. CASE \A t \in Tracks : ep'[s][t].trans = "none"
        <3>1. ASSUME s \in named PROVE s \in Gone(eps0, refs, ss)
            <4>1. PICK t \in Tracks : ep[s][t].trans # "none"
                BY <2>1, <3>1
            <4>2. <<s, t>> \in refs
                BY <1>1, <2>4, <4>1
            <4> QED BY <2>2, <2>4, <4>2
        <3> QED BY <1>0, <2>4, <3>1
    <2> QED BY <2>3, <2>4
<1>3. ~Realm => open' = named'
    BY <1>0 DEF NamedSessionsHaveEndpoints
<1> QED BY <1>2, <1>3 DEF NamedSessionsHaveEndpoints, HasEp

\* What a teardown does to the waiting tracks ws: each that still waits has a listener,
\* or it had one and none of its endpoints was taken.
LEMMA TeardownWaiting ==
    ASSUME TypeOK, NEW eps0, SameEndpoints(eps0), NEW ws \in SUBSET Tracks,
           NEW refs \in SUBSET Refs, NEW ss, TeardownFrom(eps0, ws, refs, ss),
           \A t \in ws \cap ready' : \E s \in playing : HasEp(s, t)
    PROVE  NoIdleEncoding'
<1>0. /\ ep' = EpsAfter(eps0, refs) /\ playing' = playing \ Gone(eps0, refs, ss)
      /\ waiting' = TrackCheckRunning(ws, {r[2] : r \in refs}, ep')
    BY TeardownEffect
<1> SUFFICES ASSUME NEW t \in waiting' \cap ready'
             PROVE  \E s \in playing' : ep'[s][t].trans # "none"
    BY DEF NoIdleEncoding, HasEp
<1>1. t \in ws /\ t \in Tracks
    BY <1>0 DEF TrackCheckRunning
<1>2. ASSUME NEW s \in playing, ep'[s][t].trans # "none" PROVE s \in playing'
    <2>1. s \in Sessions
        BY DEF TypeOK
    <2>2. s \notin Gone(eps0, refs, ss)
        BY <1>0, <1>1, <1>2, <2>1, GoneMeaning
    <2> QED BY <1>0, <2>2
<1>3. CASE t \in {r[2] : r \in refs}
    <2>1. \E s \in playing : ep'[s][t].trans # "none"
        BY <1>0, <1>1, <1>3 DEF TrackCheckRunning
    <2> QED BY <1>2, <2>1
<1>4. CASE t \notin {r[2] : r \in refs}
    <2>1. PICK s \in playing : ep[s][t].trans # "none"
        BY <1>1 DEF HasEp
    <2>2. s \in Sessions /\ <<s, t>> \notin refs
        BY <1>4 DEF TypeOK
    <2>3. ep'[s][t] = eps0[s][t]
        BY <1>0, <1>1, <2>2, EpsAfterValues
    <2>4. ep'[s][t].trans # "none"
        BY <1>1, <2>1, <2>2, <2>3 DEF SameEndpoints
    <2> QED BY <1>2, <2>4
<1> QED BY <1>3, <1>4

LEMMA TeardownInv ==
    ASSUME Inv, NEW eps0, SameEndpoints(eps0), NEW ws \in SUBSET Tracks,
           NEW refs \in SUBSET Refs, NEW ss, TeardownFrom(eps0, ws, refs, ss),
           connected' \subseteq Conns, ready' \subseteq Tracks,
           \A s \in Sessions, t \in Tracks :
             ep[s][t].trans = "tcp" /\ <<s, t>> \notin refs => ep[s][t].conn \in connected',
           \A t \in ws \cap ready' : \E s \in playing : HasEp(s, t)
    PROVE  Inv'
<1>1. TypeOK' /\ IsFiniteSet(playing') /\ CountCoversPlaying'
    BY TeardownType DEF Inv
<1>2. ChannelsMatchEndpoints'
    BY TeardownChannels DEF Inv
<1>3. NamedSessionsHaveEndpoints'
    BY TeardownNamed DEF Inv
<1>4. NoIdleEncoding'
    BY TeardownWaiting DEF Inv
<1>5. OnlyTcpHasConn'
    <2>1. ep' = EpsAfter(eps0, refs)
        BY TeardownEffect
    <2>2. ASSUME NEW s \in Sessions, NEW t \in Tracks, ep'[s][t].trans # "tcp"
          PROVE  ep'[s][t].conn = NoConn
        <3>1. ep'[s][t] = IF <<s, t>> \in refs THEN NoEp ELSE eps0[s][t]
            BY <2>1, EpsAfterValues
        <3> QED BY <2>2, <3>1, EndpointTypes DEF SameEndpoints, Inv, OnlyTcpHasConn
    <2> QED BY <2>2 DEF OnlyTcpHasConn
<1> QED BY <1>1, <1>2, <1>3, <1>4, <1>5 DEF Inv

\* An interleaved endpoint's connection is open.
LEMMA ConnectionOpen ==
    ASSUME ChannelsMatchEndpoints
    PROVE  \A s \in Sessions, t \in Tracks : ep[s][t].trans = "tcp" => ep[s][t].conn \in connected
BY EndpointChannels

\* The handlers that only tear down.
LEMMA PlainTeardown ==
    ASSUME Inv, NEW refs \in SUBSET Refs, NEW ss, Teardown(refs, ss),
           UNCHANGED <<connected, ready>>
    PROVE  Inv'
<1>1. SameEndpoints(ep)
    BY DEF SameEndpoints, Inv, TypeOK
<1>2. TeardownFrom(ep, waiting, refs, ss)
    BY DEF Teardown
<1>3. /\ connected' \subseteq Conns /\ ready' \subseteq Tracks /\ waiting \in SUBSET Tracks
    BY DEF Inv, TypeOK
<1>4. \A s \in Sessions, t \in Tracks : ep[s][t].trans = "tcp" => ep[s][t].conn \in connected'
    BY ConnectionOpen DEF Inv
<1>5. \A t \in waiting \cap ready' : \E s \in playing : HasEp(s, t)
    BY DEF Inv, NoIdleEncoding
<1> QED BY <1>1, <1>2, <1>3, <1>4, <1>5, TeardownInv

-----------------------------------------------------------------------------
(* The invariant.                                                           *)

LEMMA InvInit == Init => Inv
<1> SUFFICES ASSUME Init PROVE Inv
    OBVIOUS
<1> USE DEF Init
<1>1. TypeOK
    BY EndpointTypes DEF TypeOK
<1>2. IsFiniteSet(playing) /\ CountCoversPlaying
    BY FS_EmptySet DEF CountCoversPlaying
<1>3. ChannelsMatchEndpoints
    BY EndpointTypes DEF ChannelsMatchEndpoints
<1>4. NamedSessionsHaveEndpoints
    BY EndpointTypes DEF NamedSessionsHaveEndpoints, HasEp
<1>5. NoIdleEncoding
    BY DEF NoIdleEncoding
<1>6. OnlyTcpHasConn
    BY EndpointTypes DEF OnlyTcpHasConn
<1> QED BY <1>1, <1>2, <1>3, <1>4, <1>5, <1>6 DEF Inv

\* A SETUP that succeeds.  The endpoint is new, and so are its channels if it has any.
LEMMA SetupInv ==
    ASSUME Inv, NEW c \in Conns, NEW s \in Sessions, NEW t \in Tracks, NEW e \in Endpoints,
           ~HasEp(s, t), e.trans # "none", e.trans = "tcp" \/ e.conn = NoConn,
           SetupDone(c, s, t, e), SetupSession(s)
    PROVE  /\ ep' \in [Sessions -> [Tracks -> Endpoints]]
           /\ \A u \in Sessions, v \in Tracks :
                ep'[u][v] = IF u = s /\ v = t THEN e ELSE ep[u][v]
           /\ IsFiniteSet(playing') /\ CountCoversPlaying'
           /\ NamedSessionsHaveEndpoints' /\ NoIdleEncoding' /\ OnlyTcpHasConn'
           /\ open' \subseteq Sessions /\ named' \subseteq open' /\ playing' \subseteq named'
           /\ connected' \subseteq Conns /\ ready' \subseteq Tracks /\ waiting' \subseteq Tracks
           /\ curConn' \in Nat
<1> USE DEF Inv
<1>0. /\ ep' = [ep EXCEPT ![s][t] = e] /\ open' = open \cup {s} /\ named' = named \cup {s}
      /\ UNCHANGED <<playing, connected, ready, waiting, curConn>>
    BY DEF SetupDone
<1>1. ep' \in [Sessions -> [Tracks -> Endpoints]]
    BY <1>0 DEF TypeOK
<1>2. \A u \in Sessions, v \in Tracks : ep'[u][v] = IF u = s /\ v = t THEN e ELSE ep[u][v]
    BY <1>0 DEF TypeOK
<1>3. IsFiniteSet(playing') /\ CountCoversPlaying'
    BY <1>0 DEF CountCoversPlaying
<1>4. NamedSessionsHaveEndpoints'
    <2>1. ASSUME NEW u \in Sessions
          PROVE  u \in named' <=> \E v \in Tracks : ep'[u][v].trans # "none"
        <3>1. u \in named <=> \E v \in Tracks : ep[u][v].trans # "none"
            BY DEF NamedSessionsHaveEndpoints, HasEp
        <3> QED BY <1>0, <1>2, <3>1
    <2>2. ~Realm => open' = named'
        BY <1>0 DEF NamedSessionsHaveEndpoints
    <2> QED BY <2>1, <2>2 DEF NamedSessionsHaveEndpoints, HasEp
<1>5. NoIdleEncoding'
    <2> SUFFICES ASSUME NEW v \in waiting \cap ready
                 PROVE  \E u \in playing : ep'[u][v].trans # "none"
        BY <1>0 DEF NoIdleEncoding, HasEp
    <2>1. PICK u \in playing : ep[u][v].trans # "none"
        BY DEF NoIdleEncoding, HasEp
    <2>2. u \in Sessions /\ v \in Tracks
        BY DEF TypeOK
    <2> QED BY <1>2, <2>1, <2>2
<1>6. /\ open' \subseteq Sessions /\ named' \subseteq open' /\ playing' \subseteq named'
      /\ connected' \subseteq Conns /\ ready' \subseteq Tracks /\ waiting' \subseteq Tracks
      /\ curConn' \in Nat
    BY <1>0 DEF TypeOK
<1>7. OnlyTcpHasConn'
    BY <1>2 DEF OnlyTcpHasConn
<1> QED BY <1>1, <1>2, <1>3, <1>4, <1>5, <1>6, <1>7

\* Handlers that leave the channels alone keep them right if the interleaved endpoints
\* stay the same.
LEMMA KeepChannels ==
    ASSUME TypeOK, ChannelsMatchEndpoints, UNCHANGED <<ichan, isRtcp>>, connected \subseteq connected',
           \A s \in Sessions, t \in Tracks :
             ep[s][t].trans = "tcp" \/ ep'[s][t].trans = "tcp" =>
               /\ ep'[s][t].trans = ep[s][t].trans
               /\ ep'[s][t].conn = ep[s][t].conn /\ ep'[s][t].chan = ep[s][t].chan
    PROVE  ChannelsMatchEndpoints'
<1>1. ASSUME NEW s \in Sessions, NEW t \in Tracks, ep'[s][t].trans = "tcp"
      PROVE  OwnsPair(s, t, ep[s][t].conn, ep[s][t].chan)'
    <2> DEFINE c == ep[s][t].conn
               i == ep[s][t].chan
    <2>1. ep[s][t].trans = "tcp" /\ ep'[s][t].conn = c /\ ep'[s][t].chan = i
        BY <1>1
    <2>2. /\ c \in connected /\ i + 1 \in Chans
          /\ ichan[c][i] = <<s, t>> /\ isRtcp[c][i] = FALSE
          /\ ichan[c][i + 1] = <<s, t>> /\ isRtcp[c][i + 1] = TRUE
        BY <2>1, EndpointChannels
    <2> HIDE DEF c, i
    <2> QED BY <2>1, <2>2 DEF OwnsPair
<1>2. ASSUME NEW c \in Conns, NEW i \in Chans, ichan'[c][i] # NoRef
      PROVE  UsesChannel(ep[ichan[c][i][1]][ichan[c][i][2]], c, i)'
    <2>1. PICK s \in Sessions, t \in Tracks : ichan[c][i] = <<s, t>>
        BY <1>2 DEF TypeOK, Refs
    <2>2. /\ ep[s][t].trans = "tcp" /\ ep[s][t].conn = c
          /\ ep[s][t].chan = (IF isRtcp[c][i] THEN i - 1 ELSE i)
        BY <2>1, ChannelEndpoint
    <2>3. /\ ep'[s][t].trans = "tcp" /\ ep'[s][t].conn = c
          /\ ep'[s][t].chan = (IF isRtcp'[c][i] THEN i - 1 ELSE i)
        BY <2>2
    <2>4. ichan'[c][i][1] = s /\ ichan'[c][i][2] = t
        BY <2>1
    <2> QED BY <2>3, <2>4 DEF UsesChannel
<1> QED BY <1>1, <1>2 DEF ChannelsMatchEndpoints

LEMMA SetupUdpInv ==
    ASSUME Inv, NEW c \in Conns, NEW s \in Sessions, NEW t \in Tracks, SetupUdp(c, s, t)
    PROVE  Inv'
<1>1. /\ ~HasEp(s, t) /\ SetupSession(s) /\ SetupDone(c, s, t, UdpEp)
      /\ UNCHANGED <<ichan, isRtcp>> /\ connected' = connected
    BY DEF SetupUdp, SetupDone
<1>2. UdpEp \in Endpoints /\ UdpEp.trans = "udp" /\ UdpEp.conn = NoConn
    BY EndpointTypes
<1>3. \A u \in Sessions, v \in Tracks : ep'[u][v] = IF u = s /\ v = t THEN UdpEp ELSE ep[u][v]
    BY <1>1, <1>2, SetupInv
<1>4. ep[s][t].trans = "none"
    BY <1>1 DEF HasEp
<1>5. ChannelsMatchEndpoints'
    BY <1>1, <1>2, <1>3, <1>4, KeepChannels DEF Inv
<1>6. TypeOK'
    <2>1. /\ ep' \in [Sessions -> [Tracks -> Endpoints]]
          /\ open' \subseteq Sessions /\ named' \subseteq open' /\ playing' \subseteq named'
          /\ connected' \subseteq Conns /\ ready' \subseteq Tracks /\ waiting' \subseteq Tracks
          /\ curConn' \in Nat
        BY <1>1, <1>2, SetupInv
    <2> QED BY <1>1, <2>1 DEF TypeOK, Inv
<1> QED BY <1>1, <1>2, <1>5, <1>6, SetupInv DEF Inv

LEMMA SetupInterleavedInv ==
    ASSUME Inv, NEW c \in Conns, NEW s \in Sessions, NEW t \in Tracks,
           NEW ch \in 0 .. NChan - 2, SetupInterleaved(c, s, t, ch)
    PROVE  Inv'
<1> DEFINE e == TcpEp(c, ch)
<1>1. /\ ~HasEp(s, t) /\ SetupSession(s) /\ SetupDone(c, s, t, e)
      /\ ichan[c][ch] = NoRef /\ ichan[c][ch + 1] = NoRef
      /\ ichan' = [ichan EXCEPT ![c][ch] = <<s, t>>, ![c][ch + 1] = <<s, t>>]
      /\ isRtcp' = [isRtcp EXCEPT ![c][ch] = FALSE, ![c][ch + 1] = TRUE]
      /\ c \in connected /\ connected' = connected
    BY DEF SetupInterleaved, SetupDone, PairFree
<1>2. ch \in Chans /\ ch + 1 \in Chans /\ ch + 1 # ch /\ ch \in Nat
    BY NChanAssumption DEF Chans
<1>3. e \in Endpoints /\ e.trans = "tcp" /\ e.conn = c /\ e.chan = ch
    BY <1>2, EndpointTypes
<1>4. \A u \in Sessions, v \in Tracks : ep'[u][v] = IF u = s /\ v = t THEN e ELSE ep[u][v]
    BY <1>1, <1>3, SetupInv
<1>5. ep[s][t].trans = "none"
    BY <1>1 DEF HasEp
<1> HIDE DEF e
<1>6. \A d \in Conns, i \in Chans :
        ichan'[d][i] = IF d = c /\ (i = ch \/ i = ch + 1) THEN <<s, t>> ELSE ichan[d][i]
    BY <1>1, <1>2 DEF Inv, TypeOK
<1>7. \A d \in Conns, i \in Chans :
        isRtcp'[d][i] = IF d = c /\ i = ch THEN FALSE
                        ELSE IF d = c /\ i = ch + 1 THEN TRUE ELSE isRtcp[d][i]
    BY <1>1, <1>2 DEF Inv, TypeOK
<1>8. TypeOK'
    <2>1. /\ ep' \in [Sessions -> [Tracks -> Endpoints]]
          /\ open' \subseteq Sessions /\ named' \subseteq open' /\ playing' \subseteq named'
          /\ connected' \subseteq Conns /\ ready' \subseteq Tracks /\ waiting' \subseteq Tracks
          /\ curConn' \in Nat
        BY <1>1, <1>3, SetupInv
    <2>2. <<s, t>> \in Refs \cup {NoRef}
        BY DEF Refs
    <2>3. ichan' \in [Conns -> [Chans -> Refs \cup {NoRef}]]
        BY <1>1, <1>2, <2>2 DEF Inv, TypeOK
    <2>4. isRtcp' \in [Conns -> [Chans -> BOOLEAN]]
        BY <1>1, <1>2 DEF Inv, TypeOK
    <2> QED BY <2>1, <2>3, <2>4 DEF TypeOK
<1>9. ChannelsMatchEndpoints'
    <2>1. ASSUME NEW u \in Sessions, NEW v \in Tracks, ep'[u][v].trans = "tcp"
          PROVE  OwnsPair(u, v, ep[u][v].conn, ep[u][v].chan)'
        <3>1. CASE u = s /\ v = t
            <4>1. ep'[u][v].conn = c /\ ep'[u][v].chan = ch
                BY <1>3, <1>4, <3>1
            <4>2. /\ ichan'[c][ch] = <<s, t>> /\ ichan'[c][ch + 1] = <<s, t>>
                  /\ isRtcp'[c][ch] = FALSE /\ isRtcp'[c][ch + 1] = TRUE
                BY <1>2, <1>6, <1>7
            <4> QED BY <1>1, <1>2, <3>1, <4>1, <4>2 DEF OwnsPair
        <3>2. CASE ~(u = s /\ v = t)
            <4> DEFINE d == ep[u][v].conn
                       i == ep[u][v].chan
            <4>1. ep'[u][v] = ep[u][v]
                BY <1>4, <3>2
            <4>2. /\ d \in connected /\ i + 1 \in Chans
                  /\ ichan[d][i] = <<u, v>> /\ isRtcp[d][i] = FALSE
                  /\ ichan[d][i + 1] = <<u, v>> /\ isRtcp[d][i + 1] = TRUE
                BY <2>1, <4>1, EndpointChannels DEF Inv
            <4>3. d \in Conns /\ i \in Chans
                BY <4>2 DEF Inv, TypeOK, Endpoints
            <4>4. ~(d = c /\ (i = ch \/ i = ch + 1)) /\ ~(d = c /\ (i + 1 = ch \/ i + 1 = ch + 1))
                BY <1>1, <4>2, NoRefNotRef
            <4>5. /\ ichan'[d][i] = <<u, v>> /\ ichan'[d][i + 1] = <<u, v>>
                  /\ isRtcp'[d][i] = FALSE /\ isRtcp'[d][i + 1] = TRUE
                BY <1>6, <1>7, <4>2, <4>3, <4>4
            <4> HIDE DEF d, i
            <4>6. ep'[u][v].conn = d /\ ep'[u][v].chan = i
                BY <4>1 DEF d, i
            <4> QED BY <1>1, <4>2, <4>5, <4>6 DEF OwnsPair
        <3> QED BY <3>1, <3>2
    <2>2. ASSUME NEW d \in Conns, NEW i \in Chans, ichan'[d][i] # NoRef
          PROVE  UsesChannel(ep[ichan[d][i][1]][ichan[d][i][2]], d, i)'
        <3>1. CASE d = c /\ (i = ch \/ i = ch + 1)
            <4>1. ichan'[d][i][1] = s /\ ichan'[d][i][2] = t
                BY <1>6, <3>1
            <4>2. ep'[s][t] = e
                BY <1>4
            <4>3. ch = IF isRtcp'[d][i] THEN i - 1 ELSE i
                <5>1. CASE i = ch
                    <6>1. isRtcp'[d][i] = FALSE
                        BY <1>7, <3>1, <5>1
                    <6> QED BY <5>1, <6>1
                <5>2. CASE i = ch + 1
                    <6>1. isRtcp'[d][i] = TRUE
                        BY <1>2, <1>7, <3>1, <5>2
                    <6> QED BY <1>2, <5>2, <6>1
                <5> QED BY <3>1, <5>1, <5>2
            <4> QED BY <1>3, <3>1, <4>1, <4>2, <4>3 DEF UsesChannel
        <3>2. CASE ~(d = c /\ (i = ch \/ i = ch + 1))
            <4>1. ichan'[d][i] = ichan[d][i] /\ isRtcp'[d][i] = isRtcp[d][i]
                BY <1>6, <1>7, <3>2
            <4>2. PICK u \in Sessions, v \in Tracks : ichan[d][i] = <<u, v>>
                BY <2>2, <4>1 DEF Inv, TypeOK, Refs
            <4>3. /\ ep[u][v].trans = "tcp" /\ ep[u][v].conn = d
                  /\ ep[u][v].chan = (IF isRtcp[d][i] THEN i - 1 ELSE i)
                BY <4>2, ChannelEndpoint DEF Inv
            <4>4. ep'[u][v] = ep[u][v]
                BY <1>4, <1>5, <4>3
            <4>5. ichan'[d][i][1] = u /\ ichan'[d][i][2] = v
                BY <4>1, <4>2
            <4> QED BY <4>1, <4>3, <4>4, <4>5 DEF UsesChannel
        <3> QED BY <3>1, <3>2
    <2> QED BY <2>1, <2>2 DEF ChannelsMatchEndpoints
<1> QED BY <1>1, <1>3, <1>8, <1>9, SetupInv DEF Inv

LEMMA PlayInv ==
    ASSUME Inv, NEW c \in Conns, NEW s \in Sessions, Play(c, s)
    PROVE  Inv'
<1>1. /\ s \in named /\ playing' = playing \cup {s} /\ curConn' = curConn + 1
      /\ waiting' = waiting \cup {t \in Tracks : HasEp(s, t)}
      /\ UNCHANGED <<open, named, ep, connected, ichan, isRtcp, ready>>
    BY DEF Play
<1>2. TypeOK'
    BY <1>1 DEF Inv, TypeOK
<1>3. IsFiniteSet(playing') /\ Cardinality(playing') <= Cardinality(playing) + 1
    <2>1. IsFiniteSet(playing)
        BY DEF Inv
    <2>2. /\ IsFiniteSet(playing \cup {s})
          /\ Cardinality(playing \cup {s})
               = IF s \in playing THEN Cardinality(playing) ELSE Cardinality(playing) + 1
        BY <2>1, FS_AddElement
    <2>3. Cardinality(playing) \in Nat
        BY <2>1, FS_CardinalityType
    <2> QED BY <1>1, <2>2, <2>3
<1>4. CountCoversPlaying'
    <2>1. Cardinality(playing) \in Nat /\ Cardinality(playing') \in Nat
        BY <1>3, FS_CardinalityType DEF Inv
    <2> QED BY <1>1, <1>3, <2>1 DEF Inv, TypeOK, CountCoversPlaying
<1>5. ChannelsMatchEndpoints'
    BY <1>1, KeepChannels DEF Inv
<1>6. NamedSessionsHaveEndpoints' /\ NoIdleEncoding' /\ OnlyTcpHasConn'
    BY <1>1 DEF Inv, NamedSessionsHaveEndpoints, NoIdleEncoding, OnlyTcpHasConn, HasEp
<1> QED BY <1>2, <1>3, <1>4, <1>5, <1>6 DEF Inv

\* The steps that change the stale flag of an endpoint only.
LEMMA StaleInv ==
    ASSUME Inv, NEW s \in Sessions, NEW t \in Tracks, NEW b \in BOOLEAN,
           ep' = [ep EXCEPT ![s][t].stale = b],
           UNCHANGED <<open, named, playing, connected, ichan, isRtcp, ready, waiting, curConn>>
    PROVE  Inv'
<1>1. ep[s][t] \in Endpoints
    BY DEF Inv, TypeOK
<1>2. ep' \in [Sessions -> [Tracks -> Endpoints]]
    <2>1. [ep[s][t] EXCEPT !.stale = b] \in Endpoints
        BY <1>1 DEF Endpoints
    <2>2. ep' = [ep EXCEPT ![s] = [ep[s] EXCEPT ![t] = [ep[s][t] EXCEPT !.stale = b]]]
        BY DEF Inv, TypeOK
    <2> QED BY <2>1, <2>2 DEF Inv, TypeOK
<1>3. \A u \in Sessions, v \in Tracks :
        ep'[u][v] = IF u = s /\ v = t THEN [ep[s][t] EXCEPT !.stale = b] ELSE ep[u][v]
    BY DEF Inv, TypeOK
<1>4. \A u \in Sessions, v \in Tracks :
        ep'[u][v].trans = ep[u][v].trans /\ ep'[u][v].conn = ep[u][v].conn
        /\ ep'[u][v].chan = ep[u][v].chan
    BY <1>1, <1>3 DEF Endpoints
<1>5. TypeOK'
    BY <1>2 DEF Inv, TypeOK
<1>6. ChannelsMatchEndpoints'
    BY <1>4, KeepChannels DEF Inv
<1>7. NamedSessionsHaveEndpoints'
    BY <1>4 DEF Inv, NamedSessionsHaveEndpoints, HasEp
<1>8. NoIdleEncoding'
    <2> SUFFICES ASSUME NEW v \in waiting \cap ready
                 PROVE  \E u \in playing : ep'[u][v].trans # "none"
        BY DEF NoIdleEncoding, HasEp
    <2>1. PICK u \in playing : ep[u][v].trans # "none"
        BY DEF Inv, NoIdleEncoding, HasEp
    <2>2. u \in Sessions /\ v \in Tracks
        BY DEF Inv, TypeOK
    <2> QED BY <1>4, <2>1, <2>2
<1>9. OnlyTcpHasConn'
    BY <1>4 DEF Inv, OnlyTcpHasConn
<1> QED BY <1>5, <1>6, <1>7, <1>8, <1>9 DEF Inv, CountCoversPlaying

\* A lost connection: every endpoint interleaved on it is among those torn down.
LEMMA DisconnectInv ==
    ASSUME Inv, NEW c \in Conns, Disconnect(c)
    PROVE  Inv'
<1>1. /\ connected' = connected \ {c} /\ ready' = ready
      /\ TeardownFrom(ep, waiting, DisconnectRefs(c), {})
    BY DEF Disconnect, Teardown
<1>2. DisconnectRefs(c) \in SUBSET Refs
    BY DEF DisconnectRefs, Inv, TypeOK
<1>3. SameEndpoints(ep)
    BY DEF SameEndpoints, Inv, TypeOK
<1>4. ASSUME NEW s \in Sessions, NEW t \in Tracks,
             ep[s][t].trans = "tcp", <<s, t>> \notin DisconnectRefs(c)
      PROVE  ep[s][t].conn \in connected'
    <2> DEFINE d == ep[s][t].conn
               i == ep[s][t].chan
    <2>1. d \in connected /\ ichan[d][i] = <<s, t>> /\ isRtcp[d][i] = FALSE
        BY <1>4, EndpointChannels DEF Inv
    <2>2. i \in Chans
        BY DEF Inv, TypeOK, Endpoints
    <2>3. d # c
        BY <1>4, <2>1, <2>2, NoRefNotRef DEF DisconnectRefs
    <2> QED BY <1>1, <2>1, <2>3
<1>5. /\ connected' \subseteq Conns /\ ready' \subseteq Tracks /\ waiting \in SUBSET Tracks
    BY <1>1 DEF Inv, TypeOK
<1>6. \A t \in waiting \cap ready' : \E s \in playing : HasEp(s, t)
    BY <1>1 DEF Inv, NoIdleEncoding
<1> QED BY <1>1, <1>2, <1>3, <1>4, <1>5, <1>6, TeardownInv

\* A frame: the endpoints the teardown starts from have had their RTCP timer enabled.
LEMMA NextFrameTeardown ==
    ASSUME TypeOK, NEW t \in Tracks, NextFrame(t)
    PROVE  \E eps : \E failed \in SUBSET Refs :
             SameEndpoints(eps) /\ TeardownFrom(eps, StreamAfterFrame(t), failed, {})
<1> DEFINE first == {r \in Listeners(t) : ep[r[1]][r[2]].force}
           late  == {r \in first : TimedOut(r[1], r[2])}
           eps   == [s \in Sessions |-> [u \in Tracks |->
                       IF <<s, u>> \in first THEN FirstPacket(ep[s][u]) ELSE ep[s][u]]]
<1>1. PICK failed \in SUBSET Udp(Listeners(t)) :
        TeardownFrom(eps, StreamAfterFrame(t), failed, {})
    BY DEF NextFrame
<1>2. failed \in SUBSET Refs
    BY DEF Udp, Listeners, Refs, TypeOK
<1>3. ASSUME NEW s \in Sessions, NEW u \in Tracks
      PROVE  /\ eps[s][u] \in Endpoints /\ eps[s][u].trans = ep[s][u].trans
             /\ eps[s][u].conn = ep[s][u].conn /\ eps[s][u].chan = ep[s][u].chan
    <2>1. ep[s][u] \in Endpoints
        BY DEF TypeOK
    <2>2. eps[s][u] = ep[s][u] \/ eps[s][u] = FirstPacket(ep[s][u])
        OBVIOUS
    <2> HIDE DEF eps
    <2> QED BY <2>1, <2>2 DEF Endpoints, FirstPacket
<1>4. SameEndpoints(eps)
    <2>1. eps = [s \in Sessions |-> [u \in Tracks |-> eps[s][u]]]
        OBVIOUS
    <2> HIDE DEF eps
    <2> QED BY <1>3, <2>1 DEF SameEndpoints
<1> HIDE DEF eps
<1> QED BY <1>1, <1>2, <1>4

LEMMA NextFrameInv ==
    ASSUME Inv, NEW t \in Tracks, NextFrame(t)
    PROVE  Inv'
<1>1. PICK eps : \E failed \in SUBSET Refs :
        SameEndpoints(eps) /\ TeardownFrom(eps, StreamAfterFrame(t), failed, {})
    BY NextFrameTeardown DEF Inv
<1>2. ready' = ready \cup {t} /\ connected' = connected
    BY DEF NextFrame
<1>3. /\ connected' \subseteq Conns /\ ready' \subseteq Tracks
      /\ StreamAfterFrame(t) \in SUBSET Tracks
    BY <1>2 DEF Inv, TypeOK, StreamAfterFrame
<1>4. \A s \in Sessions, u \in Tracks : ep[s][u].trans = "tcp" => ep[s][u].conn \in connected'
    BY <1>2, ConnectionOpen DEF Inv
<1>5. \A u \in StreamAfterFrame(t) \cap ready' : \E s \in playing : HasEp(s, u)
    BY <1>2 DEF Inv, NoIdleEncoding, StreamAfterFrame
<1> QED BY <1>1, <1>3, <1>4, <1>5, TeardownInv

\* One case per handler.
LEMMA InvNext == Inv /\ [Next]_vars => Inv'
<1> SUFFICES ASSUME Inv, [Next]_vars PROVE Inv'
    OBVIOUS
<1>1. ASSUME NEW c \in Conns, Accept(c) PROVE Inv'
    <2>1. /\ connected' = connected \cup {c}
          /\ UNCHANGED <<open, named, playing, ep, ichan, isRtcp, ready, waiting, curConn>>
        BY <1>1 DEF Accept
    <2>2. TypeOK'
        BY <2>1 DEF Inv, TypeOK
    <2>3. ChannelsMatchEndpoints'
        BY <2>1, KeepChannels DEF Inv
    <2> QED BY <2>1, <2>2, <2>3
            DEF Inv, NamedSessionsHaveEndpoints, HasEp, NoIdleEncoding, CountCoversPlaying,
                OnlyTcpHasConn
<1>2. ASSUME NEW c \in Conns, NEW s \in Sessions, DescribeUnauthorized(c, s) PROVE Inv'
    <2>1. /\ Realm /\ open' = open \cup {s}
          /\ UNCHANGED <<named, playing, ep, connected, ichan, isRtcp, ready, waiting, curConn>>
        BY <1>2 DEF DescribeUnauthorized
    <2>2. TypeOK'
        BY <2>1 DEF Inv, TypeOK
    <2>3. ChannelsMatchEndpoints'
        BY <2>1, KeepChannels DEF Inv
    <2> QED BY <2>1, <2>2, <2>3
            DEF Inv, NamedSessionsHaveEndpoints, HasEp, NoIdleEncoding, CountCoversPlaying,
                OnlyTcpHasConn
<1>3. ASSUME NEW c \in Conns, NEW s \in Sessions, TeardownSession(c, s) PROVE Inv'
    <2>1. EpsOf(s) \in SUBSET Refs
        BY DEF EpsOf, Refs
    <2> QED BY <1>3, <2>1, PlainTeardown DEF TeardownSession
<1>4. ASSUME NEW s \in Sessions, NEW t \in Tracks, Teardown({<<s, t>>}, {}),
             UNCHANGED <<connected, ready>>
      PROVE  Inv'
    <2>1. {<<s, t>>} \in SUBSET Refs
        BY DEF Refs
    <2> QED BY <1>4, <2>1, PlainTeardown
<1>5. ASSUME NEW c \in Conns, NEW s \in Sessions, NEW t \in Tracks,
             SetupRefused(c, s, t) \/ TeardownTrack(c, s, t)
      PROVE  Inv'
    BY <1>4, <1>5 DEF SetupRefused, TeardownTrack
<1>6. ASSUME NEW s \in Sessions, NEW t \in Tracks, Transport(s, t) PROVE Inv'
    <2>1. CASE RtcpTimeout(s, t) \/ UdpError(s, t)
        BY <1>4, <2>1 DEF RtcpTimeout, UdpError
    <2>2. CASE UdpReceive(s, t)
        BY <2>2, StaleInv DEF UdpReceive
    <2>3. CASE Silence(s, t)
        BY <2>3, StaleInv DEF Silence
    <2> QED BY <1>6, <2>1, <2>2, <2>3 DEF Transport
<1>7. ASSUME NEW c \in Conns, Request(c) PROVE Inv'
    BY <1>1, <1>2, <1>3, <1>5, <1>7, PlayInv, SetupUdpInv, SetupInterleavedInv, DisconnectInv
       DEF Request
<1>8. CASE UNCHANGED vars
    <2>1. UNCHANGED <<open, named, playing, ep, connected, ichan, isRtcp, ready, waiting, curConn>>
        BY <1>8 DEF vars
    <2>2. TypeOK' /\ IsFiniteSet(playing') /\ CountCoversPlaying' /\ OnlyTcpHasConn'
        BY <2>1 DEF Inv, TypeOK, CountCoversPlaying, OnlyTcpHasConn
    <2>3. ChannelsMatchEndpoints'
        BY <2>1, KeepChannels DEF Inv
    <2>4. NamedSessionsHaveEndpoints' /\ NoIdleEncoding'
        BY <2>1 DEF Inv, NamedSessionsHaveEndpoints, NoIdleEncoding, HasEp
    <2> QED BY <2>2, <2>3, <2>4 DEF Inv
<1> QED BY <1>6, <1>7, <1>8, NextFrameInv DEF Next

-----------------------------------------------------------------------------
(* Theorems.                                                                *)

\* The invariant holds in every state of every behaviour.
THEOREM Invariance == Spec => []Inv
<1>1. Inv /\ [Next]_vars => Inv'
    BY InvNext
<1> QED BY <1>1, InvInit, PTL DEF Spec

\* The state of the live source keeps its types, u32CurConn never becomes negative
\* and only named sessions play.
THEOREM TypeCorrect == Spec => []TypeOK
<1>1. Inv => TypeOK
    BY DEF Inv
<1> QED BY <1>1, Invariance, PTL

\* Interleave channels and endpoints point at each other and at open connections,
\* whatever clients set up, tear down or lose.
THEOREM ChannelsRight == Spec => []ChannelsMatchEndpoints
<1>1. Inv => ChannelsMatchEndpoints
    BY DEF Inv
<1> QED BY <1>1, Invariance, PTL

\* No endpoint outlives its session, and without a realm no session is left behind.
THEOREM SessionsRight == Spec => []NamedSessionsHaveEndpoints
<1>1. Inv => NamedSessionsHaveEndpoints
    BY DEF Inv
<1> QED BY <1>1, Invariance, PTL

\* Once a track had its first frame, its encoder runs only while somebody watches.
THEOREM EncodersRestful == Spec => []NoIdleEncoding
<1>1. Inv => NoIdleEncoding
    BY DEF Inv
<1> QED BY <1>1, Invariance, PTL

\* u32CurConn covers the playing sessions.
THEOREM CountRight == Spec => []CountCoversPlaying
<1>1. Inv => CountCoversPlaying
    BY DEF Inv
<1> QED BY <1>1, Invariance, PTL

\* A lost connection takes its own interleaved endpoints and no others.
THEOREM DisconnectExact == Spec => DisconnectFreesExactly
<1> DEFINE Exactly ==
        \A c \in connected \ connected' : \A s \in Sessions, t \in Tracks :
          HasEp(s, t) => (ep'[s][t] = IF ep[s][t].conn = c THEN NoEp ELSE ep[s][t])
<1>1. ASSUME Inv, Next, NEW c \in connected \ connected', NEW s \in Sessions,
             NEW t \in Tracks, HasEp(s, t)
      PROVE  ep'[s][t] = IF ep[s][t].conn = c THEN NoEp ELSE ep[s][t]
    <2>1. c \in Conns /\ Disconnect(c)
        <3>1. ASSUME NEW d \in Conns, Request(d) PROVE d = c /\ Disconnect(d)
            BY <1>1, <3>1 DEF Request, Accept, Disconnect, DescribeUnauthorized, Play,
               TeardownSession, SetupUdp, SetupRefused, TeardownTrack, SetupInterleaved, SetupDone
        <3>2. ASSUME NEW u \in Tracks, NextFrame(u) PROVE FALSE
            BY <1>1, <3>2 DEF NextFrame
        <3>3. ASSUME NEW r \in Sessions, NEW u \in Tracks, Transport(r, u) PROVE FALSE
            BY <1>1, <3>3 DEF Transport, RtcpTimeout, UdpError, UdpReceive, Silence
        <3> QED BY <1>1, <3>1, <3>2, <3>3 DEF Next
    <2>2. SameEndpoints(ep)
        BY <1>1 DEF SameEndpoints, Inv, TypeOK
    <2>3. ep' = EpsAfter(ep, DisconnectRefs(c))
        BY <2>1, TeardownEffect DEF Disconnect, Teardown
    <2>4. ep'[s][t] = IF <<s, t>> \in DisconnectRefs(c) THEN NoEp ELSE ep[s][t]
        BY <2>2, <2>3, EpsAfterValues
    <2>5. ASSUME <<s, t>> \in DisconnectRefs(c) PROVE ep[s][t].conn = c
        <3>1. PICK i \in Chans : ichan[c][i] = <<s, t>>
            BY <2>5 DEF DisconnectRefs
        <3> QED BY <1>1, <2>1, <3>1, ChannelEndpoint DEF Inv
    <2>6. ASSUME ep[s][t].conn = c, ep[s][t].trans = "tcp" PROVE <<s, t>> \in DisconnectRefs(c)
        <3>1. ichan[c][ep[s][t].chan] = <<s, t>> /\ isRtcp[c][ep[s][t].chan] = FALSE
            BY <1>1, <2>6, EndpointChannels DEF Inv
        <3>2. ep[s][t].chan \in Chans
            BY <1>1 DEF Inv, TypeOK, Endpoints
        <3> QED BY <3>1, <3>2, NoRefNotRef DEF DisconnectRefs
    <2>7. ep[s][t].conn = c => ep[s][t].trans = "tcp"
        BY <1>1, <2>1, NoConnAssumption DEF Inv, OnlyTcpHasConn
    <2> QED BY <2>4, <2>5, <2>6, <2>7
<1>2. Inv /\ [Next]_vars => [Exactly]_vars
    BY <1>1 DEF Exactly
<1>3. Spec => [][Exactly]_vars
    BY <1>2, Invariance, PTL DEF Spec
<1> QED BY <1>3 DEF DisconnectFreesExactly

\* No stream stops while a playing session listens to it, but for its first frame.
THEOREM StopsRight == Spec => StopOnlyUnwatched
<1> DEFINE Stops ==
        \A t \in waiting \ waiting' :
          \/ t \in ready' \ ready
          \/ \A s \in playing' : ep'[s][t].trans = "none"
<1>1. ASSUME NEW eps0, NEW ws, NEW refs, NEW ss, TeardownFrom(eps0, ws, refs, ss),
             NEW t \in ws \ waiting'
      PROVE  \A s \in playing' : ep'[s][t].trans = "none"
    <2>1. /\ ep' = EpsAfter(eps0, refs)
          /\ waiting' = TrackCheckRunning(ws, {r[2] : r \in refs}, EpsAfter(eps0, refs))
          /\ playing' = playing \ Gone(eps0, refs, ss)
        BY <1>1, TeardownEffect
    <2> QED BY <1>1, <2>1 DEF TrackCheckRunning
<1>2. ASSUME NEW refs, NEW ss, Teardown(refs, ss) PROVE Stops
    BY <1>1, <1>2 DEF Teardown
<1>3. ASSUME NEW c \in Conns, Request(c) PROVE Stops
    <2>1. CASE waiting \subseteq waiting'
        BY <2>1
    <2>2. CASE ~(waiting \subseteq waiting')
        <3>1. \/ Disconnect(c)
              \/ \E s \in Sessions : TeardownSession(c, s)
              \/ \E s \in Sessions, t \in Tracks : SetupRefused(c, s, t) \/ TeardownTrack(c, s, t)
            BY <1>3, <2>2 DEF Request, Accept, DescribeUnauthorized, Play, SetupUdp,
               SetupInterleaved, SetupDone
        <3>2. \E refs, ss : Teardown(refs, ss)
            BY <3>1 DEF Disconnect, TeardownSession, SetupRefused, TeardownTrack
        <3> QED BY <1>2, <3>2
    <2> QED BY <2>1, <2>2
<1>4. ASSUME NEW r \in Sessions, NEW u \in Tracks, Transport(r, u) PROVE Stops
    BY <1>2, <1>4 DEF Transport, RtcpTimeout, UdpError, UdpReceive, Silence
<1>5. ASSUME TypeOK, NEW u \in Tracks, NextFrame(u) PROVE Stops
    <2>1. PICK eps : \E failed \in SUBSET Refs : TeardownFrom(eps, StreamAfterFrame(u), failed, {})
        BY <1>5, NextFrameTeardown
    <2>2. ready' = ready \cup {u}
        BY <1>5 DEF NextFrame
    <2> SUFFICES ASSUME NEW t \in waiting \ waiting'
                 PROVE  t \in ready' \ ready \/ \A s \in playing' : ep'[s][t].trans = "none"
        OBVIOUS
    <2>3. CASE t \in StreamAfterFrame(u)
        BY <1>1, <2>1, <2>3
    <2>4. CASE t \notin StreamAfterFrame(u)
        BY <2>2, <2>4 DEF StreamAfterFrame
    <2> QED BY <2>3, <2>4
<1>6. TypeOK /\ [Next]_vars => [Stops]_vars
    BY <1>3, <1>4, <1>5 DEF Next
<1>7. Spec => [][Stops]_vars
    BY <1>6, TypeCorrect, PTL DEF Spec
<1> QED BY <1>7 DEF StopOnlyUnwatched
=============================================================================
