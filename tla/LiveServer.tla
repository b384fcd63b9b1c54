------------------------------ MODULE LiveServer ------------------------------
(***************************************************************************)
(* The live RTSP source: sessions, their RTP endpoints over UDP or         *)
(* interleaved on an RTSP connection, the tracks they listen to and the    *)
(* count of playing clients.                                               *)
(*   live.c     live_open, live_setup, live_play, live_teardown,           *)
(*              next_live_frame                                            *)
(*   rtsp.c     handle_DESCRIBE, handle_SETUP, handle_PLAY,                *)
(*              handle_TEARDOWN, interleave channels, lost connections     *)
(*   session.c  new_session, del_session                                   *)
(*   rtp.c      endpoints, RTCP timer, the 20 second client timeout        *)
(*   stream.c   set_waiting, as seen from its one destination per track    *)
(*                                                                         *)
(* All of it runs on the event_loop thread, so every handler is one step.  *)
(* OPTIONS and PAUSE (always 501: no session has a pause function) change  *)
(* nothing and are left out, as are requests refused without effect.  A    *)
(* request may name any session: the code does not tie a session to the    *)
(* connection that set it up.                                              *)
(***************************************************************************)
EXTENDS Integers, FiniteSets

CONSTANTS
    Sessions,   \* names of sessions; a freed one is used again
    Tracks,     \* the tracks of the source
    Conns,      \* RTSP connections
    NChan,      \* MAX_INTERLEAVE_CHANNELS
    MaxConn,    \* u32MaxConnNum
    Realm,      \* the location has a realm: requests need authorisation
    MaxCount    \* bound: the largest u32CurConn explored

ASSUME NChanAssumption == NChan \in Nat /\ NChan >= 2
ASSUME CountAssumption == MaxConn \in Nat /\ MaxCount \in Nat
ASSUME RealmAssumption == Realm \in BOOLEAN

Chans == 0 .. NChan - 1
NoConn == "none"
ASSUME NoConnAssumption == NoConn \notin Conns
NoEp == [trans |-> "none", conn |-> NoConn, chan |-> 0, force |-> FALSE, rtcpOn |-> FALSE,
         stale |-> FALSE]
UdpEp == [NoEp EXCEPT !.trans = "udp", !.force = TRUE]
TcpEp(c, ch) == [NoEp EXCEPT !.trans = "tcp", !.conn = c, !.chan = ch, !.force = TRUE]
Endpoints ==
    [trans : {"none", "udp", "tcp"}, conn : Conns \cup {NoConn}, chan : Chans,
     force : BOOLEAN, rtcpOn : BOOLEAN, stale : BOOLEAN]
NoRef == <<>>
Refs == Sessions \X Tracks

VARIABLES
    open,       \* sessions in the source's sess_list
    named,      \* those with an rtsp_session, whose id a client can send
    playing,    \* those with the playing flag
    ep,         \* session.ep: trans, conn and rtp channel, force_rtcp (force),
                \* the RTCP timer is enabled (rtcpOn), nothing received for 20
                \* seconds (stale)
    connected,  \* open connections
    ichan,      \* rtsp_conn.ichan[].ep, as a session and a track
    isRtcp,     \* rtsp_conn.ichan[].rtcp
    ready,      \* live_track.ready
    waiting,    \* the track's stream_destination.waiting: its encoder runs
    curConn     \* u32CurConn

vars == <<open, named, playing, ep, connected, ichan, isRtcp, ready, waiting, curConn>>

\* Configured: set_track made every track wait for its first frame.
Init ==
    /\ open = {} /\ named = {} /\ playing = {}
    /\ ep = [s \in Sessions |-> [t \in Tracks |-> NoEp]]
    /\ connected = {}
    /\ ichan = [c \in Conns |-> [i \in Chans |-> NoRef]]
    /\ isRtcp = [c \in Conns |-> [i \in Chans |-> FALSE]]
    /\ ready = {}
    /\ waiting = Tracks
    /\ curConn = 0

HasEp(s, t) == ep[s][t].trans # "none"

-----------------------------------------------------------------------------
(* Teardown.                                                                *)

\* The channels del_rtp_endpoint clears for the endpoints in refs.
Cleared(refs, c, i) ==
    \E r \in refs : LET e == ep[r[1]][r[2]]
                    IN  e.trans = "tcp" /\ e.conn = c /\ i \in {e.chan, e.chan + 1}

\* track_check_running for the tracks ts: those of the waiting tracks ws that go
\* on waiting, because a playing session still has an endpoint on them.
TrackCheckRunningSkipped(ws, ts, eps) == ws
TrackCheckRunning(ws, ts, eps) ==
    ws \ {t \in ts : \A s \in playing : eps[s][t].trans = "none"}

\* The sessions of ss that have no endpoint left in eps.
FreedSessionsTooEarly(ss, eps) == ss
FreedSessions(ss, eps) == {s \in ss : \A t \in Tracks : eps[s][t].trans = "none"}

\* What is left of u32CurConn when the sessions in gone are freed: each that plays
\* gives its place back.
CountAfterAnySession(gone) == curConn - Cardinality(gone)
CountAfter(gone) ==
    LET n == Cardinality(gone \cap playing) IN IF curConn > n THEN curConn - n ELSE 0

\* live_teardown of the endpoints refs (pairs of a session and a track), with the
\* endpoints eps0 and the waiting tracks ws: they are deleted with their channels
\* and their tracks checked; the sessions of refs and those in ss are freed when
\* no endpoint is left, and a playing one gives its place in u32CurConn back.
TeardownFrom(eps0, ws, refs, ss) ==
    LET eps  == [s \in Sessions |->
                  [t \in Tracks |-> IF <<s, t>> \in refs THEN NoEp ELSE eps0[s][t]]]
        gone == FreedSessions(ss \cup {r[1] : r \in refs}, eps)
    IN  /\ ep' = eps
        /\ ichan' = [c \in Conns |-> [i \in Chans |->
                       IF Cleared(refs, c, i) THEN NoRef ELSE ichan[c][i]]]
        /\ waiting' = TrackCheckRunning(ws, {r[2] : r \in refs}, eps)
        /\ open' = open \ gone
        /\ named' = named \ gone
        /\ playing' = playing \ gone
        /\ curConn' = CountAfter(gone)
        /\ UNCHANGED isRtcp
Teardown(refs, ss) == TeardownFrom(ep, waiting, refs, ss)

\* Every endpoint of a session.
EpsOf(s) == {<<s, t>> : t \in {u \in Tracks : HasEp(s, u)}}

-----------------------------------------------------------------------------
(* Requests.                                                                *)

Accept(c) ==
    /\ c \notin connected
    /\ connected' = connected \cup {c}
    /\ UNCHANGED <<open, named, playing, ep, ichan, isRtcp, ready, waiting, curConn>>

\* handle_DESCRIBE opens a session before it verifies the authorisation, and a
\* refused request leaves it behind: it has no id, so no request can close it.
\* (An accepted DESCRIBE closes its session again: nothing changes.)
DescribeUnauthorized(c, s) ==
    /\ Realm
    /\ c \in connected
    /\ curConn < MaxConn
    /\ s \notin open
    /\ open' = open \cup {s}
    /\ UNCHANGED <<named, playing, ep, connected, ichan, isRtcp, ready, waiting, curConn>>

\* The session a SETUP works on: a new one if live_open still admits one, or the
\* named one of the Session header.
SetupSession(s) == (s \notin open /\ curConn < MaxConn) \/ s \in named

\* The pair of channels rtsp_interleave_setup takes is free.
PairFreeUnchecked(c, ch) == ichan[c][ch] = NoRef
PairFree(c, ch) == ichan[c][ch] = NoRef /\ ichan[c][ch + 1] = NoRef

SetupDone(c, s, t, e) ==
    /\ ep' = [ep EXCEPT ![s][t] = e]
    /\ open' = open \cup {s}
    /\ named' = named \cup {s}
    /\ UNCHANGED <<playing, connected, ready, waiting, curConn>>

\* handle_SETUP over UDP.
SetupUdp(c, s, t) ==
    /\ c \in connected
    /\ SetupSession(s) /\ ~HasEp(s, t)
    /\ SetupDone(c, s, t, UdpEp)
    /\ UNCHANGED <<ichan, isRtcp>>

\* handle_SETUP interleaved, at the channels the client asks for or at the first
\* free even pair.
SetupInterleaved(c, s, t, ch) ==
    /\ c \in connected
    /\ SetupSession(s) /\ ~HasEp(s, t)
    /\ PairFree(c, ch)
    /\ SetupDone(c, s, t, TcpEp(c, ch))
    /\ ichan' = [ichan EXCEPT ![c][ch] = <<s, t>>, ![c][ch + 1] = <<s, t>>]
    /\ isRtcp' = [isRtcp EXCEPT ![c][ch] = FALSE, ![c][ch + 1] = TRUE]

\* handle_SETUP with a transport that cannot be had (no free channel, no port, an
\* unknown protocol): the endpoint live_setup made is torn down again, which
\* checks the track and frees a session that has no other endpoint.
SetupRefused(c, s, t) ==
    /\ c \in connected
    /\ SetupSession(s) /\ ~HasEp(s, t)
    /\ Teardown({<<s, t>>}, {})
    /\ UNCHANGED <<connected, ready>>

\* handle_PLAY: every PLAY counts, also of a session that plays already.
Play(c, s) ==
    /\ c \in connected
    /\ s \in named
    /\ curConn < MaxCount
    /\ playing' = playing \cup {s}
    /\ curConn' = curConn + 1
    /\ waiting' = waiting \cup {t \in Tracks : HasEp(s, t)}
    /\ UNCHANGED <<open, named, ep, connected, ichan, isRtcp, ready>>

\* handle_TEARDOWN of the session, or of a track of it that has no endpoint.
TeardownSession(c, s) ==
    /\ c \in connected
    /\ s \in named
    /\ Teardown(EpsOf(s), {s})
    /\ UNCHANGED <<connected, ready>>

\* handle_TEARDOWN of one track.
TeardownTrack(c, s, t) ==
    /\ c \in connected
    /\ s \in named /\ HasEp(s, t)
    /\ Teardown({<<s, t>>}, {})
    /\ UNCHANGED <<connected, ready>>

\* The connection is lost: rtsp_conn_disconnect tears down the endpoint of every
\* RTP channel.
DisconnectRefsWholeSession(c) ==
    UNION {EpsOf(ichan[c][i][1]) : i \in {j \in Chans : ichan[c][j] # NoRef}}
DisconnectRefs(c) == {ichan[c][i] : i \in {j \in Chans : ichan[c][j] # NoRef /\ ~isRtcp[c][j]}}
Disconnect(c) ==
    /\ c \in connected
    /\ connected' = connected \ {c}
    /\ Teardown(DisconnectRefs(c), {})
    /\ UNCHANGED ready

-----------------------------------------------------------------------------
(* Frames, RTCP and time.                                                   *)

\* The endpoints a frame of track t is sent to.
Listeners(t) == {<<s, t>> : s \in {u \in playing : HasEp(u, t)}}
Udp(refs) == {r \in refs : ep[r[1]][r[2]].trans = "udp"}

\* rtcp_send's test for a client timeout; "QuickTime apparently doesn't send RTCP
\* over TCP".
TimedOut(s, t) == ep[s][t].trans = "udp" /\ ep[s][t].stale

\* The end of send_rtp_packet for an endpoint's first packet: RTCP was sent, and its
\* timer is enabled.
FirstPacketTimerOff(e) == [e EXCEPT !.force = FALSE]
FirstPacket(e) == [e EXCEPT !.force = FALSE, !.rtcpOn = TRUE]

\* next_live_frame: the first frame makes the track ready and stops its stream;
\* then it is sent to every playing session.  The first packet of an endpoint
\* sends RTCP and enables its timer; over UDP that fails after 20 silent seconds,
\* and any send may fail: the endpoint is torn down.
StreamAfterFrameAlways(t) == waiting \ {t}
StreamAfterFrame(t) == IF t \in ready THEN waiting ELSE waiting \ {t}
NextFrame(t) ==
    /\ t \in waiting
    /\ ready' = ready \cup {t}
    /\ LET first == {r \in Listeners(t) : ep[r[1]][r[2]].force}
           late  == {r \in first : TimedOut(r[1], r[2])}
           eps   == [s \in Sessions |-> [u \in Tracks |->
                       IF <<s, u>> \in first THEN FirstPacket(ep[s][u]) ELSE ep[s][u]]]
       IN  \E failed \in SUBSET Udp(Listeners(t)) :
             /\ late \subseteq failed
             /\ TeardownFrom(eps, StreamAfterFrame(t), failed, {})
    /\ UNCHANGED connected

\* rtcp_fire, when the client timed out.
RtcpTimeout(s, t) ==
    /\ ep[s][t].rtcpOn
    /\ TimedOut(s, t)
    /\ Teardown({<<s, t>>}, {})
    /\ UNCHANGED <<connected, ready>>

\* udp_rtp_read, udp_rtcp_read or rtcp_fire met an error on the socket.
UdpError(s, t) ==
    /\ ep[s][t].trans = "udp"
    /\ Teardown({<<s, t>>}, {})
    /\ UNCHANGED <<connected, ready>>

\* udp_rtp_read or udp_rtcp_read received something: last_rtcp_recv is now.
UdpReceive(s, t) ==
    /\ ep[s][t].trans = "udp"
    /\ ep[s][t].stale
    /\ ep' = [ep EXCEPT ![s][t].stale = FALSE]
    /\ UNCHANGED <<open, named, playing, connected, ichan, isRtcp, ready, waiting, curConn>>

\* More than 20 seconds passed since the client was last heard.
Silence(s, t) ==
    /\ ep[s][t].trans = "udp"
    /\ ~ep[s][t].stale
    /\ ep' = [ep EXCEPT ![s][t].stale = TRUE]
    /\ UNCHANGED <<open, named, playing, connected, ichan, isRtcp, ready, waiting, curConn>>

-----------------------------------------------------------------------------
Request(c) ==
    \/ Accept(c) \/ Disconnect(c)
    \/ \E s \in Sessions :
         \/ DescribeUnauthorized(c, s) \/ Play(c, s) \/ TeardownSession(c, s)
         \/ \E t \in Tracks :
              \/ SetupUdp(c, s, t) \/ SetupRefused(c, s, t) \/ TeardownTrack(c, s, t)
              \/ \E ch \in 0 .. NChan - 2 : SetupInterleaved(c, s, t, ch)

Transport(s, t) ==
    RtcpTimeout(s, t) \/ UdpError(s, t) \/ UdpReceive(s, t) \/ Silence(s, t)

Next ==
    \/ \E c \in Conns : Request(c)
    \/ \E t \in Tracks : NextFrame(t)
    \/ \E s \in Sessions, t \in Tracks : Transport(s, t)

Spec == Init /\ [][Next]_vars

\* event_loop calls the timers that are due in every pass, and an encoder that runs
\* delivers frames.  Nothing is assumed of the clients.
LiveSpec ==
    /\ Spec
    /\ \A s \in Sessions, t \in Tracks : WF_vars(RtcpTimeout(s, t))
    /\ \A t \in Tracks : WF_vars(NextFrame(t))

-----------------------------------------------------------------------------
(* Properties.                                                              *)

TypeOK ==
    /\ open \subseteq Sessions /\ named \subseteq open /\ playing \subseteq named
    /\ ep \in [Sessions -> [Tracks -> Endpoints]]
    /\ connected \subseteq Conns
    /\ ichan \in [Conns -> [Chans -> Refs \cup {NoRef}]]
    /\ isRtcp \in [Conns -> [Chans -> BOOLEAN]]
    /\ ready \subseteq Tracks /\ waiting \subseteq Tracks
    /\ curConn \in Nat

\* The pair of channels at i of connection c is that of the endpoint (s, t).
OwnsPair(s, t, c, i) ==
    /\ c \in connected /\ i + 1 \in Chans
    /\ ichan[c][i] = <<s, t>> /\ isRtcp[c][i] = FALSE
    /\ ichan[c][i + 1] = <<s, t>> /\ isRtcp[c][i + 1] = TRUE

\* Endpoint e is interleaved on connection c, with i one of its channels.
UsesChannel(e, c, i) ==
    e.trans = "tcp" /\ e.conn = c /\ e.chan = (IF isRtcp[c][i] THEN i - 1 ELSE i)

\* Interleave channels and endpoints point at each other: the two channels of an
\* interleaved endpoint are its own and its connection is open, and a channel in use
\* belongs to such an endpoint.  So neither interleave_recv nor rtsp_conn_disconnect
\* follows a pointer to a freed endpoint, and no endpoint writes to a freed connection.
ChannelsMatchEndpoints ==
    /\ \A s \in Sessions, t \in Tracks :
         ep[s][t].trans = "tcp" => OwnsPair(s, t, ep[s][t].conn, ep[s][t].chan)
    /\ \A c \in Conns, i \in Chans :
         ichan[c][i] # NoRef => UsesChannel(ep[ichan[c][i][1]][ichan[c][i][2]], c, i)

\* A session a client can name has an endpoint, and only such a session has one:
\* no endpoint outlives its session and no named session is left behind empty by
\* timeouts, lost connections or partial teardowns.  A session nobody can name is left
\* in sess_list by the refused DESCRIBE alone, so never where there is no realm.
NamedSessionsHaveEndpoints ==
    /\ \A s \in Sessions : s \in named <=> \E t \in Tracks : HasEp(s, t)
    /\ ~Realm => open = named

\* No encoder runs for nobody: once its first frame was seen, a track waits for
\* frames only while a playing session has an endpoint on it.
NoIdleEncoding ==
    \A t \in waiting \cap ready : \E s \in playing : HasEp(s, t)

\* u32CurConn never falls below the number of playing sessions, so live_teardown
\* always has a place to give back.
CountCoversPlaying == curConn >= Cardinality(playing)

\* A stream is only stopped when nobody listens: a track stops waiting only if no
\* playing session is left on it, or because of its first frame.
StopOnlyUnwatched ==
    [][\A t \in waiting \ waiting' :
         \/ t \in ready' \ ready
         \/ \A s \in playing' : ep'[s][t].trans = "none"]_vars

\* A lost connection takes away exactly the endpoints interleaved on it: not those
\* of other connections, not the UDP ones of the same session.
DisconnectFreesExactly ==
    [][\A c \in connected \ connected' : \A s \in Sessions, t \in Tracks :
         HasEp(s, t) =>
           (ep'[s][t] = IF ep[s][t].conn = c THEN NoEp ELSE ep[s][t])]_vars

\* The track's stream runs for the endpoint, or has sent it a packet.
Served(s, t) == t \in waiting \/ ep[s][t].rtcpOn
Silent(s, t) == ep[s][t].trans = "udp" /\ ep[s][t].stale

\* A client that plays over UDP and goes away without a TEARDOWN does not hold its
\* session for ever: when all its endpoints are silent, the session ends and its place
\* is free for others, or the client is heard on one of them (or sets another one up).
\* The endpoints need not have been sent anything yet.  It takes a frame for each of
\* them, which must reach a stream that nobody else's teardown has stopped and must
\* turn the timer on, then the timers, and the last endpoint must take the session
\* along.  (An endpoint set up after PLAY is not served before the next PLAY.)
SilentClientReclaimed ==
    \A s \in Sessions :
      (s \in playing /\ \A t \in Tracks : HasEp(s, t) => Silent(s, t) /\ Served(s, t))
        ~> (s \notin playing \/ \E t \in Tracks : HasEp(s, t) /\ ~Silent(s, t))

\* The configured limit on clients that stream at the same time
\* (DEF_MAX_ALLOWED_STREAM_CONNECTION).  It does not hold: live_open compares
\* u32CurConn, which only PLAY increments, when a session is set up.
AtMostMaxConnPlay == Cardinality(playing) <= MaxConn
=============================================================================
