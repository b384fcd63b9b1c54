------------------------------ MODULE EventLoop ------------------------------
(***************************************************************************)
(* The event loop of the server and the objects that own its events.       *)
(*   event.c  event lists, flags, event_loop, strip_events                 *)
(*   tcp.c    do_accept, do_read, conn_write, drop_conn, handle_QT_tunnel  *)
(*   rtp.c    new_rtp_endpoint, connect_udp_endpoint, del_rtp_endpoint,    *)
(*            rtcp_fire, udp_rtp_read, udp_rtcp_read                       *)
(*                                                                         *)
(* A pass marks the enabled events RUNNING, selects, walks the timers and  *)
(* then the descriptors and calls back those that are due; a callback may  *)
(* free connections and endpoints, close descriptors and open new ones     *)
(* with the same numbers while the walk goes on.  A callback is one step;  *)
(* what it does to events and descriptors is kept, with every outcome its  *)
(* code has, and what it reads and writes is a choice.  Which descriptors  *)
(* select reported is chosen as the walk meets them.  Time is counted in   *)
(* intervals of a timer.  Always-events, alarms, ONESHOT, soft queues,     *)
(* exit_event_loop and single passes have no caller in the server and are  *)
(* left out.                                                               *)
(***************************************************************************)
EXTENDS Integers, Sequences, FiniteSets, SequencesExt

CONSTANTS
    Conns,      \* struct conn memory; a freed one is used again
    Eps,        \* struct rtp_endpoint memory
    NFds,       \* bound: descriptors besides those opened at start-up
    MaxLag,     \* bound: intervals a timer can be late
    MaxUnstripped   \* bound: removed events in the lists when do_read reads on

ASSUME BoundsAssumption == NFds \in Nat /\ MaxLag \in Nat \ {0} /\ MaxUnstripped \in Nat

ListenFd == 1           \* of tcp_listen
PipeFd == 2             \* the exchangers' pipe
Fds == 1 .. 2 + NFds
NoFd == 0
Server == "server"      \* owner of the two events made at start-up
None == "none"
Nobody == "nobody"      \* "owner" of a descriptor whose number is forgotten
Objects == Conns \cup Eps \cup {Server}

\* Connections, endpoints and the server's own data are different memory.
ASSUME ObjectsAssumption ==
    /\ Conns \cap Eps = {}
    /\ {Server, None, Nobody} \cap (Conns \cup Eps) = {}

FdKinds == {"accept", "frame", "read", "second", "write", "rtp", "rtcp"}

\* struct event: the callback (kind) and its data (obj), the descriptor, the flags
\* ENABLED, RUNNING and REMOVE, and how many intervals ago the timer was due.
Events ==
    [kind : FdKinds \cup {"timer"}, obj : Objects, fd : Fds \cup {NoFd},
     enabled : BOOLEAN, running : BOOLEAN, rm : BOOLEAN, lag : 0 .. MaxLag]

VARIABLES
    timers,     \* time_event_list
    fdl,        \* fd_event_list
    alive,      \* connections and endpoints that are not freed
    fdOwner,    \* who has a descriptor open
    on,         \* the connection an endpoint is interleaved on, or None
    pc,         \* the list the pass walks: "time" or "fd"
    left,       \* how many events at the tail of that list it has not met yet
    fresh       \* descriptors opened since select

vars == <<timers, fdl, alive, fdOwner, on, pc, left, fresh>>

\* add_fd_event: enabled, and not RUNNING before the next pass.
AddFdEventRunning(k, o, f) ==
    [kind |-> k, obj |-> o, fd |-> f, enabled |-> TRUE, running |-> TRUE, rm |-> FALSE, lag |-> 0]
AddFdEvent(k, o, f) ==
    [kind |-> k, obj |-> o, fd |-> f, enabled |-> TRUE, running |-> FALSE, rm |-> FALSE, lag |-> 0]

\* do_accept's write event and new_rtp_endpoint's timer, disabled at once.
AddWriteEvent(o, f) == [AddFdEvent("write", o, f) EXCEPT !.enabled = FALSE]
AddRtcpTimer(p) == [AddFdEvent("timer", p, NoFd) EXCEPT !.enabled = FALSE]

\* remove_event.
RemoveEventStillRunning(e) == [e EXCEPT !.rm = TRUE, !.enabled = FALSE]
RemoveEvent(e) == [e EXCEPT !.rm = TRUE, !.enabled = FALSE, !.running = FALSE]

Init ==
    /\ timers = <<>>
    /\ fdl = <<AddFdEvent("accept", Server, ListenFd), AddFdEvent("frame", Server, PipeFd)>>
    /\ alive = {}
    /\ fdOwner = [f \in Fds |-> IF f \in {ListenFd, PipeFd} THEN Server ELSE None]
    /\ on = [p \in Eps |-> None]
    /\ pc = "fd" /\ left = 0 /\ fresh = {}

-----------------------------------------------------------------------------
(* The pass.                                                                *)

\* The time of a timer has come.
DueUnchecked(e) == TRUE
DueOneTooLate(e) == e.lag > MaxLag
Due(e) == e.lag > 0

\* Where the walk still is to come: events are inserted at the head and unlinked only
\* by strip_events, so it goes on from any event.
Ahead(list) == Len(list) - left + 1 .. Len(list)

\* The timers the walk will still call, as far as they are due by now.
TimersAhead ==
    {n \in Ahead(timers) : pc = "time" /\ timers[n].running /\ Due(timers[n])}

\* The event called next: the first due timer, or, behind the timers, an event whose
\* descriptor select reported.
CallsTimer(n) == n \in TimersAhead /\ \A m \in TimersAhead : n <= m
CallsFd(n) ==
    /\ TimersAhead = {}
    /\ n \in (IF pc = "time" THEN DOMAIN fdl ELSE Ahead(fdl))
    /\ fdl[n].running

\* resched_event in the walk: the timer is enabled, so its next time is one
\* interval after the one it was due at; otherwise one interval from now.
Resched(e) == [e EXCEPT !.enabled = TRUE, !.rm = FALSE, !.lag = IF e.enabled THEN @ - 1 ELSE 0]

\* The top of event_loop: an event is RUNNING iff it is enabled.
Arm(e) == [e EXCEPT !.running = e.enabled]

\* The n-th lowest number of a set.
Nth(S, n) == CHOOSE x \in S : Cardinality({y \in S : y < x}) = n - 1

\* strip_events, and the marking of the events that are left, in their order.
StripAndArm(list) ==
    LET kept == {n \in DOMAIN list : ~list[n].rm}
    IN  [k \in 1 .. Cardinality(kept) |-> Arm(list[Nth(kept, k)])]

\* The walk is over: the next pass begins and selects.
NextPass ==
    /\ TimersAhead = {}
    /\ timers' = StripAndArm(timers)
    /\ fdl' = StripAndArm(fdl)
    /\ pc' = "time" /\ left' = Len(timers') /\ fresh' = {}
    /\ UNCHANGED <<alive, fdOwner, on>>

-----------------------------------------------------------------------------
(* Callbacks.  A live event is named by its owner and kind; e is the one    *)
(* that is called.                                                          *)

\* The kernel hands out the lowest number that is free.
FreeFds == {f \in Fds : fdOwner[f] = None}

\* The events a freed object removes (drop_conn, del_rtp_endpoint).
EventsOfButSecond(objs) == objs \X {"read", "write", "timer", "rtp", "rtcp"}
EventsOf(objs) == objs \X {"read", "second", "write", "timer", "rtp", "rtcp"}

\* An event after a callback that removes the events gone, enables those in enable
\* and disables those in disable.
Flagged(e, gone, enable, disable) ==
    LET key == <<e.obj, e.kind>>
    IN  IF e.rm THEN e
        ELSE IF key \in gone THEN RemoveEvent(e)
        ELSE IF key \in enable THEN [e EXCEPT !.enabled = TRUE]
        ELSE IF key \in disable THEN [e EXCEPT !.enabled = FALSE]
        ELSE e

\* How many events are removed and wait for strip_events.
Unstripped == Len(SelectSeq(timers \o fdl, LAMBDA e : e.rm))

\* The walk goes on behind the event that was called, the n-th of its list.  do_read
\* calls read again until it says EAGAIN, so one that did not remove its own event may
\* handle more at once: the walk stays at that event, which is then met again.
ReadsOn(e, gone) ==
    /\ e.kind \in {"read", "second"} /\ <<e.obj, e.kind>> \notin gone
    /\ Unstripped <= MaxUnstripped
WalkOn(e, gone, rest) == {rest} \cup IF ReadsOn(e, gone) THEN {rest + 1} ELSE {}

\* The callback of e: besides, events are added at the heads of the lists, the latest
\* first; a timer was rescheduled before it was called.
EffectOn(e, gone, enable, disable, newTimers, newFds) ==
    LET list  == IF e.kind = "timer" THEN timers ELSE fdl
        n     == CHOOSE n \in DOMAIN list : list[n] = e
        timed == IF e.kind = "timer" THEN [timers EXCEPT ![n] = Resched(e)] ELSE timers
        Flag(x) == Flagged(x, gone, enable, disable)
    IN  /\ timers' = newTimers \o [k \in DOMAIN timed |-> Flag(timed[k])]
        /\ fdl' = newFds \o [k \in DOMAIN fdl |-> Flag(fdl[k])]
        /\ pc' = IF e.kind = "timer" THEN "time" ELSE "fd"
        /\ left' \in WalkOn(e, gone, Len(list) - n)
Effect(e, gone, enable, newTimers, newFds) == EffectOn(e, gone, enable, {}, newTimers, newFds)

\* drop_conn tears down the endpoints interleaved on the connection first.
Freed(o) == {o} \cup {p \in Eps \cap alive : on[p] = o}
ClosedNone(objs) == fdOwner
Closed(objs) == [f \in Fds |-> IF fdOwner[f] \in objs THEN None ELSE fdOwner[f]]
Drop(e, objs) ==
    /\ Effect(e, EventsOf(objs), {}, <<>>, <<>>)
    /\ alive' = alive \ objs
    /\ fdOwner' = Closed(objs)
    /\ UNCHANGED <<on, fresh>>

\* Nothing but a reply: send_data enables the write event of connection o.
Writes(o) == {<<o, "write">>}
Quiet(e) == Effect(e, {}, {}, <<>>, <<>>) /\ UNCHANGED <<alive, fdOwner, on, fresh>>
Reply(e, o) == Effect(e, {}, Writes(o), <<>>, <<>>) /\ UNCHANGED <<alive, fdOwner, on, fresh>>

\* do_accept.
Accept(e, o) ==
    /\ o \in Conns \ alive /\ FreeFds # {}
    /\ LET f == Nth(FreeFds, 1)
       IN  /\ Effect(e, {}, {}, <<>>, <<AddWriteEvent(o, f), AddFdEvent("read", o, f)>>)
           /\ fdOwner' = [fdOwner EXCEPT ![f] = o]
           /\ fresh' = fresh \cup {f}
    /\ alive' = alive \cup {o}
    /\ UNCHANGED on
DoAccept(e) == e.kind = "accept" /\ (Quiet(e) \/ \E o \in Conns : Accept(e, o))

\* exchanger_read and next_live_frame: UDP endpoints that cannot be sent to are torn
\* down, those served may have sent their first RTCP (which enables the timer), and
\* the connections they are interleaved on have something to write.
Frame(e, failed, served) ==
    /\ e.kind = "frame"
    /\ failed \subseteq {p \in Eps \cap alive : on[p] = None}
    /\ served \subseteq (Eps \cap alive) \ failed
    /\ Effect(e, EventsOf(failed),
              (served \X {"timer"}) \cup UNION {Writes(on[p]) : p \in served}, <<>>, <<>>)
    /\ alive' = alive \ failed
    /\ fdOwner' = Closed(failed)
    /\ UNCHANGED <<on, fresh>>

\* A SETUP: new_rtp_endpoint, then connect_udp_endpoint or an interleaved channel.
SetupUdp(e, p) ==
    /\ p \in Eps \ alive /\ Cardinality(FreeFds) >= 2
    /\ LET f == Nth(FreeFds, 1)  g == Nth(FreeFds, 2)
       IN  /\ Effect(e, {}, Writes(e.obj),
                     <<AddRtcpTimer(p)>>,
                     <<AddFdEvent("rtcp", p, g), AddFdEvent("rtp", p, f)>>)
           /\ fdOwner' = [fdOwner EXCEPT ![f] = p, ![g] = p]
           /\ fresh' = fresh \cup {f, g}
    /\ alive' = alive \cup {p}
    /\ on' = [on EXCEPT ![p] = None]
SetupInterleaved(e, p) ==
    /\ p \in Eps \ alive
    /\ Effect(e, {}, Writes(e.obj), <<AddRtcpTimer(p)>>, <<>>)
    /\ alive' = alive \cup {p}
    /\ on' = [on EXCEPT ![p] = e.obj]
    /\ UNCHANGED <<fdOwner, fresh>>

\* A SETUP whose transport is refused tears its endpoint down again.  When
\* connect_udp_endpoint finds no free pair of ports it forgets the RTCP socket and
\* perhaps the RTP socket: it closes neither.
SetupRefused(e, p, forgotten) ==
    /\ p \in Eps \ alive /\ Cardinality(FreeFds) >= forgotten
    /\ Effect(e, {}, Writes(e.obj), <<RemoveEvent(AddRtcpTimer(p))>>, <<>>)
    /\ LET lost == {Nth(FreeFds, k) : k \in 1 .. forgotten}
       IN  fdOwner' = [f \in Fds |-> IF f \in lost THEN Nobody ELSE fdOwner[f]]
    /\ UNCHANGED <<alive, on, fresh>>

\* A TEARDOWN of one track or, in live_teardown without an endpoint, of all those ps of
\* a session, any session.
TeardownEps(e, ps) ==
    /\ ps # {} /\ ps \subseteq alive
    /\ Effect(e, EventsOf(ps), Writes(e.obj), <<>>, <<>>)
    /\ alive' = alive \ ps
    /\ fdOwner' = Closed(ps)
    /\ UNCHANGED <<on, fresh>>

\* The tunnel's second descriptor of a connection, if it has one.
SecondFd(o) == {fdl[n].fd : n \in {m \in DOMAIN fdl :
                  fdl[m].obj = o /\ fdl[m].kind = "second" /\ ~fdl[m].rm}}

\* handle_QT_tunnel of the POST: the descriptor becomes the second one of the
\* connection g that sent the GET, in place of an earlier one, and the connection
\* it came from is dropped without it.  An HTTP connection has no endpoints.
JoinTunnel(e, g) ==
    /\ e.kind = "read"
    /\ g \in (Conns \cap alive) \ {e.obj}
    /\ Freed(e.obj) = {e.obj} /\ SecondFd(e.obj) = {}
    /\ Effect(e, {<<g, "second">>} \cup EventsOf({e.obj}), {}, <<>>,
              <<AddFdEvent("second", g, e.fd)>>)
    /\ fdOwner' = [f \in Fds |-> IF f = e.fd THEN g
                                 ELSE IF f \in SecondFd(g) THEN None
                                 ELSE fdOwner[f]]
    /\ alive' = alive \ {e.obj}
    /\ UNCHANGED <<on, fresh>>

\* do_read: end of file on the tunnel's second descriptor.
TunnelCloses(e) ==
    /\ e.kind = "second"
    /\ Effect(e, {<<e.obj, "second">>}, {}, <<>>, <<>>)
    /\ fdOwner' = [fdOwner EXCEPT ![e.fd] = None]
    /\ UNCHANGED <<alive, on, fresh>>

\* A turn of do_read's loop, on the connection's own descriptor or on the one of its
\* tunnel: part of a request, a request, or a reason to drop the connection.
DoRead(e) ==
    /\ e.kind \in {"read", "second"}
    /\ \/ Quiet(e) \/ Reply(e, e.obj)
       \/ \E p \in Eps : SetupUdp(e, p) \/ SetupInterleaved(e, p)
       \/ \E ps \in SUBSET Eps : TeardownEps(e, ps)
       \/ \E p \in Eps, forgotten \in 0 .. 2 : SetupRefused(e, p, forgotten)
       \/ \E g \in Conns : JoinTunnel(e, g)
       \/ TunnelCloses(e)
       \/ Drop(e, Freed(e.obj))

\* conn_write: all is written and the event disabled, or the connection dropped.
ConnWrite(e) ==
    /\ e.kind = "write"
    /\ \/ /\ EffectOn(e, {}, {}, Writes(e.obj), <<>>, <<>>)
          /\ UNCHANGED <<alive, fdOwner, on, fresh>>
       \/ Drop(e, Freed(e.obj))

\* rtcp_fire, udp_rtp_read, udp_rtcp_read: all well (RTCP over TCP is queued on the
\* connection), or the UDP endpoint is torn down.
EpEvent(e) ==
    /\ e.kind \in {"timer", "rtp", "rtcp"}
    /\ \/ Reply(e, on[e.obj])
       \/ on[e.obj] = None /\ Drop(e, {e.obj})

Callback(e) ==
    \/ DoAccept(e) \/ DoRead(e) \/ ConnWrite(e) \/ EpEvent(e)
    \/ \E failed, served \in SUBSET Eps : Frame(e, failed, served)

\* An interval passes for a timer (also for one that is not enabled yet).
Tick(n) ==
    /\ ~timers[n].rm
    /\ timers[n].lag < MaxLag
    /\ timers' = [timers EXCEPT ![n].lag = @ + 1]
    /\ UNCHANGED <<fdl, alive, fdOwner, on, pc, left, fresh>>

Loop ==
    \/ NextPass
    \/ \E n \in DOMAIN timers : CallsTimer(n) /\ Callback(timers[n])
    \/ \E n \in DOMAIN fdl : CallsFd(n) /\ Callback(fdl[n])
Next == Loop \/ \E n \in DOMAIN timers : Tick(n)
Spec == Init /\ [][Next]_vars

\* The loop thread runs on; select returns at the latest when a timer is due.  A pass
\* ends: its lists are finite, and a client does not for ever send faster than do_read
\* reads.
LiveSpec == Spec /\ WF_vars(Loop) /\ WF_vars(NextPass)

-----------------------------------------------------------------------------
(* Properties.                                                              *)

TypeOK ==
    /\ timers \in Seq(Events) /\ fdl \in Seq(Events)
    /\ alive \subseteq Conns \cup Eps
    /\ fdOwner \in [Fds -> Objects \cup {None, Nobody}]
    /\ on \in [Eps -> Conns \cup {None}]
    /\ pc \in {"time", "fd"}
    /\ left \in 0 .. Len(IF pc = "time" THEN timers ELSE fdl)
    /\ fresh \subseteq Fds

\* No callback runs on a freed connection or endpoint: whatever the callbacks of a
\* pass freed, every event the walk can still call belongs to a live object.
RunningOwnersAlive ==
    \A e \in ToSet(timers \o fdl) : e.running => ~e.rm /\ e.obj \in alive \cup {Server}

\* No callback is told that a descriptor is ready because an earlier one with the
\* same number was: an event the walk can call has a descriptor that was open
\* already when select reported it.
NoStaleReadiness == \A e \in ToSet(fdl) : e.running => e.fd \notin fresh

\* select is never given a closed descriptor (it would fail, and no descriptor
\* would be served any more), nor one of another object: a descriptor that is
\* watched is open and belongs to the object the callback gets.
WatchedFdsOpen == \A e \in ToSet(fdl) : e.enabled => fdOwner[e.fd] = e.obj

\* Nothing that is open is forgotten: an open descriptor has an enabled read event,
\* so an end of file is noticed and the descriptor closed.  The exception are the
\* sockets connect_udp_endpoint forgets when the ports run out.
OpenFdsWatched ==
    \A f \in Fds : fdOwner[f] \notin {None, Nobody} =>
      \E e \in ToSet(fdl) : e.fd = f /\ e.kind # "write" /\ e.enabled

\* A timer that is enabled and late is called, one interval each time, or its
\* endpoint is freed, however busy the descriptors are.
Late(p) == \E e \in ToSet(timers) : e.obj = p /\ e.enabled /\ e.lag = MaxLag
LateTimerCalled == \A p \in Eps : Late(p) ~> ~Late(p)
=============================================================================
