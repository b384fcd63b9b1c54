# TLA+ models of the NuWicam RTSP server

The repository is the firmware of the NuWicam camera.  Its own core is
`src/sources/applications/RTSPServer`, a single-process RTSP server derived from
*spook*; around it sit a small CGI program (`httpd-cgi`) and vendored programs
(boa, busybox, ser2net, the kernel).  This directory holds the models of the
server, the configurations that check them and the proofs.

## The system

    encoder threads            main thread (event_loop)
    jpeg_loop  --exchanger-->  exchanger_read -> deliver_frame_to_stream
    alaw_loop  --exchanger-->      -> next_live_frame -> rtp->send
        \                                   |              (UDP or interleaved)
         \---- new_frame   frame heap   unref_frame
                                        do_read -> rtsp_handle_msg -> live_*
                                        timers  -> rtcp_fire

| Component | State | Operations | What is hard, what makes it correct |
|---|---|---|---|
| Frame heap, exchangers (`frame.c`) | circular list of buffers with take and put pointers; per encoder a ring, a mutex, a pipe; reference counts | `new_frame`, `ref_frame`, `unref_frame`, `deliver_frame`, `exchanger_read` | two encoders and the main thread share the heap; the byte is visible before the slot is passed. No buffer lost or in two places, no byte without its frame, FIFO order |
| Streams (`stream.c`) | destinations with `waiting` | `deliver_frame_to_stream`, `set_waiting` | callbacks change `waiting` during the walk. The encoder runs iff somebody waits |
| Encoders (`encoder-jpeg.c`, `encoder-alaw.c`) | `running` flag | capture, encode, deliver | flag polled without lock; frames arrive after a stop |
| Live source, sessions (`live.c`, `session.c`) | session list, endpoints, `ready`, `u32CurConn` | `live_open/setup/play/teardown`, `next_live_frame` | teardown from six places, also while frames are sent. No encoder runs for nobody, no stream is stopped under a listener |
| RTSP (`rtsp.c`) | named sessions, interleave channels per connection | DESCRIBE, SETUP, PLAY, TEARDOWN, disconnect | any connection may use any session; refused SETUPs; channels and endpoints point at each other |
| RTP/RTCP (`rtp.c`) | endpoints, RTCP timer, time last heard | `rtcp_send`, UDP reads, `send_rtp_packet` | timeout against late packets |
| Event loop (`event.c`) | lists of fd and timer events | add, remove, enable, one `select` pass | events removed, memory freed and fds used again during a pass. No callback on a freed object or for an older descriptor; `select` gets open descriptors only; due timers fire |
| TCP (`tcp.c`) | connections, request buffer, send ring | accept, read, write, HTTP tunnel | partial reads and writes, ring at its limit, spin on EAGAIN. Messages stay whole and in order, output is not forgotten |
| Packetisers (`rtp-jpeg.c`, `rtp-rawaudio.c`) | current frame | fragmenting | boundaries of the packet size. The packets are the frame, the marker is on the last one |
| QoS, RTCP parser | loss history | rate decisions | thresholds |
| OSS audio (`OSS.c`) | pre, zero and post buffers | `OSS_RecRead` | the order of the buffers changes with every gap, no length checks. Sound leaves in order, silence stays in its place |
| httpd-cgi `param.c` | parameter files | `WriteParamStr` | a kill at any point, concurrent CGIs. The file is whole or missing |

`PROJECT.json` lists every component with its status, every hazard with its line,
and the source lines of every definition.

## Modules

* **FrameExchange** is the frame path.  A frame is named by its heap slot; slots
  of a ring are numbered, so `next` is the successor modulo the length.  Each
  encoder goes through poll, alloc, deliver, (placed | unref), put; the main
  thread through select, dispatch, take, fanout, process, drop, put.  A critical
  section nobody can look into is one step.  `deliver_frame` is two: its byte can
  be read (`ExchangerReadByte`) before its mutex is free, and `exchanger_read`
  then waits at `ExchangerTake`.  `unref_frame` is two, because it drops the
  frame's mutex before it takes the heap's; `heapHeld` stands for the branch that
  returns with the mutex held.  `OtherHandler` is every other event handler that
  calls `set_waiting`; `ProcessFrame` allows any destination to stop, as a
  teardown during sending does.
* **FrameChannel** says what the frame path promises: a pool of buffers and a
  bounded FIFO per encoder that refuses the newest frame.  FrameExchange
  implements it (`ImplementsChannel`); the mapping reads the queue from
  `master_read` up to `slave_cur`, so a frame counts as sent when `slave_cur` has
  passed it.
* **LiveServer** is the control side, all on the event-loop thread, so each
  handler is one step.  An endpoint has its transport, connection and channel,
  whether its first packet is still to come (`force`, the code's `force_rtcp`),
  whether its RTCP timer is enabled, which that packet does (`FirstPacket`), and
  whether its client was silent for 20 seconds.  `TeardownFrom` is `live_teardown`, used by all its callers.  An
  interleaved send never fails (`interleave_send` returns 0 or 1), so only UDP
  endpoints are torn down while a frame is sent.  A session freed is a name that
  may be used again.  A request that changes nothing (OPTIONS, PAUSE, a refusal
  without effect, an accepted DESCRIBE, which closes its session again) has no
  action.
* **EventLoop** is `event.c` under the callbacks of the server.  The two lists are
  sequences; the place of the walk is the number of events behind it (`left`),
  because events are added at the head and unlinked only between passes.  A
  callback is one step, reduced to what it does to events and descriptors
  (`Effect`): the events it removes, enables and adds, the objects it frees and
  the descriptors it opens and closes.  `do_read` reads until EAGAIN and may handle
  several messages before it returns: a step is then one turn of its loop, after
  which the walk may stay where it is (`WalkOn`).  The kernel hands out the lowest free
  number.  `fresh` are the descriptors opened since `select`.  A timer's `lag` is
  how many intervals ago it was due.  `Nobody` owns the sockets that
  `connect_udp_endpoint` forgets when the ports run out.
* **TcpConn** is one connection with its client.  Bytes are units that know their
  message; `read` and `write` take any part.  `stream` is a history variable: every
  unit that was put into the ring, in order, so that StreamIntact can say what the
  client has yet to get.  `conn_write` and `tcp_conn_flush`
  are loops (`pc`), during which nothing else happens on the server: with EAGAIN
  they go round, which is no step.  A connection starts without a protocol, its
  first line tells which or ends it (`Protos`, `Parse`), and the GET of a tunnel makes
  an HTTP connection an RTSP one.  A request is a reply of some length, or the
  end of the connection; a packet of the stream (`InterleaveSend`) may come at any
  time.
* **RtpPackets** is the fragmentation of a frame: the turns of `jpeg_send` and
  `rawaudio_send` with `send_rtp_packet`.  A packet says which part of the frame
  it carries.  `held` is a receiver of the pictures (external): it collects packets
  and shows what it has when one comes with the marker.
* **OssRecord** is the recorder.  Samples are numbered as they enter; the turns of
  `GetAudioFromBuf` are steps.  Times are counted in blocks of the device.
* **ParamCgi** is an update of a parameter file, call by call, with a kill at any
  point; what stdio had not written of `.new` is then gone.  Only the process is
  killed: what the kernel was given stays.
* **MC...** modules give constants to TLC; **...Proofs** modules hold theorems.

How the modules meet: destinations in FrameExchange and tracks in LiveServer meet in
`set_waiting`: LiveServer's `waiting` is one destination per stream, FrameExchange's
is any number of them under any handler.  LiveServer's handlers are the callbacks of
EventLoop, which knows of them only what they do to events and descriptors; both have
the same ways an endpoint or a connection goes away.  TcpConn is one of EventLoop's
connections with its contents, and `OutputScheduled` there is what makes EventLoop's
write event fire.  RtpPackets is what LiveServer's `NextFrame` does for one
endpoint, and its packets are the bodies TcpConn sends; `FrameCovered` (no empty
packet) is why a callback can be one step in EventLoop.

## Runs

| Run | Instance | Shows |
|---|---|---|
| frame_exchange | 2 encoders, 3 frames, rings of 3 and 2, 1 destination | PutSlotFree, NoLostFrame, WakeupPerFrame, NoFrameLeaked, NoFrameShared, ImplementsChannel |
| frame_live | 2 encoders, 2 frames, rings of 2, fair threads | EveryFrameReturns |
| frame_fanout | 1 encoder, 3 frames, 2 destinations | RefCountsHolders, EncoderRunsIffAwaited |
| live_server | 2 sessions, 2 tracks, 2 connections, 3 channels | ChannelsMatchEndpoints, NamedSessionsHaveEndpoints, NoIdleEncoding, CountCoversPlaying, StopOnlyUnwatched, DisconnectFreesExactly |
| live_timeout | 2 sessions, 2 tracks, 1 connection, with a realm, fair timers and encoders | SilentClientReclaimed |
| live_limit | 2 sessions, a limit of 1 | AtMostMaxConnPlay is **violated** |
| event_loop | 2 connections, 1 endpoint, 4 descriptors besides those of the start | RunningOwnersAlive, NoStaleReadiness, WatchedFdsOpen, OpenFdsWatched |
| event_timers | 1 connection, 2 endpoints, 3 descriptors, timers up to 2 intervals late, a fair loop | LateTimerCalled |
| tcp_conn | ring of 5, messages of 2 and 3, 3 messages each way, fair writing and reading | StreamIntact, OutputScheduled, WaitingClientIsHeard, WriteLoopEnds, DropAfterDrops |
| rtp_packets | packets of 9, headers of 2, 1 and 3, samples of 2, lengths 0 to 26, sequence numbers modulo 5 | FrameCovered, PicturesReassembled, SizeBounded, CutBetweenSamples |
| oss_record | blocks of 2, frames of 4, buffers of 7, gaps up to 3 blocks, 20 blocks of time | SamplesInOrder, SilenceBeforeSound, BuffersHold |
| param_store | 3 parameters of 2 values, requests of up to 3 tokens, kills | WholeOrMissing, OnlyRetryLoses |

*Bounds.*  A ring of 3 slots holds two frames, so it wraps, fills and drops; a
ring of 2 drops on its second frame.  Three frames for two rings that could hold
three, with one in each thread's hands, exhaust the heap.  The code has 8 frames
and rings of 8 and 4: the theorems below hold for those too.  Two sessions on two
connections are enough for a session to span both and for one to end while the
other listens; three channels make overlapping pairs (0-1, 1-2) possible.
`MaxCount` bounds `u32CurConn`, which repeated PLAYs raise without limit.
Sessions, tracks and connections are interchangeable, so live_server and event_loop
use symmetry; the liveness runs do not.

In event_loop both connections and a UDP endpoint fit into the descriptors at once,
a connection may get the number another just closed in the same pass, and two
connections are enough for a tunnel.  In event_timers the descriptors are enough for
the connection and one UDP endpoint, next to which the other is interleaved.
`MaxUnstripped` bounds how long one `do_read` goes on, which the code does not: it
reads again as long as no more removed events than that wait for `strip_events`
(0 in the runs: it handles any number of messages up to the first that removes
something, and one more).  In tcp_conn a ring of 5 keeps one cell free, so
two messages of 2 fill it, one of 3 wraps, and a third has to flush; incoming
messages of 2 are cut anywhere and overflow the request buffer of 6.  In rtp_packets
the first packet takes 4 or 3, the others 7, sound 8 (9 is no multiple of the
sample): the lengths go over every boundary up to four packets, and the sequence
number wraps inside a frame.  oss_record uses the sizes of the device in units of
2048 bytes (blocks of 4096, frames of 8192, buffers of twice 8000).  `MaxGap` is
part of what BuffersHold says: with gaps of four blocks it does not hold, as
`PutAudioToBuf` has no length check.  `MaxLag`, `MaxIn`, `MaxOut`, `MaxTime`,
`MaxClock` and `MaxSamples` only cap counters.  tcp_conn may stop (a dropped
connection does nothing more), so deadlock is not checked there.

*Fairness.*  frame_live assumes that each encoder thread and the event loop keep
taking steps (`WF`): they are endless loops on a preemptive scheduler, and the
main thread's `select` wakes for a readable pipe.  Nothing is assumed of other
handlers.  live_timeout assumes that a due RTCP timer fires and that a stream somebody
waits for delivers frames (`WF(NextFrame)` for each track: its encoder runs, and
frame_live shows the way of a frame); nothing is assumed of clients.  What the
property starts from, a playing session whose client is silent, is not the condition
under which a timer fires: its timers may all be off, the streams may be stopped by
the end of other sessions, and the session ends only with its last endpoint.
event_timers shows of `event_loop` that a timer fires, from the loop's thread running
on (`WF(Loop)`) and from passes that end (`WF(NextPass)`: the lists are finite, and
`do_read` returns because clients do not for ever send faster than it reads).  tcp_conn assumes that
the loops on `write` go on (`WF(Writing)`), that `conn_write` is called when its
descriptor is ready again and again (`SF`: every pass of the event loop looks at
every descriptor, but frames may fill the socket between two passes), and that a
client that has not closed reads what it was sent (`WF(ClientReads)`).  The last is
an assumption about the client, and needed: without it `conn_write` and
`tcp_conn_flush` spin on EAGAIN and the whole server stands still.

*The limit.*  `live_open` compares `u32CurConn` with the limit, and only PLAY
increments it; clients that SETUP before any of them plays all get through.
`RTSPServer.c:34` configures `DEF_MAX_ALLOWED_STREAM_CONNECTION 2`.

*What the models also show*, without a line in the repository that says otherwise:
every PLAY of one session counts again but a teardown gives back one place, so
repeated PLAYs use the limit up for good (`CountCoversPlaying` is the half that
holds); a DESCRIBE whose authorisation fails leaves its session behind; the first
frame of a track stops its stream even if a client plays already, and a SETUP torn
down before that first frame stops the stream so that DESCRIBE keeps answering
404 until some client plays without it; a TEARDOWN of a track the session has not
set up tears the whole session down; a session that is set up and never played is
never reclaimed; an endpoint set up while its session plays need not be sent anything
before the next PLAY, so its timer stays off.  `connect_udp_endpoint` loses one or two sockets whenever the ports
run out.  A client that does not wait for the answer to a request loses what it sent
behind it.  A reply that does not fit into the ring is left out without a trace.
Packets of a picture with restart markers are four bytes over `max_data_size`, but
for the first.  A gap in the recording of g blocks is filled with g + 1 blocks of
silence.  The proof that the recorder's buffers suffice needs a frame of
at least two blocks.  When the device does not report its block size `OSS.c:545` falls
back to 8192 bytes, a whole frame; with blocks as long as frames a call takes out no
more than comes in, and TLC finds BuffersHold violated after gaps of two blocks
(`Drv` = `Out` = 2, `BufSize` = 4, `MaxGap` = 2).  After a kill between `remove` and
`rename` the parameters are in `.new`, and the next update destroys them there.

## Proofs

| Module | For every | Theorems |
|---|---|---|
| FrameExchangeProofs | set of encoders and destinations, heap and ring sizes | TypeCorrect, PutSlotAlwaysFree, NoFrameIsLost, OneByteOneFrame, BuffersConserved, BuffersUnshared, RefCountsRight, RunsIffAwaited |
| LiveServerProofs | set of sessions, tracks, connections, number of channels, limit | TypeCorrect, ChannelsRight, SessionsRight, EncodersRestful, CountRight, StopsRight, DisconnectExact |
| FrameChannelProofs | set of encoders and destinations, heap and ring sizes | ChannelImplemented |
| EventLoopProofs | sets of connections, endpoints and descriptors | TypeCorrect, CallbacksOnLiveObjects, NoStaleReports, SelectGetsOpenFds, NoFdForgotten |
| TcpConnProofs | ring, message and buffer sizes with `MessagesFitAssumption` | TypeCorrect, OutputNotForgotten, StreamKeptIntact, WaitingClientHeard |
| RtpPacketsProofs | packet, header and sample sizes with `MaxDataAssumption`, frame lengths | FramesCovered, PicturesWhole, SizesBounded, SoundDated |
| OssRecordProofs | block, frame and read sizes, gaps | SoundInOrder, SilenceKept; with `RoomEnough` also BuffersSuffice |
| ParamCgiProofs | files, values and requests | VersionKept, FileWholeOrMissing |

Each module proves `Invariance: Spec => []Inv` for an inductive invariant and derives
its theorems from it.

**FrameExchange.**  All follow from `Invariance: Spec => []Inv` (`RunsIffAwaited` is inductive with
the types alone).  None of the properties is inductive:
that a wake-up byte has its frame needs the exact set of occupied slots, which
needs that the full test keeps one slot free; that the put slot is free needs that
a frame in hand is not in the heap.  `Inv` is the conjunction of

* `HandInv`: which threads hold a frame, by program counter;
* `RingInv`: a slot is occupied exactly between `master_read` and
  `slave_cur`, or just filled by an encoder that holds the mutex;
* `PipeInv`: bytes in the pipe against queued frames;
* `HeapInv`: the heap's occupied slots run from take to put;
* `ShareInv`, `LeakInv`: no frame in two places, every frame in one;
* `RefInv`: reference counts by place.

Each action has a lemma with one step per conjunct; `InvNext` combines them.  The
key to `PutSlotFree` is `FullHeapHasAll`: if the put slot were occupied every heap
slot would be, so by the pigeonhole principle (`FS_Injection`) every frame would be
in the heap, also the one in the thread's hands.

**FrameChannel.**  `ChannelImplemented` uses the invariant above.  `MapInit` to
`MapReturn` say each step of the abstract specification in terms of the mapping
(`Free`, `Filling`, `Queues`, `Showing`, `Returning`); every action of FrameExchange
has a lemma that shows it to be one of them or a stutter, and `StepMaps` combines
them.  `NewFrame` is Acquire, `DeliverDrop` Refuse, `ExchangerTake` Receive,
`UnrefPut` Return; `DeliverAdvance`, not `DeliverPlace`, is Send, because only then
`slave_cur` passes the slot.  That a placed frame still has room in the queue
(`RoomForPlaced`) and that the queue's head is the frame in hand come from `RingInv`
and `PipeInv`.

**LiveServer.**  The invariants are inductive together, with two additions: only an
interleaved endpoint names a connection (`OnlyTcpHasConn`), and the playing sessions
are a finite set, so that they can be counted.  `live_teardown` has one set of lemmas
that all of its callers use.

**EventLoop.**  None of the properties is inductive alone: they speak of events that
are armed or enabled, and a disabled one may be enabled by a later callback.  `Inv` is
about the events that are not marked as removed: each has a live owner (`OwnersInv`)
that also owns its descriptor (`FdsInv`), a removed event is neither armed nor
enabled (`FlagsInv`), an object has one descriptor per kind of event, and the second
descriptor of a tunnel is shared with no event of another kind (`PairsInv`): without
the last, removing some of a connection's events could leave one on a descriptor
that is closed.  All callbacks go through one lemma: `Keeps`, `AddsTimers`, `AddsFds` and
`Watches` are what a callback has to respect, and each action is shown to respect
them.

**TcpConn.**  `Held` strengthens StreamIntact: what is on the wire and in the
ring are the units of `stream` behind those the client got, position by position,
across the wrap of the ring; StreamIntact is then an equality of sequences with equal
elements.  For WaitingClientIsHeard the units not handled yet, `reqBuf` followed by
what is on its way, come in order and behind those that made a message handled
(`InOrder`), and for a client that waits they are its last message as a whole, or
nothing (`Lockstep`).

`OutputScheduled` is inductive with the types of the ring.  The
interesting case is `drop_after`: it is set even if the reply is left out, and only
because the longest message fits into the empty ring (`MessagesFitAssumption`: 65536
bytes against at most 2048 + 8192) is there then something else on its way out.

**RtpPackets.**  `ChainInv` adds to FrameCovered where the next packet starts,
`HeadersInv` what `hdr_len` is before and after the first packet, `SoundInv` that an
unfinished frame of sound was cut at a whole sample.  PicturesReassembled relates two
counts of the same packets, the sender's and that of a receiver which knows the
markers only; it is inductive because the loop ends with the packet that reaches the
end of the scan data, and every other packet leaves something to send.  `MaxDataAssumption` is what the
configuration has to respect for the loops to end; nothing in the code checks it.

**OssRecord.**  SamplesInOrder needs SilenceBeforeSound: new silence is put between
the two buffers, and only an empty post buffer makes that the end of the sound.

`BuffersSuffice` is about the lengths alone (`SizeInv`).  `PutAudioToBuf` has no check,
so nothing keeps a buffer from running over but that it is emptied faster than
filled: a call takes `Out` out of one end and puts at most `Drv` into the other.  With
`2 * Drv <= Out` a weighted sum of the lengths (twice the post buffer plus the pre
buffer and the silence; once the silence is out, four times the pre buffer plus twice
the post buffer) does not grow from call to call, unless less than a frame is left;
`RoomEnough` says that its largest value fits.  It is a hypothesis, not an
assumption, because the code does not bound the gaps.  The oss_record instance
meets it exactly: blocks of 4096, frames of 8192 and buffers of 16000 bytes, counted in
units of 2048 of which every length is a multiple, stand gaps of up to 3 blocks, and
TLC shows that 4 are too many.

**ParamCgi.**  While `.new` is written the file is in its place and the copy a prefix;
what is renamed is complete.  WholeOrMissing compares the file with a function that is
recursive in the number of tokens done.  `HistInv` says instead that a chain of files
leads from the one the request found over these tokens (`Chain`, `Reached`), each step
one whole token, and that the copy is a prefix of the next; `ChainIsFile` shows that a
chain is unique, so that its end is what the function computes.

Where induction over data is needed (the chain of files, the events of a list that are
left) it is done in first-order form (`Least`): of the numbers that violate a claim
there would be a least one, and it is refuted.

Model-checked only: the liveness properties (EveryFrameReturns, SilentClientReclaimed,
LateTimerCalled, WriteLoopEnds, DropAfterDrops), as fairness and ENABLED are outside
the prover.  Every invariant and action property that a passing run checks is a theorem,
and so is the refinement `ImplementsChannel`.

## Plan

1. done: FrameExchange, FrameChannel, LiveServer, EventLoop, TcpConn, RtpPackets,
   OssRecord, ParamCgi; the theorems above.
2. done: the invariants of EventLoop, the refinement of FrameChannel, StreamIntact,
   WaitingClientIsHeard, BuffersHold and WholeOrMissing.
3. A composition of FrameExchange with LiveServer through `set_waiting`.

## Not modelled

* Text parsing (pmsg, configuration, HTTP pages), digest authentication and MD5,
  base64, pixel work, A-law samples, device drivers and logs: data without control
  that a property here would tell apart.
* The QoS analyser: floating-point averages against thresholds; only the encoder's bit
  rate depends on them.
* Of `event.c`: always-events, alarms, ONESHOT events, soft queues,
  `set_event_interval`, `exit_event_loop` and single passes, which nothing in the
  program calls; a clock that is set while timers wait.
* Two updates of the parameters at the same time, and a full disk: the code neither
  locks nor looks at the results of its writes.  Loss of power: `sync` comes only
  after `rename` (`param.c:159`), so what was written may not be on the disk yet.
  WholeOrMissing and OnlyRetryLoses are about a killed process.
* `conn_write` that spins on EAGAIN is a step that returns in EventLoop; TcpConn shows
  under which condition it does (WriteLoopEnds).
* Encoders and packetisers outside the Makefile's OBJS are not part of the program.
* Everything vendored: the Linux kernel and its modules, busybox, boa, ser2net and the
  other programs under `src/sources`.  They are more than 99 % of the repository's
  lines, so the share of it that the models cover is small by construction; of the
  camera's own program, the RTSP server and the parameter store, the models cover the
  control of every file that keeps state.
