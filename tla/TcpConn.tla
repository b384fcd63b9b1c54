------------------------------- MODULE TcpConn -------------------------------
(***************************************************************************)
(* One connection with its client, RTSP or HTTP: requests and interleaved  *)
(* packets are cut out of the incoming byte stream, replies and RTP        *)
(* packets go out through a ring buffer.                                   *)
(*   tcp.c   do_accept, do_read, parse_client_data, handle_request,        *)
(*           conn_write, avail_send_buf, send_data, tcp_send_pmsg          *)
(*   rtsp.c  tcp_conn_flush, interleave_send                               *)
(*                                                                         *)
(* Bytes are units <<m, k>>: the k-th unit of message m.  The sockets'     *)
(* buffers are inbox and wire.  All server code runs on one thread: while  *)
(* conn_write or tcp_conn_flush loops in write (pc), nothing else happens  *)
(* on the server.  The base64 layer of the tunnel is left out.             *)
(***************************************************************************)
EXTENDS Integers, Sequences

CONSTANTS
    SendBuf,    \* sizeof(send_buf)
    ReqBuf,     \* sizeof(req_buf) - 1, less the unit that makes it overflow
    Wire,       \* bound: what the socket's send buffer takes
    HeadLen,    \* length of the interleave header and of a reply's status line
    BodyLens,   \* lengths of packet payloads and reply bodies
    InLen,      \* length of an incoming message
    MaxIn,      \* bound: messages a client sends
    MaxOut      \* bound: messages queued for a client

ASSUME SizesAssumption ==
    /\ SendBuf \in Nat \ {0} /\ ReqBuf \in Nat \ {0} /\ Wire \in Nat \ {0}
    /\ HeadLen \in Nat \ {0} /\ BodyLens \subseteq Nat /\ InLen \in Nat \ {0}
    /\ MaxIn \in Nat /\ MaxOut \in Nat

\* The longest message fits into the empty buffer: send_buf has 65536 bytes, a packet
\* at most max_data_size = 8192 of data, a reply 2048 and an SDP of at most 8192, and
\* handle_GET measures the picture first.
ASSUME MessagesFitAssumption == \A n \in BodyLens \cup {0} : HeadLen + n < SendBuf

Cells == 0 .. SendBuf - 1
Empty == <<>>           \* a cell whose unit was written to the socket

VARIABLES
    proto,      \* "start", then "rtsp" or "http", as the first line tells
    isOpen,     \* the connection is in conn_list
    peer,       \* the client has not closed the connection
    kinds,      \* what the client sent: "request" or "packet" ($)
    inbox,      \* units sent and not yet read
    reqBuf,     \* req_buf[0 .. req_len - 1]
    handled,    \* the messages handed to handle_request or interleave_recv
    overlap,    \* the client sent a message before its last one was consumed
    buf, r, w,  \* send_buf, send_buf_r, send_buf_w
    wev,        \* write_event is enabled
    dropAfter,  \* drop_after
    pc,         \* "idle", or the loop on write: "write" (conn_write), "flush"
    body,       \* payload length interleave_send waits to queue behind the flush
    queued,     \* how many messages were accepted for sending
    stream,     \* history: their units, one message after the other
    wire,       \* units written and not yet received
    got         \* how many units the client has received

in == <<kinds, inbox, reqBuf, handled, overlap>>
out == <<buf, r, w, wev, queued, stream>>
net == <<wire, got>>
vars == <<proto, isOpen, peer, in, out, net, dropAfter, pc, body>>

\* do_accept.
Init ==
    /\ proto = "start"
    /\ isOpen = TRUE /\ peer = TRUE
    /\ kinds = <<>> /\ inbox = <<>> /\ reqBuf = <<>> /\ handled = <<>> /\ overlap = FALSE
    /\ buf = [c \in Cells |-> Empty] /\ r = 0 /\ w = 0 /\ wev = FALSE
    /\ queued = 0 /\ stream = <<>>
    /\ wire = <<>> /\ got = 0
    /\ dropAfter = FALSE /\ pc = "idle" /\ body = 0

-----------------------------------------------------------------------------
(* The send buffer.                                                         *)

\* avail_send_buf: one cell stays free, so that r = w means empty.
Avail(wr) == IF r > wr THEN r - wr - 1 ELSE SendBuf - wr + r - 1

\* send_data of units us, from the buffer b with write position wr: all or nothing.
SendData(b, wr, us) ==
    IF Avail(wr) < Len(us) THEN [b |-> b, w |-> wr]
    ELSE [b |-> [c \in Cells |->
                   LET i == (IF c >= wr THEN c - wr ELSE c - wr + SendBuf) + 1
                   IN  IF i <= Len(us) THEN us[i] ELSE b[c]],
          w |-> (wr + Len(us)) % SendBuf]

\* The check in tcp_send_pmsg and interleave_send that all of a message fits.
FitsWithoutHead(n) == Avail(w) >= n
Fits(n) == Avail(w) >= HeadLen + n

\* The units of a message with body length n, its head and its body.
HeadUnits == [k \in 1 .. HeadLen |-> <<queued + 1, k>>]
BodyUnits(n) == [k \in 1 .. n |-> <<queued + 1, HeadLen + k>>]

\* Head and body go into the buffer, one send_data each, which enables the write event.
EnqueueUnits(n) ==
    LET s == SendData(buf, w, HeadUnits)
        t == SendData(s.b, s.w, BodyUnits(n))
    IN  /\ buf' = t.b /\ w' = t.w
        /\ queued' = queued + 1 /\ stream' = stream \o HeadUnits \o BodyUnits(n)
EnqueueUnscheduled(n) == EnqueueUnits(n) /\ UNCHANGED wev
Enqueue(n) == EnqueueUnits(n) /\ wev' = TRUE

\* tcp_send_pmsg: the reply, or nothing at all when it does not fit.
SendReply(n) ==
    /\ IF Fits(n) THEN Enqueue(n) ELSE UNCHANGED <<buf, w, wev, queued, stream>>
    /\ UNCHANGED r

-----------------------------------------------------------------------------
(* The client.                                                              *)

Units(m) == [k \in 1 .. InLen |-> <<m, k>>]

ClientSends(kind) ==
    /\ isOpen /\ peer /\ Len(kinds) < MaxIn
    /\ kinds' = Append(kinds, kind)
    /\ inbox' = inbox \o Units(Len(kinds) + 1)
    /\ overlap' = (overlap \/ inbox # <<>> \/ reqBuf # <<>>)
    /\ UNCHANGED <<proto, isOpen, peer, reqBuf, handled, out, net, dropAfter, pc, body>>

ClientReads ==
    /\ isOpen /\ peer /\ wire # <<>>
    /\ wire' = Tail(wire) /\ got' = got + 1
    /\ UNCHANGED <<proto, isOpen, peer, in, out, dropAfter, pc, body>>

ClientCloses ==
    /\ isOpen /\ peer
    /\ peer' = FALSE
    /\ UNCHANGED <<proto, isOpen, in, out, net, dropAfter, pc, body>>

-----------------------------------------------------------------------------
(* Reading.                                                                 *)

\* drop_conn.
DropConn == isOpen' = FALSE /\ pc' = "idle" /\ UNCHANGED <<proto, peer, in, out, net, dropAfter, body>>

\* The end of a request is somewhere in b; a whole message is at its beginning.
HasEndUnchecked(b) == TRUE
HasEnd(b) == \E i \in DOMAIN b : kinds[b[i][1]] = "request" /\ b[i][2] = InLen
AtStart(b) == b[1][2] = 1
IsPacket(b, p) == p = "rtsp" /\ AtStart(b) /\ kinds[b[1][1]] = "packet"

\* The protocol once parse_client_data has looked for a first line in b: it ends
\* somewhere in a request, at its end at the latest, and tells which it is.
Protos(b) ==
    IF proto # "start" THEN {proto}
    ELSE {p \in {"start", "rtsp", "http"} :
            IF p = "start" THEN ~HasEnd(b)
            ELSE \E i \in DOMAIN b : kinds[b[i][1]] = "request"}

\* What parse_client_data leaves in the buffer once a message is handled: nothing,
\* whatever followed the message.
Cleared(b) == <<>>

\* parse_client_data of a connection with protocol p on the buffer b, after which the
\* rest of the inbox is i.
ParseAs(p, b, i) ==
    \/ \* not complete yet
       /\ IF IsPacket(b, p) THEN Len(b) < InLen ELSE ~HasEnd(b)
       /\ reqBuf' = b /\ inbox' = i /\ proto' = p
       /\ UNCHANGED <<isOpen, peer, kinds, handled, overlap, out, net, dropAfter, pc, body>>
    \/ \* an interleaved packet
       /\ IsPacket(b, p) /\ Len(b) >= InLen
       /\ reqBuf' = Cleared(b) /\ inbox' = i /\ proto' = p
       /\ handled' = Append(handled, b[1][1])
       /\ UNCHANGED <<isOpen, peer, kinds, overlap, out, net, dropAfter, pc, body>>
    \/ \* a request: a reply, and over HTTP the connection may be dropped behind it, or
       \* become the RTSP connection of a tunnel
       /\ ~IsPacket(b, p) /\ HasEnd(b) /\ AtStart(b) /\ queued < MaxOut
       /\ reqBuf' = Cleared(b) /\ inbox' = i
       /\ handled' = Append(handled, b[1][1])
       /\ \E n \in BodyLens : SendReply(n)
       /\ \/ proto' = p /\ dropAfter' \in {dropAfter, dropAfter \/ p = "http"}
          \/ p = "http" /\ proto' = "rtsp" /\ UNCHANGED dropAfter
       /\ UNCHANGED <<isOpen, peer, kinds, overlap, net, pc, body>>
    \/ \* the rest of a message whose beginning was thrown away, up to the end of a
       \* request: taken for an unknown method (501)
       /\ ~IsPacket(b, p) /\ HasEnd(b) /\ ~AtStart(b) /\ queued < MaxOut
       /\ reqBuf' = Cleared(b) /\ inbox' = i /\ proto' = p
       /\ SendReply(0)
       /\ dropAfter' \in {dropAfter, dropAfter \/ p = "http"}
       /\ UNCHANGED <<isOpen, peer, kinds, handled, overlap, net, pc, body>>
    \/ \* text that does not parse, or the POST that gives its descriptor to a tunnel
       /\ ~IsPacket(b, p) /\ HasEnd(b)
       /\ DropConn

\* parse_client_data.  A first line that is neither RTSP's nor HTTP's, or a line of a
\* packet that no request came before, ends the connection.
Parse(b, i) ==
    \/ \E p \in Protos(b) : ParseAs(p, b, i)
    \/ proto = "start" /\ DropConn

\* One turn of do_read's loop: read returns some of what was sent.
DoRead ==
    /\ isOpen /\ pc = "idle" /\ inbox # <<>>
    /\ \E n \in 1 .. Len(inbox) :
         LET b == reqBuf \o SubSeq(inbox, 1, n)
             i == SubSeq(inbox, n + 1, Len(inbox))
         IN  /\ Len(b) <= ReqBuf
             /\ IF Len(b) = ReqBuf THEN DropConn ELSE Parse(b, i)

\* read returns 0, or an error.
DoReadEnd == isOpen /\ pc = "idle" /\ ~peer /\ inbox = <<>> /\ DropConn

-----------------------------------------------------------------------------
(* Writing.                                                                 *)

\* The length of the first contiguous piece of the buffer.
Piece == IF w < r THEN SendBuf - r ELSE w - r

\* write takes some units of the piece; r wraps at the end of the buffer.
AdvanceUnwrapped(n) == r + n
Advance(n) == IF r + n = SendBuf THEN 0 ELSE r + n
Write ==
    /\ r # w /\ peer
    /\ \E n \in 1 .. Piece :
         /\ Len(wire) + n <= Wire
         /\ wire' = wire \o [k \in 1 .. n |-> buf[r + k - 1]]
         /\ buf' = [c \in Cells |-> IF c \in r .. r + n - 1 THEN Empty ELSE buf[c]]
         /\ r' = Advance(n)
    /\ UNCHANGED <<proto, isOpen, peer, in, w, wev, queued, stream, got, dropAfter, pc, body>>

\* conn_write is called back when the socket takes something.
ConnWrite ==
    /\ isOpen /\ pc = "idle" /\ wev /\ (Len(wire) < Wire \/ ~peer)
    /\ pc' = "write"
    /\ UNCHANGED <<proto, isOpen, peer, in, out, net, dropAfter, body>>
ConnWrites == pc = "write" /\ Write
ConnWriteFails == pc = "write" /\ r # w /\ ~peer /\ DropConn

\* All is written: the connection is dropped behind the last reply, or the event
\* disabled.
ConnWriteDone ==
    /\ pc = "write" /\ r = w
    /\ \/ dropAfter /\ DropConn
       \/ /\ ~dropAfter
          /\ wev' = FALSE /\ pc' = "idle"
          /\ UNCHANGED <<proto, isOpen, peer, in, buf, r, w, queued, stream, net, dropAfter, body>>

\* interleave_send: a packet that does not fit flushes the buffer first.
InterleaveSend(n) ==
    /\ proto = "rtsp" /\ isOpen /\ pc = "idle" /\ queued < MaxOut
    /\ IF Fits(n) THEN Enqueue(n) /\ UNCHANGED <<r, pc, body>>
       ELSE pc' = "flush" /\ body' = n /\ UNCHANGED out
    /\ UNCHANGED <<proto, isOpen, peer, in, net, dropAfter>>
Flush == pc = "flush" /\ Write

\* tcp_conn_flush returns, because the buffer is empty or on an error: the packet is
\* queued if it fits now and left out otherwise.
FlushDone ==
    /\ pc = "flush" /\ (r = w \/ ~peer)
    /\ IF Fits(body) THEN Enqueue(body) /\ UNCHANGED r ELSE UNCHANGED out
    /\ pc' = "idle" /\ body' = 0
    /\ UNCHANGED <<proto, isOpen, peer, in, net, dropAfter>>

Writing == ConnWrites \/ ConnWriteFails \/ ConnWriteDone \/ Flush \/ FlushDone
Next ==
    \/ ClientReads \/ ClientCloses
    \/ \E kind \in {"request", "packet"} : ClientSends(kind)
    \/ DoRead \/ DoReadEnd
    \/ ConnWrite \/ Writing
    \/ \E n \in BodyLens : InterleaveSend(n)
Spec == Init /\ [][Next]_vars

\* The server's thread runs; every pass of event_loop calls back the events whose
\* descriptors are ready, so frames cannot keep conn_write from its turn; and a client
\* that does not close reads what it is sent.  Without the last assumption nothing
\* holds: conn_write and tcp_conn_flush call write again and again, and the server
\* waits for this one client.
LiveSpec == Spec /\ SF_vars(ConnWrite) /\ WF_vars(Writing) /\ WF_vars(ClientReads)

-----------------------------------------------------------------------------
(* Properties.                                                              *)

TypeOK ==
    /\ proto \in {"start", "rtsp", "http"}
    /\ {isOpen, peer, overlap, wev, dropAfter} \subseteq BOOLEAN
    /\ kinds \in Seq({"request", "packet"})
    /\ inbox \in Seq(Nat \X Nat) /\ reqBuf \in Seq(Nat \X Nat) /\ handled \in Seq(Nat)
    /\ DOMAIN buf = Cells /\ r \in Cells /\ w \in Cells
    /\ pc \in {"idle", "write", "flush"} /\ body \in Nat
    /\ queued \in Nat /\ stream \in Seq(Nat \X Nat)
    /\ wire \in Seq(Nat \X Nat) /\ got \in Nat

\* What the buffer holds, in the order it will be written.
Buffered ==
    [k \in 1 .. (IF w >= r THEN w - r ELSE SendBuf - r + w) |->
       buf[IF r + k - 1 < SendBuf THEN r + k - 1 ELSE r + k - 1 - SendBuf]]

\* The client gets whole messages in the order they were queued: what it has
\* received, what is on the wire and what the buffer holds is that stream, also when
\* the buffer wraps, is full, or a packet is left out because nothing fits.  So the
\* framing of replies and interleaved packets survives.
StreamIntact == SubSeq(stream, got + 1, Len(stream)) = wire \o Buffered

\* Nothing is forgotten in the buffer: while it holds anything, or the connection is
\* to be dropped behind it, conn_write is called back.
OutputScheduled ==
    isOpen => (r # w \/ dropAfter => wev)

\* Messages are handled in order and none twice, and a client that sends its next
\* message only when the last was consumed loses none: what is not handled yet is
\* still to be read.  (A client that does not wait loses what follows a message in
\* the buffer: parse_client_data empties all of it.)
WaitingClientIsHeard ==
    /\ \A i, j \in DOMAIN handled : i < j => handled[i] < handled[j]
    /\ isOpen /\ ~overlap =>
         /\ handled = [m \in DOMAIN handled |-> m]
         /\ Len(kinds) = Len(handled) + (IF inbox = <<>> /\ reqBuf = <<>> THEN 0 ELSE 1)

\* The loops on write end, and with them the standstill of the server.
WriteLoopEnds == pc # "idle" ~> pc = "idle"

\* A connection that is to be dropped behind its last reply is dropped.
DropAfterDrops == (isOpen /\ dropAfter) ~> ~isOpen
=============================================================================
