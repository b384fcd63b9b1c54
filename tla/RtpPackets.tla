------------------------------ MODULE RtpPackets ------------------------------
(***************************************************************************)
(* How a frame becomes RTP packets for one endpoint.                       *)
(*   rtp-jpeg.c      jpeg_process_frame, jpeg_send                         *)
(*   rtp-rawaudio.c  rawaudio_process_frame, rawaudio_send                 *)
(*   rtp.c           send_rtp_packet                                       *)
(*                                                                         *)
(* Sizes are numbers and contents are left out: a packet says which part   *)
(* of the frame it carries.  Parsing the JPEG headers is the choice of a   *)
(* length of the scan data (0 when they are malformed, and nothing is      *)
(* sent) and of a restart interval.  The 24 bits of the fragment offset    *)
(* are more than a frame buffer holds.                                     *)
(***************************************************************************)
EXTENDS Integers, Sequences

CONSTANTS
    MaxData,    \* max_data_size, from i32MaxRTPTransSize
    MainHdr,    \* 8, the main JPEG header
    DriHdr,     \* 4, the restart marker header
    QuantHdr,   \* 4 + 64 + 64, the quantisation tables
    Sample,     \* channels * sampsize
    Lens,       \* lengths of frames
    SeqMod,     \* 65536
    MaxTime     \* bound: the largest timestamp of a frame

ASSUME HeadersAssumption == MainHdr \in Nat /\ DriHdr \in Nat /\ QuantHdr \in Nat
\* Nothing checks the configured i32MaxRTPTransSize.  With less than this jpeg_send and
\* rawaudio_send would never end.
ASSUME MaxDataAssumption ==
    /\ MaxData \in Nat /\ MaxData > MainHdr + DriHdr + QuantHdr
    /\ Sample \in Nat \ {0} /\ Sample <= MaxData
ASSUME BoundsAssumption == Lens \subseteq Nat /\ SeqMod \in Nat \ {0} /\ MaxTime \in Nat

VARIABLES
    pc,         \* "idle", "jpeg" or "audio": in the loop of that send function
    len,        \* scan_data_len or rawaudio_len
    dri,        \* bHasDRI
    ts,         \* timestamp of the frame
    i,          \* what is sent of the frame
    hdrLen,     \* hdr_len: what plen leaves for headers
    seq,        \* seqnum
    pkts,       \* the packets of the frame so far
    held        \* the packets a receiver of pictures has since the last marker

frame == <<len, dri, ts>>
vars == <<pc, len, dri, ts, i, hdrLen, seq, pkts, held>>

Packets ==
    [seq : Nat, ts : Nat, off : Nat, len : Int, head : Nat, marker : BOOLEAN]

\* new_rtp_endpoint starts at a random sequence number.
Init ==
    /\ pc = "idle" /\ len = 0 /\ dri = FALSE /\ ts = 0
    /\ i = 0 /\ hdrLen = 0 /\ pkts = <<>> /\ held = <<>>
    /\ seq \in 0 .. SeqMod - 1

\* jpeg_process_frame: the headers of the first packet are those of the picture.
JpegFrame(l, d) ==
    /\ pc = "idle"
    /\ pc' = "jpeg" /\ len' = l /\ dri' = d /\ i' = 0 /\ pkts' = <<>>
    /\ ts' \in ts .. MaxTime
    /\ hdrLen' = MainHdr + (IF d THEN DriHdr ELSE 0) + QuantHdr
    /\ UNCHANGED <<seq, held>>

\* rawaudio_process_frame.
AudioFrame(l) ==
    /\ pc = "idle"
    /\ pc' = "audio" /\ len' = l /\ i' = 0 /\ pkts' = <<>>
    /\ ts' \in ts .. MaxTime
    /\ dri' = FALSE /\ hdrLen' = 0
    /\ UNCHANGED <<seq, held>>

\* send_rtp_packet: the endpoint's sequence number counts the packets sent.
NextSeqUnwrapped == seq + 1
NextSeq == (seq + 1) % SeqMod
SendRtpPacket(n, head, time, mark) ==
    /\ pkts' = Append(pkts, [seq |-> seq, ts |-> time, off |-> i, len |-> n,
                             head |-> head, marker |-> mark])
    /\ seq' = NextSeq
    /\ i' = i + n

\* The part of the frame the next packet takes.
JpegPlenUnlimited(rest) == rest
JpegPlen(rest) == IF rest > MaxData - hdrLen THEN MaxData - hdrLen ELSE rest
AudioPlenUnaligned(rest) == IF rest > MaxData THEN MaxData ELSE rest
AudioPlen(rest) == IF rest > MaxData THEN MaxData - (MaxData % Sample) ELSE rest

\* The headers a JPEG packet really has: all of them in the first, and then the main
\* and the restart header, though hdr_len counts the main one only.
JpegHead == IF i = 0 THEN hdrLen ELSE MainHdr + (IF dri THEN DriHdr ELSE 0)

\* The marker bit of a packet that takes n.
MarkerBeforeLast(n) == i + n >= len - 1
Marker(n) == n + i = len

\* The receiver adds the packet just sent to what it holds, and a packet with the
\* marker makes that a picture, which it shows.
Receive ==
    LET p == pkts'[Len(pkts')] IN held' = IF p.marker THEN <<>> ELSE Append(held, p)

\* One turn of jpeg_send's loop.
JpegSend ==
    /\ pc = "jpeg" /\ i < len
    /\ LET n == JpegPlen(len - i) IN SendRtpPacket(n, JpegHead, ts, Marker(n))
    /\ Receive
    /\ hdrLen' = MainHdr
    /\ UNCHANGED <<pc, frame>>

\* One turn of rawaudio_send's loop.
AudioSend ==
    /\ pc = "audio" /\ i < len
    /\ SendRtpPacket(AudioPlen(len - i), 0, ts + (i \div Sample), FALSE)
    /\ UNCHANGED <<pc, frame, hdrLen, held>>

SendDone ==
    /\ pc # "idle" /\ i >= len
    /\ pc' = "idle"
    /\ UNCHANGED <<frame, i, hdrLen, seq, pkts, held>>

\* sendmsg failed, or the RTCP report that follows a packet: the endpoint is torn down,
\* and another client sets up its own.
SendFails ==
    /\ pc # "idle" /\ (i < len \/ pkts # <<>>)
    /\ pc' = "idle" /\ len' = 0 /\ i' = 0 /\ pkts' = <<>> /\ held' = <<>>
    /\ seq' \in 0 .. SeqMod - 1
    /\ UNCHANGED <<dri, ts, hdrLen>>

Next ==
    \/ \E l \in Lens : AudioFrame(l) \/ \E d \in BOOLEAN : JpegFrame(l, d)
    \/ JpegSend \/ AudioSend \/ SendDone \/ SendFails
Spec == Init /\ [][Next]_vars

-----------------------------------------------------------------------------
(* Properties.                                                              *)

TypeOK ==
    /\ pc \in {"idle", "jpeg", "audio"}
    /\ len \in Nat /\ dri \in BOOLEAN /\ ts \in Nat
    /\ i \in Nat /\ hdrLen \in Nat
    /\ seq \in 0 .. SeqMod - 1
    /\ pkts \in Seq(Packets) /\ held \in Seq(Packets)

\* The packets of a frame carry it from its first byte without gap or overlap: each
\* begins where the one before ended, with the next sequence number (after 65535 comes
\* 0), and the last one ends with the frame once the function returns.  None is empty:
\* so the loop ends for every length of frame, and the event loop goes on.
FrameCovered ==
    /\ \A k \in 1 .. Len(pkts) : pkts[k].len > 0
    /\ \A k \in 1 .. Len(pkts) - 1 :
         /\ pkts[k + 1].off = pkts[k].off + pkts[k].len
         /\ pkts[k + 1].seq = (pkts[k].seq + 1) % SeqMod
    /\ IF pkts = <<>> THEN i = 0
       ELSE pkts[1].off = 0 /\ i = pkts[Len(pkts)].off + pkts[Len(pkts)].len
    /\ i <= len
    /\ pc = "idle" => i = len

\* A receiver that takes the packets up to a marker for a picture gets the camera's
\* pictures, one for one: in the middle of a picture it holds the packets of this one
\* and none of an earlier one, and when jpeg_send is done with it, nothing is left.  So
\* it never shows half a picture or two in one, however the lengths of successive
\* pictures meet the packet size (no packet follows the one that reaches the end, and
\* the loop ends nowhere else).
PicturesReassembled == held = IF pc = "jpeg" /\ i < len THEN pkts ELSE <<>>

\* No packet is larger than max_data_size, but for the restart header: jpeg_send does
\* not count it after the first packet.
SizeBounded ==
    \A k \in 1 .. Len(pkts) :
      pkts[k].head + pkts[k].len <= MaxData + (IF dri /\ k > 1 THEN DriHdr ELSE 0)

\* Sound is cut between samples, and the timestamp of a packet is that of its first
\* sample: the frame's plus the samples in front of it.
CutBetweenSamples ==
    pc = "audio" => \A k \in 1 .. Len(pkts) : (pkts[k].ts - ts) * Sample = pkts[k].off
=============================================================================
