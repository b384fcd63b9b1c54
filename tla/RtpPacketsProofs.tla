--------------------------- MODULE RtpPacketsProofs ---------------------------
(***************************************************************************)
(* Packetisation is right for every length of frame, every limit on the    *)
(* size of a packet that leaves room behind the headers, and every size of *)
(* a sample.  The invariant adds to the properties how much the headers    *)
(* take where: all of them before the first packet, the main one after it. *)
(***************************************************************************)
EXTENDS RtpPackets, TLAPS, SequenceTheorems

AllHdr == MainHdr + (IF dri THEN DriHdr ELSE 0) + QuantHdr

\* What hdr_len is in jpeg_send.
HeadersInv == pc = "jpeg" => hdrLen = IF pkts = <<>> THEN AllHdr ELSE MainHdr

\* The packets so far are the next ones in turn, and they end at i and at seq.
ChainInv ==
    /\ \A k \in 1 .. Len(pkts) : pkts[k].len > 0
    /\ \A k \in 1 .. Len(pkts) - 1 :
         /\ pkts[k + 1].off = pkts[k].off + pkts[k].len
         /\ pkts[k + 1].seq = (pkts[k].seq + 1) % SeqMod
    /\ IF pkts = <<>> THEN i = 0
       ELSE /\ pkts[1].off = 0
            /\ i = pkts[Len(pkts)].off + pkts[Len(pkts)].len
            /\ seq = (pkts[Len(pkts)].seq + 1) % SeqMod
    /\ i <= len
    /\ pc = "idle" => i = len

\* Sound is cut after whole samples until its last packet.
SoundInv ==
    pc = "audio" =>
      /\ i < len => i = Sample * (i \div Sample)
      /\ CutBetweenSamples

Inv == TypeOK /\ HeadersInv /\ ChainInv /\ PicturesReassembled /\ SizeBounded /\ SoundInv

-----------------------------------------------------------------------------
\* What a packet takes of the rest of a frame: something, no more than there is, and no
\* more than fits behind the headers.
LEMMA JpegPlenFits ==
    ASSUME NEW rest \in Nat \ {0}, hdrLen \in Nat, MaxData > hdrLen
    PROVE  /\ JpegPlen(rest) \in Nat \ {0} /\ JpegPlen(rest) <= rest
           /\ hdrLen + JpegPlen(rest) <= MaxData
BY MaxDataAssumption DEF JpegPlen

\* Whole samples: what rawaudio_send takes when there is more to come.
LEMMA AudioPlenFits ==
    ASSUME NEW rest \in Nat \ {0}
    PROVE  /\ AudioPlen(rest) \in Nat \ {0} /\ AudioPlen(rest) <= rest
           /\ AudioPlen(rest) <= MaxData
           /\ AudioPlen(rest) < rest => AudioPlen(rest) = Sample * (MaxData \div Sample)
<1>1. CASE rest <= MaxData
    BY <1>1, MaxDataAssumption DEF AudioPlen
<1>2. CASE rest > MaxData
    <2>1. MaxData % Sample \in 0 .. Sample - 1
        BY MaxDataAssumption
    <2>2. MaxData - (MaxData % Sample) = Sample * (MaxData \div Sample)
        BY MaxDataAssumption
    <2>3. AudioPlen(rest) = MaxData - (MaxData % Sample)
        BY <1>2 DEF AudioPlen
    <2> QED BY <1>2, <2>1, <2>2, <2>3, MaxDataAssumption
<1> QED BY <1>1, <1>2, MaxDataAssumption

\* A whole number of samples and then another.
LEMMA WholeSamples ==
    ASSUME NEW a \in Nat, NEW b \in Nat
    PROVE  Sample * a + Sample * b = Sample * ((Sample * a + Sample * b) \div Sample)
<1>1. Sample * a + Sample * b = (a + b) * Sample /\ a + b \in Nat
    BY MaxDataAssumption
<1>2. ((a + b) * Sample) \div Sample = a + b
    BY <1>1, MaxDataAssumption
<1> QED BY <1>1, <1>2, MaxDataAssumption

\* The timestamp of a packet behind whole samples.
LEMMA TimeOfSample ==
    ASSUME ts \in Nat, NEW x \in Nat, x = Sample * (x \div Sample)
    PROVE  x \div Sample \in Nat /\ ((ts + (x \div Sample)) - ts) * Sample = x
<1>1. x \div Sample \in Nat
    BY MaxDataAssumption
<1>2. (ts + (x \div Sample)) - ts = x \div Sample
    BY <1>1
<1> QED BY <1>1, <1>2, MaxDataAssumption

\* A packet is added to the chain.
LEMMA SendPacket ==
    ASSUME TypeOK, ChainInv, pc # "idle", UNCHANGED <<pc, len>>,
           NEW n \in Nat \ {0}, n <= len - i, NEW head \in Nat, NEW time \in Nat,
           NEW mark \in BOOLEAN, SendRtpPacket(n, head, time, mark)
    PROVE  /\ ChainInv'
           /\ pkts' \in Seq(Packets) /\ i' \in Nat /\ seq' \in 0 .. SeqMod - 1
           /\ Len(pkts') = Len(pkts) + 1 /\ pkts' # <<>>
           /\ \A k \in 1 .. Len(pkts) : pkts'[k] = pkts[k]
           /\ pkts'[Len(pkts) + 1] = [seq |-> seq, ts |-> time, off |-> i, len |-> n,
                                      head |-> head, marker |-> mark]
<1> DEFINE p == [seq |-> seq, ts |-> time, off |-> i, len |-> n, head |-> head, marker |-> mark]
<1>1. pkts' = Append(pkts, p) /\ seq' = (seq + 1) % SeqMod /\ i' = i + n
    BY DEF SendRtpPacket, NextSeq
<1>2. p \in Packets /\ pkts \in Seq(Packets)
    BY DEF TypeOK, Packets
<1>3. p.seq = seq /\ p.off = i /\ p.len = n
    OBVIOUS
<1> HIDE DEF p
<1>4. /\ pkts' \in Seq(Packets) /\ Len(pkts') = Len(pkts) + 1 /\ Len(pkts) \in Nat
      /\ pkts' # <<>>
      /\ \A k \in 1 .. Len(pkts) : pkts'[k] = pkts[k]
      /\ pkts'[Len(pkts) + 1] = p
    BY <1>1, <1>2
<1>5. i' \in Nat /\ i' <= len' /\ seq' \in 0 .. SeqMod - 1
    BY <1>1, BoundsAssumption DEF TypeOK
<1>6. \A k \in 1 .. Len(pkts') : pkts'[k].len > 0
    BY <1>3, <1>4 DEF ChainInv
<1>7. ASSUME NEW k \in 1 .. Len(pkts') - 1
      PROVE  /\ pkts'[k + 1].off = pkts'[k].off + pkts'[k].len
             /\ pkts'[k + 1].seq = (pkts'[k].seq + 1) % SeqMod
    <2>1. CASE k < Len(pkts)
        <3>1. k \in 1 .. Len(pkts) - 1 /\ k + 1 \in 1 .. Len(pkts) /\ k \in 1 .. Len(pkts)
            BY <1>4, <2>1
        <3> QED BY <1>4, <3>1 DEF ChainInv
    <2>2. CASE k = Len(pkts)
        <3>1. pkts # <<>> /\ pkts'[k] = pkts[k] /\ pkts'[k + 1] = p
            BY <1>4, <2>2
        <3> QED BY <1>3, <2>2, <3>1 DEF ChainInv
    <2> QED BY <1>4, <2>1, <2>2
<1>8. /\ pkts'[1].off = 0
      /\ i' = pkts'[Len(pkts')].off + pkts'[Len(pkts')].len
      /\ seq' = (pkts'[Len(pkts')].seq + 1) % SeqMod
    <2>1. CASE pkts = <<>>
        <3>1. i = 0 /\ Len(pkts) = 0
            BY <2>1 DEF ChainInv
        <3> QED BY <1>1, <1>3, <1>4, <3>1
    <2>2. CASE pkts # <<>>
        <3>1. 1 \in 1 .. Len(pkts)
            BY <1>2, <1>4, <2>2
        <3> QED BY <1>1, <1>3, <1>4, <2>2, <3>1 DEF ChainInv
    <2> QED BY <2>1, <2>2
<1>9. ChainInv'
    BY <1>4, <1>5, <1>6, <1>7, <1>8 DEF ChainInv
<1> QED BY <1>4, <1>5, <1>9 DEF p

\* i is 0 exactly before the first packet.
LEMMA FirstPacket == ASSUME TypeOK, ChainInv PROVE i = 0 <=> pkts = <<>>
<1>1. ASSUME pkts # <<>> PROVE i > 0
    <2>1. Len(pkts) \in 1 .. Len(pkts) /\ pkts[Len(pkts)] \in Packets
        BY <1>1 DEF TypeOK
    <2>2. pkts[Len(pkts)].off \in Nat /\ pkts[Len(pkts)].len \in Int /\ pkts[Len(pkts)].len > 0
        BY <2>1 DEF ChainInv, Packets
    <2> QED BY <1>1, <2>2 DEF ChainInv
<1> QED BY <1>1 DEF ChainInv

-----------------------------------------------------------------------------
(* The invariant.                                                           *)

LEMMA InvInit == Init => Inv
<1> SUFFICES ASSUME Init PROVE Inv
    OBVIOUS
<1>1. pkts = <<>> /\ Len(pkts) = 0 /\ pkts \in Seq(Packets)
    BY DEF Init
<1>2. 1 .. Len(pkts) = {} /\ 1 .. Len(pkts) - 1 = {}
    BY <1>1
<1>3. TypeOK /\ held = <<>>
    BY <1>1 DEF Init, TypeOK
<1>4. ChainInv
    BY <1>1, <1>2 DEF Init, ChainInv
<1>5. PicturesReassembled /\ SizeBounded
    BY <1>1, <1>2, <1>3 DEF Init, PicturesReassembled, SizeBounded
<1>6. HeadersInv /\ SoundInv
    BY DEF Init, HeadersInv, SoundInv
<1> QED BY <1>3, <1>4, <1>5, <1>6 DEF Inv

LEMMA FrameInv ==
    ASSUME Inv, NEW l \in Lens, AudioFrame(l) \/ \E d \in BOOLEAN : JpegFrame(l, d)
    PROVE  Inv'
<1>1. l \in Nat /\ ts \in Nat
    BY BoundsAssumption DEF Inv, TypeOK
<1>2. /\ ts' \in Nat /\ pkts' = <<>> /\ i' = 0 /\ len' = l /\ seq' = seq
      /\ held' = <<>>
    <2>1. pc = "idle" /\ held' = held
        BY DEF AudioFrame, JpegFrame
    <2>2. held = <<>>
        BY <2>1 DEF Inv, PicturesReassembled
    <2> QED BY <1>1, <2>1, <2>2, BoundsAssumption DEF AudioFrame, JpegFrame
<1>3. 1 .. Len(pkts') = {} /\ 1 .. Len(pkts') - 1 = {} /\ pkts' \in Seq(Packets)
    BY <1>2
<1>4. PicturesReassembled' /\ SizeBounded' /\ CutBetweenSamples'
    BY <1>2, <1>3 DEF PicturesReassembled, SizeBounded, CutBetweenSamples
<1>5. CASE AudioFrame(l)
    <2>1. pc' = "audio" /\ dri' = FALSE /\ hdrLen' = 0
        BY <1>5 DEF AudioFrame
    <2>2. TypeOK'
        BY <1>1, <1>2, <1>3, <2>1 DEF Inv, TypeOK
    <2>3. ChainInv'
        BY <1>1, <1>2, <1>3, <2>1 DEF ChainInv
    <2>4. 0 = Sample * (0 \div Sample)
        BY MaxDataAssumption
    <2>5. SoundInv' /\ HeadersInv'
        BY <1>2, <1>4, <2>1, <2>4 DEF SoundInv, HeadersInv
    <2> QED BY <1>4, <2>2, <2>3, <2>5 DEF Inv
<1>6. CASE \E d \in BOOLEAN : JpegFrame(l, d)
    <2>1. PICK d \in BOOLEAN : JpegFrame(l, d)
        BY <1>6
    <2>2. /\ pc' = "jpeg" /\ dri' = d
          /\ hdrLen' = MainHdr + (IF d THEN DriHdr ELSE 0) + QuantHdr
        BY <2>1 DEF JpegFrame
    <2>3. hdrLen' \in Nat /\ hdrLen' = AllHdr'
        BY <2>2, HeadersAssumption DEF AllHdr
    <2>4. TypeOK'
        BY <1>1, <1>2, <1>3, <2>2, <2>3 DEF Inv, TypeOK
    <2>5. ChainInv'
        BY <1>1, <1>2, <1>3, <2>2 DEF ChainInv
    <2>6. SoundInv' /\ HeadersInv'
        BY <1>2, <2>2, <2>3 DEF SoundInv, HeadersInv
    <2> QED BY <1>4, <2>4, <2>5, <2>6 DEF Inv
<1> QED BY <1>5, <1>6

\* A turn of jpeg_send.
LEMMA JpegSendInv == ASSUME Inv, JpegSend PROVE Inv'
<1> DEFINE n == JpegPlen(len - i)
           head == JpegHead
<1>0. TypeOK /\ HeadersInv /\ ChainInv /\ PicturesReassembled /\ SizeBounded
    BY DEF Inv
<1>1. /\ pc = "jpeg" /\ i < len /\ hdrLen' = MainHdr /\ UNCHANGED <<pc, len, dri, ts>>
      /\ SendRtpPacket(n, head, ts, Marker(n))
    BY DEF JpegSend, frame
<1>2. len \in Nat /\ i \in Nat /\ len - i \in Nat \ {0} /\ hdrLen \in Nat /\ ts \in Nat
      /\ dri \in BOOLEAN /\ Len(pkts) \in Nat
    BY <1>0, <1>1 DEF TypeOK
<1>3. hdrLen = IF pkts = <<>> THEN AllHdr ELSE MainHdr
    BY <1>0, <1>1 DEF HeadersInv
<1>4. hdrLen < MaxData
    BY <1>2, <1>3, HeadersAssumption, MaxDataAssumption DEF AllHdr
<1>5. n \in Nat \ {0} /\ n <= len - i /\ hdrLen + n <= MaxData
    BY <1>2, <1>4, JpegPlenFits
<1>6. /\ head \in Nat
      /\ head = IF pkts = <<>> THEN hdrLen ELSE hdrLen + (IF dri THEN DriHdr ELSE 0)
    BY <1>0, <1>2, <1>3, FirstPacket, HeadersAssumption DEF JpegHead
<1>7. Marker(n) \in BOOLEAN /\ (Marker(n) <=> i + n = len)
    BY <1>2, <1>5 DEF Marker
<1> HIDE DEF n, head
<1> DEFINE p == [seq |-> seq, ts |-> ts, off |-> i, len |-> n, head |-> head,
                 marker |-> Marker(n)]
<1>8. /\ ChainInv' /\ pkts' \in Seq(Packets) /\ i' \in Nat /\ seq' \in 0 .. SeqMod - 1
      /\ Len(pkts') = Len(pkts) + 1 /\ pkts' # <<>>
      /\ \A k \in 1 .. Len(pkts) : pkts'[k] = pkts[k]
      /\ pkts'[Len(pkts) + 1] = p
    BY <1>0, <1>1, <1>2, <1>5, <1>6, <1>7, SendPacket
<1>9. PicturesReassembled' /\ held' \in Seq(Packets)
    <2>1. held = pkts
        BY <1>0, <1>1 DEF PicturesReassembled
    <2>2. /\ pkts' = Append(pkts, p) /\ i' = i + n
          /\ pkts'[Len(pkts')] = p /\ p.marker = Marker(n)
        BY <1>1, <1>2, <1>8 DEF SendRtpPacket
    <2>3. held' = IF Marker(n) THEN <<>> ELSE Append(held, p)
        BY <2>2 DEF JpegSend, Receive
    <2>4. i' < len' <=> ~Marker(n)
        BY <1>1, <1>2, <1>5, <1>7, <2>2
    <2> HIDE DEF p
    <2>5. held' = IF i' < len' THEN pkts' ELSE <<>>
        BY <2>1, <2>2, <2>3, <2>4
    <2> QED BY <1>1, <1>8, <2>5 DEF PicturesReassembled
<1>10. HeadersInv'
    BY <1>1, <1>8 DEF HeadersInv
<1>11. TypeOK'
    BY <1>0, <1>1, <1>2, <1>8, <1>9, HeadersAssumption DEF TypeOK
<1>12. SizeBounded'
    <2>1. ASSUME NEW k \in 1 .. Len(pkts')
          PROVE  pkts'[k].head + pkts'[k].len <= MaxData + (IF dri' /\ k > 1 THEN DriHdr ELSE 0)
        <3>1. CASE k \in 1 .. Len(pkts)
            BY <1>0, <1>1, <1>8, <3>1 DEF SizeBounded
        <3>2. CASE k = Len(pkts) + 1
            <4>1. pkts'[k].head = head /\ pkts'[k].len = n
                BY <1>8, <3>2
            <4>2. pkts = <<>> <=> k = 1
                BY <1>0, <1>2, <3>2 DEF TypeOK
            <4> QED BY <1>1, <1>2, <1>5, <1>6, <4>1, <4>2, HeadersAssumption, MaxDataAssumption
        <3> QED BY <1>2, <1>8, <3>1, <3>2
    <2> QED BY <2>1 DEF SizeBounded
<1>13. SoundInv'
    BY <1>1 DEF SoundInv
<1> QED BY <1>8, <1>9, <1>10, <1>11, <1>12, <1>13 DEF Inv

\* A turn of rawaudio_send.
LEMMA AudioSendInv == ASSUME Inv, AudioSend PROVE Inv'
<1> DEFINE n == AudioPlen(len - i)
           time == ts + (i \div Sample)
<1>0. TypeOK /\ ChainInv /\ PicturesReassembled /\ SizeBounded /\ SoundInv
    BY DEF Inv
<1>1. /\ pc = "audio" /\ i < len /\ UNCHANGED <<pc, len, dri, ts, hdrLen, held>>
      /\ SendRtpPacket(n, 0, time, FALSE)
    BY DEF AudioSend, frame
<1>2. len \in Nat /\ i \in Nat /\ len - i \in Nat \ {0} /\ ts \in Nat /\ Len(pkts) \in Nat
      /\ dri \in BOOLEAN
    BY <1>0, <1>1 DEF TypeOK
<1>3. /\ n \in Nat \ {0} /\ n <= len - i /\ n <= MaxData
      /\ n < len - i => n = Sample * (MaxData \div Sample)
    BY <1>2, AudioPlenFits
<1>4. i = Sample * (i \div Sample) /\ CutBetweenSamples
    BY <1>0, <1>1 DEF SoundInv
<1>5. i \div Sample \in Nat /\ time \in Nat /\ (time - ts) * Sample = i
    BY <1>2, <1>4, TimeOfSample
<1> HIDE DEF n, time
<1> DEFINE p == [seq |-> seq, ts |-> time, off |-> i, len |-> n, head |-> 0, marker |-> FALSE]
<1>6. /\ ChainInv' /\ pkts' \in Seq(Packets) /\ i' \in Nat /\ seq' \in 0 .. SeqMod - 1
      /\ Len(pkts') = Len(pkts) + 1 /\ pkts' # <<>>
      /\ \A k \in 1 .. Len(pkts) : pkts'[k] = pkts[k]
      /\ pkts'[Len(pkts) + 1] = p
    <2> DEFINE none == 0
               unmarked == FALSE
               q == [seq |-> seq, ts |-> time, off |-> i, len |-> n, head |-> none,
                     marker |-> unmarked]
    <2>1. /\ pc # "idle" /\ none \in Nat /\ unmarked \in BOOLEAN /\ UNCHANGED <<pc, len>>
          /\ SendRtpPacket(n, none, time, unmarked)
        BY <1>1
    <2>2. p = q
        OBVIOUS
    <2> HIDE DEF none, unmarked, p
    <2>3. /\ ChainInv' /\ pkts' \in Seq(Packets) /\ i' \in Nat /\ seq' \in 0 .. SeqMod - 1
          /\ Len(pkts') = Len(pkts) + 1 /\ pkts' # <<>>
          /\ \A k \in 1 .. Len(pkts) : pkts'[k] = pkts[k]
          /\ pkts'[Len(pkts) + 1] = q
        BY <1>0, <1>3, <1>5, <2>1, SendPacket
    <2> QED BY <2>2, <2>3
<1>7. TypeOK'
    BY <1>0, <1>1, <1>6 DEF TypeOK
<1>8. SizeBounded'
    <2>1. ASSUME NEW k \in 1 .. Len(pkts')
          PROVE  pkts'[k].head + pkts'[k].len <= MaxData + (IF dri' /\ k > 1 THEN DriHdr ELSE 0)
        <3>1. CASE k \in 1 .. Len(pkts)
            BY <1>0, <1>1, <1>6, <3>1 DEF SizeBounded
        <3>2. CASE k = Len(pkts) + 1
            <4>1. pkts'[k].head = 0 /\ pkts'[k].len = n
                BY <1>6, <3>2
            <4> QED BY <1>1, <1>2, <1>3, <4>1, HeadersAssumption, MaxDataAssumption
        <3> QED BY <1>2, <1>6, <3>1, <3>2
    <2> QED BY <2>1 DEF SizeBounded
<1>9. CutBetweenSamples'
    <2>1. ASSUME NEW k \in 1 .. Len(pkts') PROVE (pkts'[k].ts - ts') * Sample = pkts'[k].off
        <3>1. CASE k \in 1 .. Len(pkts)
            BY <1>1, <1>4, <1>6, <3>1 DEF CutBetweenSamples
        <3>2. CASE k = Len(pkts) + 1
            BY <1>1, <1>5, <1>6, <3>2
        <3> QED BY <1>2, <1>6, <3>1, <3>2
    <2> QED BY <2>1 DEF CutBetweenSamples
<1>10. ASSUME i' < len' PROVE i' = Sample * (i' \div Sample)
    <2>1. i' = i + n
        BY <1>1 DEF SendRtpPacket
    <2>2. n = Sample * (MaxData \div Sample) /\ MaxData \div Sample \in Nat
        BY <1>1, <1>2, <1>3, <1>10, <2>1, MaxDataAssumption
    <2>3. i' = Sample * (i \div Sample) + Sample * (MaxData \div Sample)
        BY <1>4, <2>1, <2>2
    <2> HIDE DEF n
    <2> QED BY <1>5, <2>2, <2>3, WholeSamples
<1>11. SoundInv' /\ HeadersInv' /\ PicturesReassembled'
    BY <1>0, <1>1, <1>9, <1>10 DEF SoundInv, HeadersInv, PicturesReassembled
<1> QED BY <1>6, <1>7, <1>8, <1>11 DEF Inv

LEMMA InvNext == Inv /\ [Next]_vars => Inv'
<1> SUFFICES ASSUME Inv, [Next]_vars PROVE Inv'
    OBVIOUS
<1>1. CASE SendDone
    <2>1. /\ pc' = "idle" /\ i >= len /\ UNCHANGED <<len, dri, ts, i, hdrLen, seq, pkts, held>>
        BY <1>1 DEF SendDone, frame
    <2>2. i = len /\ TypeOK /\ ChainInv /\ SizeBounded /\ held = <<>>
        BY <2>1 DEF Inv, TypeOK, ChainInv, PicturesReassembled
    <2>3. TypeOK' /\ SizeBounded'
        BY <2>1, <2>2 DEF TypeOK, SizeBounded
    <2>4. ChainInv'
        BY <2>1, <2>2 DEF ChainInv
    <2>5. HeadersInv' /\ SoundInv' /\ PicturesReassembled'
        BY <2>1, <2>2 DEF HeadersInv, SoundInv, PicturesReassembled
    <2> QED BY <2>3, <2>4, <2>5 DEF Inv
<1>2. CASE SendFails
    <2>1. /\ pc' = "idle" /\ len' = 0 /\ i' = 0 /\ pkts' = <<>> /\ seq' \in 0 .. SeqMod - 1
          /\ held' = <<>> /\ UNCHANGED <<dri, ts, hdrLen>>
        BY <1>2 DEF SendFails
    <2>2. 1 .. Len(pkts') = {} /\ 1 .. Len(pkts') - 1 = {} /\ pkts' \in Seq(Packets)
        BY <2>1
    <2>3. TypeOK'
        BY <2>1, <2>2 DEF Inv, TypeOK
    <2>4. ChainInv'
        BY <2>1, <2>2 DEF ChainInv
    <2>5. HeadersInv' /\ SoundInv' /\ PicturesReassembled' /\ SizeBounded'
        BY <2>1, <2>2 DEF HeadersInv, SoundInv, PicturesReassembled, SizeBounded
    <2> QED BY <2>3, <2>4, <2>5 DEF Inv
<1>3. CASE UNCHANGED vars
    <2>1. UNCHANGED <<pc, len, dri, ts, i, hdrLen, seq, pkts, held>>
        BY <1>3 DEF vars
    <2>2. TypeOK' /\ ChainInv'
        BY <2>1 DEF Inv, TypeOK, ChainInv
    <2>3. HeadersInv' /\ PicturesReassembled' /\ SizeBounded' /\ SoundInv'
        BY <2>1 DEF Inv, HeadersInv, AllHdr, PicturesReassembled, SizeBounded, SoundInv,
                    CutBetweenSamples
    <2> QED BY <2>2, <2>3 DEF Inv
<1> QED BY <1>1, <1>2, <1>3, FrameInv, JpegSendInv, AudioSendInv DEF Next

-----------------------------------------------------------------------------
(* Theorems.                                                                *)

\* The invariant holds in every state of every behaviour.
THEOREM Invariance == Spec => []Inv
<1>1. Inv /\ [Next]_vars => Inv'
    BY InvNext
<1> QED BY <1>1, InvInit, PTL DEF Spec

\* jpeg_send and rawaudio_send carry a frame of any length without gap or overlap, in
\* packets with consecutive sequence numbers, and make progress with each of them.
THEOREM FramesCovered == Spec => []FrameCovered
<1>1. Inv => FrameCovered
    BY DEF Inv, ChainInv, FrameCovered
<1> QED BY <1>1, Invariance, PTL

\* A receiver that takes the packets up to a marker for a picture gets the pictures one
\* for one, whatever their lengths and however jpeg_send cuts them: the loop ends with
\* the packet that has the marker, and with no other.
THEOREM PicturesWhole == Spec => []PicturesReassembled
<1>1. Inv => PicturesReassembled
    BY DEF Inv
<1> QED BY <1>1, Invariance, PTL

\* No packet is larger than max_data_size and the restart header jpeg_send forgets.
THEOREM SizesBounded == Spec => []SizeBounded
<1>1. Inv => SizeBounded
    BY DEF Inv
<1> QED BY <1>1, Invariance, PTL

\* rawaudio_send cuts sound between samples and dates each packet by its first one.
THEOREM SoundDated == Spec => []CutBetweenSamples
<1>1. Inv => CutBetweenSamples
    BY DEF Inv, SoundInv, CutBetweenSamples
<1> QED BY <1>1, Invariance, PTL
=============================================================================
