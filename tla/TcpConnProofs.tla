----------------------------- MODULE TcpConnProofs -----------------------------
(***************************************************************************)
(* The byte streams of a connection, whatever the size of the buffers and  *)
(* of the messages: what the client gets is the sequence of whole messages *)
(* that were accepted for it, none is forgotten in the ring buffer, and a  *)
(* client that waits for its replies is heard.                             *)
(***************************************************************************)
EXTENDS TcpConn, TLAPS, SequenceTheorems

\* A unit of a message.
Unit == Nat \X Nat

\* TypeOK: what the ring and the wire need, and the rest.
OutTyped ==
    /\ DOMAIN buf = Cells /\ r \in Cells /\ w \in Cells
    /\ queued \in Nat /\ stream \in Seq(Unit) /\ wire \in Seq(Unit) /\ got \in Nat
CtlTyped ==
    /\ proto \in {"start", "rtsp", "http"}
    /\ isOpen \in BOOLEAN /\ peer \in BOOLEAN /\ wev \in BOOLEAN /\ dropAfter \in BOOLEAN
    /\ pc \in {"idle", "write", "flush"} /\ body \in Nat
InTyped ==
    /\ kinds \in Seq({"request", "packet"}) /\ overlap \in BOOLEAN
    /\ inbox \in Seq(Unit) /\ reqBuf \in Seq(Unit) /\ handled \in Seq(Nat)

LEMMA TypeParts == TypeOK <=> OutTyped /\ CtlTyped /\ InTyped
    BY DEF TypeOK, OutTyped, CtlTyped, InTyped, Unit

\* Units u are the units s with t behind them.
Joined(s, t, u) ==
    /\ u \in Seq(Unit) /\ Len(u) = Len(s) + Len(t)
    /\ \A k \in 1 .. Len(s) : u[k] = s[k]
    /\ \A k \in 1 .. Len(t) : u[Len(s) + k] = t[k]

LEMMA ConcatFacts ==
    ASSUME NEW s \in Seq(Unit), NEW t \in Seq(Unit)
    PROVE  Joined(s, t, s \o t)
<1>1. s \o t \in Seq(Unit) /\ Len(s \o t) = Len(s) + Len(t) /\ Len(s) \in Nat /\ Len(t) \in Nat
    OBVIOUS
<1>2. ASSUME NEW k \in 1 .. Len(s) PROVE (s \o t)[k] = s[k]
    BY <1>1
<1>3. ASSUME NEW k \in 1 .. Len(t) PROVE (s \o t)[Len(s) + k] = t[k]
    BY <1>1
<1> QED BY <1>1, <1>2, <1>3 DEF Joined

-----------------------------------------------------------------------------
(* The ring.                                                                *)

\* The number of cells from a up to b, and the k-th cell from a on.
Span(a, b) == IF b >= a THEN b - a ELSE SendBuf - a + b
At(a, k) == IF a + k - 1 < SendBuf THEN a + k - 1 ELSE a + k - 1 - SendBuf

LEMMA SpanFacts ==
    ASSUME NEW a \in Cells, NEW b \in Cells
    PROVE  /\ SendBuf \in Nat \ {0} /\ Span(a, b) \in 0 .. SendBuf - 1
           /\ Span(a, b) = 0 <=> a = b
           /\ \A k \in 1 .. SendBuf : At(a, k) \in Cells
    BY SizesAssumption DEF Cells, Span, At

\* avail_send_buf leaves one cell free.
LEMMA AvailIsRest ==
    ASSUME r \in Cells, NEW b \in Cells
    PROVE  Avail(b) = SendBuf - 1 - Span(r, b)
    BY SizesAssumption DEF Avail, Span, Cells

\* The write position moves on and wraps.
LEMMA Wrap ==
    ASSUME NEW b \in Cells, NEW l \in 0 .. SendBuf
    PROVE  (b + l) % SendBuf = (IF b + l < SendBuf THEN b + l ELSE b + l - SendBuf)
           /\ (b + l) % SendBuf \in Cells
<1>1. SendBuf \in Nat \ {0} /\ b \in 0 .. SendBuf - 1
    BY SizesAssumption DEF Cells
<1>2. (b + l) % SendBuf = IF b + l < SendBuf THEN b + l ELSE b + l - SendBuf
    BY <1>1
<1> QED BY <1>1, <1>2 DEF Cells

\* Where send_data looks for the unit of a cell.
Index(b, c) == (IF c >= b THEN c - b ELSE c - b + SendBuf) + 1

LEMMA IndexFacts ==
    ASSUME NEW a \in Cells, NEW b \in Cells, NEW l \in 0 .. SendBuf - 1 - Span(a, b)
    PROVE  /\ \A k \in 1 .. Span(a, b) : Index(b, At(a, k)) > l
           /\ \A k \in 1 .. l : Index(b, At(a, Span(a, b) + k)) = k
    BY SizesAssumption DEF Cells, Span, At, Index

\* The buffer b2 with write position w2 holds the units us behind what b holds.
Sent(b, wr, us, b2, w2) ==
    /\ w2 \in Cells /\ DOMAIN b2 = Cells
    /\ Span(r, w2) = Span(r, wr) + Len(us)
    /\ \A k \in 1 .. Span(r, wr) : b2[At(r, k)] = b[At(r, k)]
    /\ \A k \in 1 .. Len(us) : b2[At(r, Span(r, wr) + k)] = us[k]

\* send_data of units for which there is room puts them behind what the buffer holds.
LEMMA SendDataFits ==
    ASSUME r \in Cells, NEW b, NEW wr \in Cells, NEW us \in Seq(Unit), Len(us) <= Avail(wr)
    PROVE  Sent(b, wr, us, SendData(b, wr, us).b, SendData(b, wr, us).w)
<1> DEFINE n == Span(r, wr)  l == Len(us)  w2 == (wr + l) % SendBuf
           b2 == [c \in Cells |-> IF Index(wr, c) <= l THEN us[Index(wr, c)] ELSE b[c]]
<1>1. /\ SendBuf \in Nat \ {0} /\ r \in 0 .. SendBuf - 1 /\ wr \in 0 .. SendBuf - 1
      /\ n \in 0 .. SendBuf - 1 /\ Avail(wr) = SendBuf - 1 - n
    BY SizesAssumption, SpanFacts, AvailIsRest DEF Cells
<1>2. l \in 0 .. SendBuf - 1 - n /\ l \in 0 .. SendBuf /\ l \in Nat
    <2>1. l \in Nat
        OBVIOUS
    <2> QED BY <1>1, <2>1
<1>3. SendData(b, wr, us) = [b |-> b2, w |-> w2]
    <2>1. ~(Avail(wr) < l)
        BY <1>1, <1>2
    <2> QED BY <2>1 DEF SendData, Index
<1>4. w2 = (IF wr + l < SendBuf THEN wr + l ELSE wr + l - SendBuf) /\ w2 \in Cells
    BY <1>2, Wrap
<1>5. Span(r, w2) = n + l
    <2>1. n = IF wr >= r THEN wr - r ELSE SendBuf - r + wr
        BY DEF Span
    <2> HIDE DEF n, l, w2
    <2> QED BY <1>1, <1>2, <1>4, <2>1 DEF Span
<1>6. ASSUME NEW k \in 1 .. n PROVE b2[At(r, k)] = b[At(r, k)]
    <2>1. k \in 1 .. SendBuf
        BY <1>1
    <2>2. At(r, k) \in Cells /\ Index(wr, At(r, k)) > l
        BY <1>2, <2>1, SpanFacts, IndexFacts
    <2>3. Index(wr, At(r, k)) \in Int
        BY <1>1, <2>2 DEF Index, Cells
    <2> QED BY <1>2, <2>2, <2>3
<1>7. ASSUME NEW k \in 1 .. l PROVE b2[At(r, n + k)] = us[k]
    <2>1. n + k \in 1 .. SendBuf
        BY <1>1, <1>2
    <2>2. At(r, n + k) \in Cells /\ Index(wr, At(r, n + k)) = k
        BY <1>2, <2>1, SpanFacts, IndexFacts
    <2> QED BY <1>2, <2>2
<1> HIDE DEF b2, w2
<1>8. DOMAIN b2 = Cells
    BY DEF b2
<1>9. Sent(b, wr, us, b2, w2)
    BY <1>4, <1>5, <1>6, <1>7, <1>8 DEF Sent
<1> QED BY <1>3, <1>9

\* The units of the stream are on their way: received, on the wire, in the ring.
Held ==
    /\ Len(stream) = got + Len(wire) + Span(r, w)
    /\ \A k \in 1 .. Len(wire) : wire[k] = stream[got + k]
    /\ \A k \in 1 .. Span(r, w) : buf[At(r, k)] = stream[got + Len(wire) + k]

\* A message that fits goes into the ring as a whole, behind what is there.
LEMMA EnqueueHeld ==
    ASSUME OutTyped, Held, NEW n \in Nat, Fits(n), Enqueue(n), UNCHANGED <<r, wire, got>>
    PROVE  OutTyped' /\ Held' /\ wev' = TRUE
<1> DEFINE hd == HeadUnits  bd == BodyUnits(n)
           s == SendData(buf, w, hd)
           t == SendData(s.b, s.w, bd)
           c == Span(r, w)  g == got + Len(wire)
<1>1. /\ hd \in Seq(Unit) /\ Len(hd) = HeadLen /\ bd \in Seq(Unit) /\ Len(bd) = n
      /\ HeadLen \in Nat
    <2>1. queued + 1 \in Nat /\ HeadLen \in Nat
        BY SizesAssumption DEF OutTyped
    <2> QED BY <2>1 DEF HeadUnits, BodyUnits, Unit
<1>2. /\ buf' = t.b /\ w' = t.w /\ wev' = TRUE /\ queued' = queued + 1
      /\ stream' = stream \o hd \o bd /\ r' = r /\ wire' = wire /\ got' = got
    BY DEF Enqueue, EnqueueUnits
<1> HIDE DEF hd, bd
<1>3. /\ r \in Cells /\ w \in Cells /\ queued \in Nat /\ wire \in Seq(Unit) /\ got \in Nat
      /\ stream \in Seq(Unit)
    BY DEF OutTyped
<1>4. c \in 0 .. SendBuf - 1 /\ SendBuf \in Nat \ {0} /\ HeadLen + n <= SendBuf - 1 - c
    <2>1. c \in 0 .. SendBuf - 1 /\ SendBuf \in Nat \ {0} /\ Avail(w) = SendBuf - 1 - c
        BY <1>3, SpanFacts, AvailIsRest
    <2> QED BY <1>1, <2>1 DEF Fits
<1>5. /\ s.w \in Cells /\ DOMAIN s.b = Cells /\ Span(r, s.w) = c + HeadLen
      /\ \A k \in 1 .. c : s.b[At(r, k)] = buf[At(r, k)]
      /\ \A k \in 1 .. HeadLen : s.b[At(r, c + k)] = hd[k]
    <2>1. Len(hd) <= Avail(w)
        BY <1>1, <1>3, <1>4, AvailIsRest
    <2>2. Sent(buf, w, hd, s.b, s.w)
        BY <1>1, <1>3, <2>1, SendDataFits
    <2> HIDE DEF s
    <2> QED BY <1>1, <2>2 DEF Sent
<1> HIDE DEF s
<1>6. /\ t.w \in Cells /\ DOMAIN t.b = Cells /\ Span(r, t.w) = c + HeadLen + n
      /\ \A k \in 1 .. c + HeadLen : t.b[At(r, k)] = s.b[At(r, k)]
      /\ \A k \in 1 .. n : t.b[At(r, c + HeadLen + k)] = bd[k]
    <2>1. Avail(s.w) = SendBuf - 1 - (c + HeadLen)
        BY <1>3, <1>5, AvailIsRest
    <2>2. Len(bd) <= Avail(s.w)
        BY <1>1, <1>4, <2>1
    <2>3. Sent(s.b, s.w, bd, t.b, t.w)
        BY <1>1, <1>3, <1>5, <2>2, SendDataFits
    <2> HIDE DEF t, c
    <2> QED BY <1>1, <1>5, <2>3 DEF Sent
<1> HIDE DEF t, c
<1>7. g \in Nat /\ Len(stream) = g + c /\ Len(wire) \in Nat
    BY <1>3, <1>4 DEF Held, c
<1>8. /\ stream' \in Seq(Unit) /\ Len(stream') = g + c + HeadLen + n
      /\ \A k \in 1 .. g + c : stream'[k] = stream[k]
      /\ \A k \in 1 .. HeadLen : stream'[g + c + k] = hd[k]
      /\ \A k \in 1 .. n : stream'[g + c + HeadLen + k] = bd[k]
    <2> HIDE DEF g
    <2> DEFINE u == stream \o hd
    <2>1. Joined(stream, hd, u)
        BY <1>1, <1>3, ConcatFacts
    <2> HIDE DEF u
    <2>2. /\ u \in Seq(Unit) /\ Len(u) = g + c + HeadLen
          /\ \A k \in 1 .. g + c : u[k] = stream[k]
          /\ \A k \in 1 .. HeadLen : u[g + c + k] = hd[k]
        BY <1>1, <1>7, <2>1 DEF Joined
    <2>3. Joined(u, bd, stream')
        BY <1>1, <1>2, <2>2, ConcatFacts DEF u
    <2>4. /\ stream' \in Seq(Unit) /\ Len(stream') = g + c + HeadLen + n
          /\ \A k \in 1 .. g + c + HeadLen : stream'[k] = u[k]
          /\ \A k \in 1 .. n : stream'[g + c + HeadLen + k] = bd[k]
        BY <1>1, <2>2, <2>3 DEF Joined
    <2>5. \A k \in 1 .. g + c : k \in 1 .. g + c + HeadLen
        BY <1>1, <1>4, <1>7
    <2>6. \A k \in 1 .. HeadLen : g + c + k \in 1 .. g + c + HeadLen
        BY <1>1, <1>4, <1>7
    <2> QED BY <2>2, <2>4, <2>5, <2>6
<1>9. OutTyped'
    BY <1>2, <1>3, <1>6, <1>8 DEF OutTyped
<1>10. ASSUME NEW k \in 1 .. c + HeadLen + n PROVE t.b[At(r, k)] = stream'[g + k]
    <2> HIDE DEF g
    <2>1. CASE k \in 1 .. c
        <3>1. k \in 1 .. c + HeadLen /\ g + k \in 1 .. g + c
            BY <1>1, <1>4, <1>7, <2>1
        <3>2. buf[At(r, k)] = stream[g + k]
            BY <2>1 DEF Held, c, g
        <3> QED BY <1>5, <1>6, <1>8, <2>1, <3>1, <3>2
    <2>2. CASE k \in c + 1 .. c + HeadLen
        <3> DEFINE j == k - c
        <3>1. j \in 1 .. HeadLen /\ k = c + j /\ g + k = g + c + j /\ k \in 1 .. c + HeadLen
            BY <1>1, <1>4, <1>7, <2>2
        <3> HIDE DEF j
        <3> QED BY <1>5, <1>6, <1>8, <3>1
    <2>3. CASE k \in c + HeadLen + 1 .. c + HeadLen + n
        <3> DEFINE j == k - c - HeadLen
        <3>1. j \in 1 .. n /\ k = c + HeadLen + j /\ g + k = g + c + HeadLen + j
            BY <1>1, <1>4, <1>7, <2>3
        <3> HIDE DEF j
        <3> QED BY <1>6, <1>8, <3>1
    <2> QED BY <1>1, <1>4, <2>1, <2>2, <2>3
<1>11. ASSUME NEW k \in 1 .. Len(wire) PROVE wire[k] = stream'[got + k]
    <2>1. got + k \in 1 .. g + c
        BY <1>3, <1>4, <1>7
    <2>2. wire[k] = stream[got + k]
        BY DEF Held
    <2> QED BY <1>8, <2>1, <2>2
<1>12. Len(stream') = got + Len(wire) + (c + HeadLen + n)
    BY <1>1, <1>3, <1>4, <1>7, <1>8, SMTT(30)
<1>13. Held'
    <2>1. Span(r', w') = c + HeadLen + n
        BY <1>2, <1>6, Zenon
    <2>2. Len(stream') = got' + Len(wire') + Span(r', w')
        BY <1>2, <1>12, <2>1, Zenon
    <2>3. \A k \in 1 .. Len(wire') : wire'[k] = stream'[got' + k]
        BY <1>2, <1>11, Zenon
    <2>4. \A k \in 1 .. Span(r', w') : buf'[At(r', k)] = stream'[got' + Len(wire') + k]
        BY <1>2, <1>10, <2>1, Zenon DEF g
    <2> QED BY <2>2, <2>3, <2>4, Zenon DEF Held
<1> QED BY <1>2, <1>9, <1>13

\* write moves units of the first piece from the ring to the wire.
LEMMA WriteHeld ==
    ASSUME OutTyped, Held, Write
    PROVE  OutTyped' /\ Held'
<1> DEFINE c == Span(r, w)
<1>1. /\ r \in Cells /\ w \in Cells /\ wire \in Seq(Unit) /\ got \in Nat /\ stream \in Seq(Unit)
      /\ DOMAIN buf = Cells /\ queued \in Nat
    BY DEF OutTyped
<1>2. PICK n \in 1 .. Piece :
        /\ wire' = wire \o [k \in 1 .. n |-> buf[r + k - 1]]
        /\ buf' = [x \in Cells |-> IF x \in r .. r + n - 1 THEN Empty ELSE buf[x]]
        /\ r' = Advance(n)
    BY DEF Write
<1>3. r # w /\ UNCHANGED <<w, queued, stream, got>>
    BY DEF Write
<1>4. /\ SendBuf \in Nat \ {0} /\ r \in 0 .. SendBuf - 1 /\ w \in 0 .. SendBuf - 1
      /\ c \in 0 .. SendBuf - 1
    BY <1>1, SpanFacts DEF Cells
<1>5. n \in Nat \ {0} /\ r + n <= SendBuf /\ n <= c
    BY <1>2, <1>3, <1>4 DEF Piece, Span
<1>6. r' \in Cells /\ Span(r', w) = c - n
    BY <1>2, <1>3, <1>4, <1>5 DEF Advance, Span, Cells
<1>7. \A k \in 1 .. c - n : At(r', k) = At(r, k + n) /\ At(r', k) \notin r .. r + n - 1
    BY <1>2, <1>3, <1>4, <1>5 DEF Advance, Span, At
<1>8. \A k \in 1 .. n : At(r, k) = r + k - 1
    BY <1>4, <1>5 DEF At
<1> DEFINE g == got + Len(wire)
<1>9. g \in Nat /\ Len(wire) \in Nat /\ Len(stream) = g + c
    BY <1>1, <1>4 DEF Held
<1>10. \A k \in 1 .. c : buf[At(r, k)] = stream[g + k] /\ stream[g + k] \in Unit
    <2>1. \A k \in 1 .. c : g + k \in 1 .. Len(stream)
        BY <1>4, <1>9
    <2>2. \A k \in 1 .. Len(stream) : stream[k] \in Unit
        BY <1>1
    <2> QED BY <2>1, <2>2 DEF Held
<1> DEFINE us == [k \in 1 .. n |-> buf[r + k - 1]]
<1>11. ASSUME NEW k \in 1 .. n PROVE us[k] = stream[g + k] /\ us[k] \in Unit
    <2>1. k \in 1 .. c
        BY <1>4, <1>5
    <2> QED BY <1>8, <1>10, <2>1
<1> HIDE DEF c, g
<1>12. us \in Seq(Unit) /\ Len(us) = n
    BY <1>5, <1>11
<1> HIDE DEF us
<1>13. /\ wire' \in Seq(Unit) /\ Len(wire') = Len(wire) + n
       /\ \A k \in 1 .. Len(wire) : wire'[k] = wire[k]
       /\ \A k \in 1 .. n : wire'[Len(wire) + k] = us[k]
    <2>1. Joined(wire, us, wire')
        BY <1>1, <1>2, <1>12, ConcatFacts DEF us
    <2> QED BY <1>12, <2>1 DEF Joined
<1>14. OutTyped'
    <2>1. DOMAIN buf' = Cells
        BY <1>2
    <2> QED BY <1>1, <1>3, <1>6, <1>13, <2>1 DEF OutTyped
<1>15. Len(stream) = got + Len(wire') + (c - n)
    BY <1>1, <1>4, <1>5, <1>9, <1>13 DEF g
<1>16. ASSUME NEW k \in 1 .. Len(wire') PROVE wire'[k] = stream[got + k]
    <2>1. CASE k \in 1 .. Len(wire)
        BY <1>13, <2>1 DEF Held
    <2>2. CASE k \in Len(wire) + 1 .. Len(wire) + n
        <3> DEFINE j == k - Len(wire)
        <3>1. j \in 1 .. n /\ k = Len(wire) + j /\ got + k = g + j
            BY <1>1, <1>5, <1>9, <2>2 DEF g
        <3> HIDE DEF j
        <3> QED BY <1>11, <1>13, <3>1
    <2> QED BY <1>5, <1>9, <1>13, <2>1, <2>2
<1>17. ASSUME NEW k \in 1 .. c - n PROVE buf'[At(r', k)] = stream[got + Len(wire') + k]
    <2>1. k + n \in 1 .. c /\ k + n \in 1 .. SendBuf /\ got + Len(wire') + k = g + (k + n)
        BY <1>1, <1>4, <1>5, <1>9, <1>13, SMTT(30) DEF g
    <2>2. At(r', k) = At(r, k + n) /\ At(r', k) \notin r .. r + n - 1 /\ At(r, k + n) \in Cells
        BY <1>1, <1>7, <2>1, SpanFacts
    <2>3. buf'[At(r, k + n)] = buf[At(r, k + n)]
        BY <1>2, <2>2
    <2> QED BY <1>10, <2>1, <2>2, <2>3
<1>18. Held'
    BY <1>3, <1>6, <1>15, <1>16, <1>17 DEF Held, At
<1> QED BY <1>14, <1>18

\* The client takes the first unit from the wire.
LEMMA ReadHeld ==
    ASSUME OutTyped, Held, ClientReads
    PROVE  OutTyped' /\ Held'
<1>1. /\ wire # <<>> /\ wire' = Tail(wire) /\ got' = got + 1
      /\ UNCHANGED <<buf, r, w, queued, stream>>
    BY DEF ClientReads, out
<1>2. wire \in Seq(Unit) /\ got \in Nat /\ stream \in Seq(Unit) /\ Span(r, w) \in Nat
    BY SpanFacts DEF OutTyped
<1>3. /\ wire' \in Seq(Unit) /\ Len(wire') = Len(wire) - 1 /\ Len(wire) \in Nat \ {0}
      /\ \A k \in 1 .. Len(wire) - 1 : wire'[k] = wire[k + 1]
    BY <1>1, <1>2
<1>4. OutTyped'
    BY <1>1, <1>2, <1>3 DEF OutTyped
<1>5. ASSUME NEW k \in 1 .. Len(wire') PROVE wire'[k] = stream[got + 1 + k]
    <2>1. k + 1 \in 1 .. Len(wire) /\ got + (k + 1) = got + 1 + k /\ k \in 1 .. Len(wire) - 1
        BY <1>2, <1>3
    <2> QED BY <1>3, <2>1 DEF Held
<1>6. got + 1 + Len(wire') = got + Len(wire)
    BY <1>2, <1>3
<1>7. Held'
    BY <1>1, <1>5, <1>6 DEF Held, At, Span
<1> QED BY <1>4, <1>7

\* What stays in place.
LEMMA OutKept ==
    ASSUME OutTyped, Held, UNCHANGED <<buf, r, w, queued, stream, wire, got>>
    PROVE  OutTyped' /\ Held'
    BY DEF OutTyped, Held, At, Span

\* The ring and the wire make the rest of the stream.
LEMMA HeldStream ==
    ASSUME OutTyped, Held
    PROVE  StreamIntact
<1> DEFINE c == Span(r, w)
           lhs == SubSeq(stream, got + 1, Len(stream))
<1>1. /\ r \in Cells /\ w \in Cells /\ wire \in Seq(Unit) /\ got \in Nat /\ stream \in Seq(Unit)
      /\ Len(stream) \in Nat /\ Len(wire) \in Nat /\ c \in Nat
    BY SpanFacts DEF OutTyped
<1>2. Len(stream) = got + Len(wire) + c
    BY DEF Held
<1>3. Buffered = [k \in 1 .. c |-> buf[At(r, k)]]
    BY DEF Buffered, Span, At
<1> HIDE DEF c
<1>4. ASSUME NEW k \in 1 .. c PROVE buf[At(r, k)] = stream[got + Len(wire) + k]
    BY DEF Held, c
<1>5. Buffered \in Seq(Unit) /\ Len(Buffered) = c
    <2>1. ASSUME NEW k \in 1 .. c PROVE buf[At(r, k)] \in Unit
        <3>1. got + Len(wire) + k \in 1 .. Len(stream)
            BY <1>1, <1>2
        <3> QED BY <1>1, <1>4, <3>1
    <2> QED BY <1>1, <1>3, <2>1
<1>6. Joined(wire, Buffered, wire \o Buffered)
    BY <1>1, <1>5, ConcatFacts
<1>7. lhs \in Seq(Unit) /\ Len(lhs) = Len(wire) + c
      /\ \A k \in 1 .. Len(wire) + c : lhs[k] = stream[got + k]
    <2>1. \A k \in got + 1 .. Len(stream) : stream[k] \in Unit
        BY <1>1, <1>2
    <2> QED BY <1>1, <1>2, <2>1
<1> HIDE DEF lhs
<1> DEFINE rhs == wire \o Buffered
<1> HIDE DEF rhs
<1>8. /\ rhs \in Seq(Unit) /\ Len(rhs) = Len(wire) + c
      /\ \A k \in 1 .. Len(wire) : rhs[k] = wire[k]
      /\ \A k \in 1 .. c : rhs[Len(wire) + k] = Buffered[k]
    BY <1>5, <1>6 DEF Joined, rhs
<1>9. ASSUME NEW k \in 1 .. Len(wire) + c PROVE lhs[k] = rhs[k]
    <2>1. CASE k \in 1 .. Len(wire)
        BY <1>7, <1>8, <2>1 DEF Held
    <2>2. CASE k \in Len(wire) + 1 .. Len(wire) + c
        <3> DEFINE j == k - Len(wire)
        <3>1. j \in 1 .. c /\ k = Len(wire) + j /\ got + k = got + Len(wire) + j
            BY <1>1, <2>2
        <3> HIDE DEF j
        <3>2. Buffered[j] = stream[got + Len(wire) + j]
            BY <1>3, <1>4, <3>1
        <3> QED BY <1>7, <1>8, <3>1, <3>2
    <2> QED BY <1>1, <2>1, <2>2
<1>10. lhs = rhs
    BY <1>7, <1>8, <1>9, SeqEqual
<1> QED BY <1>10 DEF StreamIntact, lhs, rhs

-----------------------------------------------------------------------------
(* Sending: the stream is held, and conn_write is called back for it.       *)

SendInv == CtlTyped /\ OutTyped /\ Held /\ OutputScheduled

\* A message fits into the empty buffer: what MessagesFitAssumption is for.
LEMMA EmptyFits ==
    ASSUME OutTyped, r = w, NEW n \in Nat, HeadLen + n < SendBuf
    PROVE  Fits(n)
    BY SizesAssumption DEF OutTyped, Cells, Fits, Avail

\* A reply is scheduled, or the buffer already was: tcp_send_pmsg leaves out a reply
\* only if the buffer is not empty.
LEMMA SendReplySchedules ==
    ASSUME SendInv, isOpen, NEW n \in Nat, HeadLen + n < SendBuf, SendReply(n), UNCHANGED net
    PROVE  OutTyped' /\ Held' /\ wev' = TRUE
<1>0. OutTyped /\ Held /\ UNCHANGED <<r, wire, got>>
    BY DEF SendInv, SendReply, net
<1>1. CASE Fits(n)
    BY <1>0, <1>1, EnqueueHeld DEF SendReply
<1>2. CASE ~Fits(n)
    <2>1. r # w
        BY <1>0, <1>2, EmptyFits
    <2>2. wev /\ wev \in BOOLEAN
        BY <2>1 DEF SendInv, CtlTyped, OutputScheduled
    <2>3. UNCHANGED <<buf, w, wev, queued, stream>>
        BY <1>2 DEF SendReply
    <2> QED BY <1>0, <2>2, <2>3, OutKept
<1> QED BY <1>1, <1>2

\* The steps that leave the stream alone, among them drop_conn.
LEMMA SendKept ==
    ASSUME SendInv, UNCHANGED <<out, net, dropAfter>>, CtlTyped', isOpen' => isOpen
    PROVE  SendInv'
<1>1. UNCHANGED <<buf, r, w, wev, queued, stream, wire, got>>
    BY DEF out, net
<1>2. OutTyped' /\ Held'
    BY <1>1, OutKept DEF SendInv
<1>3. OutputScheduled'
    BY <1>1 DEF SendInv, OutputScheduled
<1> QED BY <1>2, <1>3 DEF SendInv

LEMMA DropSends == ASSUME SendInv, DropConn PROVE SendInv'
<1>1. UNCHANGED <<out, net, dropAfter>> /\ isOpen' = FALSE
    BY DEF DropConn
<1>2. CtlTyped'
    BY DEF SendInv, CtlTyped, DropConn, out
<1> QED BY <1>1, <1>2, SendKept

\* The steps that queue a message.
LEMMA ScheduledSends ==
    ASSUME OutTyped', Held', wev' = TRUE, CtlTyped'
    PROVE  SendInv'
    BY DEF SendInv, OutputScheduled

\* A reply is on its way before drop_after is set.
LEMMA ReplySends ==
    ASSUME SendInv, isOpen, NEW n \in Nat, HeadLen + n < SendBuf, SendReply(n),
           dropAfter' \in BOOLEAN, proto' \in {"start", "rtsp", "http"},
           UNCHANGED <<isOpen, peer, net, pc, body>>
    PROVE  SendInv'
<1>1. OutTyped' /\ Held' /\ wev' = TRUE
    BY SendReplySchedules
<1>2. CtlTyped'
    BY <1>1 DEF SendInv, CtlTyped
<1> QED BY <1>1, <1>2, ScheduledSends

\* parse_client_data.
LEMMA ParseSends ==
    ASSUME SendInv, isOpen, NEW b, NEW i, Parse(b, i)
    PROVE  SendInv'
<1>1. CASE DropConn
    BY <1>1, DropSends
<1>2. CASE \E p \in Protos(b) : ParseAs(p, b, i)
    <2>1. PICK p \in {"start", "rtsp", "http"} : ParseAs(p, b, i)
        BY <1>2 DEF Protos, SendInv, CtlTyped
    <2>2. dropAfter \in BOOLEAN
        BY DEF SendInv, CtlTyped
    <2>3. CASE proto' = p /\ UNCHANGED <<isOpen, peer, out, net, dropAfter, pc, body>>
        <3>1. CtlTyped'
            BY <2>3 DEF SendInv, CtlTyped, out
        <3> QED BY <2>3, <3>1, SendKept
    <2>4. ASSUME NEW n \in BodyLens \cup {0}, SendReply(n), dropAfter' \in BOOLEAN,
                 proto' \in {"start", "rtsp", "http"}, UNCHANGED <<isOpen, peer, net, pc, body>>
          PROVE  SendInv'
        <3>1. n \in Nat /\ HeadLen + n < SendBuf
            BY SizesAssumption, MessagesFitAssumption
        <3> QED BY <2>4, <3>1, ReplySends
    <2>5. CASE /\ \E n \in BodyLens : SendReply(n)
               /\ \/ proto' = p /\ dropAfter' \in {dropAfter, dropAfter \/ p = "http"}
                  \/ p = "http" /\ proto' = "rtsp" /\ UNCHANGED dropAfter
               /\ UNCHANGED <<isOpen, peer, net, pc, body>>
        BY <2>2, <2>4, <2>5
    <2>6. CASE /\ SendReply(0) /\ proto' = p /\ dropAfter' \in {dropAfter, dropAfter \/ p = "http"}
               /\ UNCHANGED <<isOpen, peer, net, pc, body>>
        BY <2>2, <2>4, <2>6
    <2> QED BY <1>1, <2>1, <2>3, <2>5, <2>6 DEF ParseAs
<1> QED BY <1>1, <1>2 DEF Parse

LEMMA DoReadSends == ASSUME SendInv, DoRead PROVE SendInv'
    BY DropSends, ParseSends DEF DoRead

LEMMA WriteSends == ASSUME SendInv, Write PROVE SendInv'
<1>1. OutTyped' /\ Held'
    BY WriteHeld DEF SendInv
<1>2. r # w /\ UNCHANGED <<proto, isOpen, peer, wev, dropAfter, pc, body>>
    BY DEF Write
<1>3. CtlTyped' /\ OutputScheduled'
    BY <1>2 DEF SendInv, CtlTyped, OutputScheduled
<1> QED BY <1>1, <1>3 DEF SendInv

\* interleave_send, or what follows the flush: the packet is queued, or not.
LEMMA PacketSends ==
    ASSUME SendInv, NEW n \in Nat, body' \in Nat, pc' \in {"idle", "write", "flush"},
           IF Fits(n) THEN Enqueue(n) /\ UNCHANGED r ELSE UNCHANGED out,
           UNCHANGED <<proto, isOpen, peer, net, dropAfter>>
    PROVE  SendInv'
<1>1. CASE ~Fits(n)
    <2>1. CtlTyped'
        BY <1>1 DEF SendInv, CtlTyped, out
    <2> QED BY <1>1, <2>1, SendKept
<1>2. CASE Fits(n)
    <2>1. OutTyped' /\ Held' /\ wev' = TRUE
        BY <1>2, EnqueueHeld DEF SendInv, net
    <2>2. CtlTyped'
        BY <2>1 DEF SendInv, CtlTyped
    <2> QED BY <2>1, <2>2, ScheduledSends
<1> QED BY <1>1, <1>2

\* conn_write finds the buffer empty: it drops the connection, or nothing is left to do.
LEMMA ConnWriteDoneSends == ASSUME SendInv, ConnWriteDone PROVE SendInv'
<1>1. CASE DropConn
    BY <1>1, DropSends
<1>2. CASE /\ ~dropAfter /\ wev' = FALSE /\ pc' = "idle"
           /\ UNCHANGED <<proto, isOpen, peer, buf, r, w, queued, stream, net, dropAfter, body>>
    <2>1. r = w
        BY DEF ConnWriteDone
    <2>2. OutTyped' /\ Held'
        BY <1>2, OutKept DEF SendInv, net
    <2>3. CtlTyped' /\ OutputScheduled'
        BY <1>2, <2>1 DEF SendInv, CtlTyped, OutputScheduled
    <2> QED BY <2>2, <2>3 DEF SendInv
<1> QED BY <1>1, <1>2 DEF ConnWriteDone

LEMMA SendInit == Init => SendInv
<1> SUFFICES ASSUME Init PROVE SendInv
    OBVIOUS
<1>1. /\ r = 0 /\ w = 0 /\ 0 \in Cells /\ queued = 0 /\ stream = <<>> /\ wire = <<>> /\ got = 0
      /\ DOMAIN buf = Cells
    BY SizesAssumption DEF Init, Cells
<1>2. OutTyped
    BY <1>1 DEF OutTyped
<1>3. Span(r, w) = 0
    BY <1>1 DEF Span
<1>4. Held
    BY <1>1, <1>3 DEF Held
<1>5. CtlTyped /\ OutputScheduled
    BY DEF Init, CtlTyped, OutputScheduled
<1> QED BY <1>2, <1>4, <1>5 DEF SendInv

LEMMA SendNext == SendInv /\ [Next]_vars => SendInv'
<1> SUFFICES ASSUME SendInv, [Next]_vars PROVE SendInv'
    OBVIOUS
<1>0. /\ body \in Nat /\ isOpen \in BOOLEAN /\ pc \in {"idle", "write", "flush"}
      /\ OutTyped /\ Held /\ CtlTyped
    BY DEF SendInv, CtlTyped
<1>1. CASE UNCHANGED <<isOpen, out, net, dropAfter>> /\ CtlTyped'
    BY <1>1, SendKept
<1>2. CASE ClientReads
    <2>1. OutTyped' /\ Held'
        BY <1>0, <1>2, ReadHeld
    <2>2. UNCHANGED <<proto, isOpen, peer, r, w, wev, dropAfter, pc, body>>
        BY <1>2 DEF ClientReads, out
    <2>3. CtlTyped' /\ OutputScheduled'
        BY <2>2 DEF SendInv, CtlTyped, OutputScheduled
    <2> QED BY <2>1, <2>3 DEF SendInv
<1>3. CASE ClientCloses \/ ConnWrite
    <2>1. CtlTyped'
        BY <1>0, <1>3 DEF ClientCloses, ConnWrite, CtlTyped, out
    <2> QED BY <1>1, <1>3, <2>1 DEF ClientCloses, ConnWrite
<1>4. ASSUME NEW kind \in {"request", "packet"}, ClientSends(kind) PROVE SendInv'
    <2>1. CtlTyped'
        BY <1>0, <1>4 DEF ClientSends, CtlTyped, out
    <2> QED BY <1>1, <1>4, <2>1 DEF ClientSends
<1>5. CASE DoRead
    BY <1>5, DoReadSends
<1>6. CASE DoReadEnd \/ ConnWriteFails
    BY <1>6, DropSends DEF DoReadEnd, ConnWriteFails
<1>7. CASE ConnWrites \/ Flush
    BY <1>7, WriteSends DEF ConnWrites, Flush
<1>8. CASE ConnWriteDone
    BY <1>8, ConnWriteDoneSends
<1>9. CASE FlushDone
    <2>1. /\ body' \in Nat /\ pc' \in {"idle", "write", "flush"}
          /\ UNCHANGED <<proto, isOpen, peer, net, dropAfter>>
        BY <1>9 DEF FlushDone
    <2>2. IF Fits(body) THEN Enqueue(body) /\ UNCHANGED r ELSE UNCHANGED out
        BY <1>9 DEF FlushDone
    <2> QED BY <1>0, <2>1, <2>2, PacketSends
<1>10. ASSUME NEW n \in BodyLens, InterleaveSend(n) PROVE SendInv'
    <2>1. n \in Nat
        BY SizesAssumption
    <2>2. UNCHANGED <<proto, isOpen, peer, net, dropAfter>>
        BY <1>10 DEF InterleaveSend
    <2>3. body' \in Nat /\ pc' \in {"idle", "write", "flush"}
        BY <1>0, <1>10, <2>1 DEF InterleaveSend
    <2>4. IF Fits(n) THEN Enqueue(n) /\ UNCHANGED r ELSE UNCHANGED out
        BY <1>10 DEF InterleaveSend
    <2> QED BY <2>1, <2>2, <2>3, <2>4, PacketSends
<1>11. CASE UNCHANGED vars
    <2>1. CtlTyped'
        BY <1>0, <1>11 DEF vars, CtlTyped, out
    <2> QED BY <1>1, <1>11, <2>1 DEF vars
<1> QED BY <1>2, <1>3, <1>4, <1>5, <1>6, <1>7, <1>8, <1>9, <1>10, <1>11 DEF Next, Writing

-----------------------------------------------------------------------------
(* Reading: messages are handled in order, in lockstep with a client that   *)
(* waits.                                                                   *)

\* What was sent and is still to be parsed.
Pending == reqBuf \o inbox

Before(p, q) == p[1] < q[1] \/ (p[1] = q[1] /\ p[2] < q[2])

\* Of the l messages sent, h were handled and the units s are pending: all in order,
\* and none pending that is the first unit of a handled message or comes before it.
InOrder(s, h, l) ==
    /\ \A k \in 1 .. Len(s) : s[k][1] <= l
    /\ \A j, k \in 1 .. Len(s) : j < k => Before(s[j], s[k])
    /\ \A k \in 1 .. Len(h) : h[k] <= l
    /\ \A j, k \in 1 .. Len(h) : j < k => h[j] < h[k]
    /\ \A j \in 1 .. Len(h), k \in 1 .. Len(s) : Before(<<h[j], 1>>, s[k])

\* All l messages were handled, or all but the last, which is pending as a whole.
Lockstep(s, h, l) ==
    /\ \A k \in 1 .. Len(h) : h[k] = k
    /\ \A k \in 1 .. Len(s) : s[k] = <<l, k>>
    /\ \/ Len(s) = 0 /\ Len(h) = l
       \/ Len(s) = InLen /\ Len(h) = l - 1

HeardInv ==
    /\ InTyped
    /\ InOrder(Pending, handled, Len(kinds))
    /\ isOpen /\ ~overlap => Lockstep(Pending, handled, Len(kinds))

\* A message is sent behind what is pending.
LEMMA OrderSends ==
    ASSUME NEW s \in Seq(Unit), NEW h \in Seq(Nat), NEW l \in Nat, NEW u,
           InOrder(s, h, l), Joined(s, Units(l + 1), u)
    PROVE  InOrder(u, h, l + 1)
<1> DEFINE t == Units(l + 1)  a == Len(s)
<1>1. InLen \in Nat /\ a \in Nat /\ Len(h) \in Nat
    BY SizesAssumption
<1>2. Len(t) = InLen /\ \A k \in 1 .. InLen : t[k] = <<l + 1, k>>
    BY <1>1 DEF Units
<1> HIDE DEF t
<1>3. /\ Len(u) = a + InLen
      /\ \A k \in 1 .. a : u[k] = s[k]
      /\ \A k \in 1 .. InLen : u[a + k] = <<l + 1, k>>
    BY <1>2 DEF Joined, t
<1>4. \A k \in 1 .. a : s[k] \in Unit
    OBVIOUS
<1>5. \A k \in 1 .. a : u[k] = s[k] /\ u[k][1] \in Nat /\ u[k][2] \in Nat /\ u[k][1] <= l
    BY <1>3, <1>4 DEF InOrder, Unit
<1>6. ASSUME NEW k \in a + 1 .. a + InLen PROVE u[k] = <<l + 1, k - a>>
    <2>1. k - a \in 1 .. InLen /\ a + (k - a) = k
        BY <1>1
    <2> QED BY <1>3, <2>1
<1>7. \A k \in a + 1 .. a + InLen : u[k][1] = l + 1 /\ u[k][2] = k - a
    BY <1>6
<1> HIDE DEF a
<1>8. ASSUME NEW k \in 1 .. a + InLen PROVE k \in 1 .. a \/ k \in a + 1 .. a + InLen
    BY <1>1
<1>9. ASSUME NEW j \in 1 .. a + InLen, NEW k \in 1 .. a + InLen, j < k
      PROVE  Before(u[j], u[k])
    <2>1. CASE j \in 1 .. a /\ k \in 1 .. a
        BY <1>5, <1>9, <2>1 DEF InOrder, a
    <2>2. CASE j \in 1 .. a /\ k \in a + 1 .. a + InLen
        BY <1>5, <1>7, <2>2 DEF Before
    <2>3. CASE j \in a + 1 .. a + InLen
        <3>1. k \in a + 1 .. a + InLen
            BY <1>1, <1>9, <2>3
        <3>2. j - a < k - a
            BY <1>1, <1>9, <2>3, <3>1
        <3> QED BY <1>7, <2>3, <3>1, <3>2 DEF Before
    <2> QED BY <1>8, <2>1, <2>2, <2>3
<1>10. \A k \in 1 .. Len(h) : h[k] \in Nat /\ h[k] <= l
    BY DEF InOrder
<1>11. ASSUME NEW j \in 1 .. Len(h), NEW k \in 1 .. a + InLen PROVE Before(<<h[j], 1>>, u[k])
    <2>1. CASE k \in 1 .. a
        BY <1>5, <2>1 DEF InOrder, a
    <2>2. CASE k \in a + 1 .. a + InLen
        <3>1. h[j] < l + 1 /\ u[k][1] = l + 1
            BY <1>7, <1>10, <2>2
        <3> QED BY <3>1 DEF Before
    <2> QED BY <1>8, <2>1, <2>2
<1>12. \A k \in 1 .. a + InLen : u[k][1] <= l + 1
    BY <1>5, <1>7, <1>8
<1>13. \A k \in 1 .. Len(h) : h[k] <= l + 1
    BY <1>10
<1>14. \A j, k \in 1 .. Len(h) : j < k => h[j] < h[k]
    BY DEF InOrder
<1> QED BY <1>3, <1>9, <1>11, <1>12, <1>13, <1>14 DEF InOrder

\* The buffer is emptied: b is gone, i remains.
LEMMA OrderCut ==
    ASSUME NEW b \in Seq(Unit), NEW i \in Seq(Unit), NEW s \in Seq(Unit), NEW h, NEW l,
           InOrder(s, h, l), Joined(b, i, s)
    PROVE  InOrder(i, h, l)
<1> DEFINE a == Len(b)
<1>1. a \in Nat /\ Len(i) \in Nat /\ Len(s) = a + Len(i)
    BY DEF Joined
<1>2. \A k \in 1 .. Len(i) : i[k] = s[a + k]
    BY DEF Joined
<1> HIDE DEF a
<1>3. \A k \in 1 .. Len(i) : a + k \in 1 .. Len(s)
    BY <1>1
<1>4. \A j, k \in 1 .. Len(i) : j < k => a + j < a + k
    BY <1>1
<1> QED BY <1>2, <1>3, <1>4 DEF InOrder

\* A message that begins the buffer is handled.
LEMMA OrderTake ==
    ASSUME NEW b \in Seq(Unit), NEW i \in Seq(Unit), NEW s \in Seq(Unit), NEW h \in Seq(Nat),
           NEW l \in Nat, InOrder(s, h, l), Joined(b, i, s), Len(b) > 0, b[1][2] = 1
    PROVE  InOrder(i, Append(h, b[1][1]), l)
<1> DEFINE a == Len(b)  m == b[1][1]  g == Append(h, m)
<1>1. a \in Nat \ {0} /\ Len(i) \in Nat /\ Len(s) = a + Len(i) /\ b[1] = s[1] /\ 1 \in 1 .. Len(s)
    BY DEF Joined
<1>2. m \in Nat
    <2>1. 1 \in 1 .. Len(b)
        BY <1>1
    <2>2. b[1] \in Unit
        BY <2>1
    <2> QED BY <2>2 DEF Unit
<1>0. Len(h) \in Nat
    OBVIOUS
<1>3. InOrder(i, h, l)
    BY OrderCut
<1>4. m <= l
    BY <1>1 DEF InOrder
<1>5. ASSUME NEW j \in 1 .. Len(h) PROVE h[j] < m /\ h[j] \in Nat
    <2>1. Before(<<h[j], 1>>, b[1])
        BY <1>1 DEF InOrder
    <2>2. h[j] \in Nat
        OBVIOUS
    <2> QED BY <1>2, <2>1, <2>2 DEF Before
<1>6. ASSUME NEW k \in 1 .. Len(i) PROVE Before(<<m, 1>>, i[k])
    <2>1. i[k] = s[a + k] /\ a + k \in 1 .. Len(s) /\ 1 < a + k
        BY <1>1 DEF Joined
    <2>2. Before(s[1], i[k])
        BY <1>1, <2>1 DEF InOrder
    <2> QED BY <1>1, <2>2 DEF Before
<1> HIDE DEF m
<1>7. Len(g) = Len(h) + 1 /\ g[Len(h) + 1] = m /\ \A k \in 1 .. Len(h) : g[k] = h[k]
    BY <1>0, <1>2
<1> HIDE DEF g
<1>8. \A k \in 1 .. Len(h) + 1 : k \in 1 .. Len(h) \/ k = Len(h) + 1
    BY <1>0
<1>9. \A k \in 1 .. Len(g) : g[k] <= l
    BY <1>3, <1>4, <1>7, <1>8 DEF InOrder
<1>10. ASSUME NEW j \in 1 .. Len(h) + 1, NEW k \in 1 .. Len(h) + 1, j < k PROVE g[j] < g[k]
    <2>1. j \in 1 .. Len(h)
        BY <1>0, <1>10
    <2>2. CASE k \in 1 .. Len(h)
        BY <1>3, <1>7, <1>10, <2>1, <2>2 DEF InOrder
    <2>3. CASE k = Len(h) + 1
        BY <1>5, <1>7, <2>1, <2>3
    <2> QED BY <1>8, <2>2, <2>3
<1>11. \A j \in 1 .. Len(g), k \in 1 .. Len(i) : Before(<<g[j], 1>>, i[k])
    BY <1>3, <1>6, <1>7, <1>8 DEF InOrder
<1>12. \A k \in 1 .. Len(i) : i[k][1] <= l
    BY <1>3 DEF InOrder
<1>13. \A j, k \in 1 .. Len(i) : j < k => Before(i[j], i[k])
    BY <1>3 DEF InOrder
<1>14. InOrder(i, g, l)
    BY <1>7, <1>9, <1>10, <1>11, <1>12, <1>13 DEF InOrder
<1> QED BY <1>14 DEF g, m

\* In lockstep the buffer begins with the last message, and when all of it is there
\* nothing follows it.
LEMMA LockstepBegins ==
    ASSUME NEW b \in Seq(Unit), NEW i \in Seq(Unit), NEW s \in Seq(Unit), NEW h \in Seq(Nat),
           NEW l \in Nat, Lockstep(s, h, l), Joined(b, i, s), Len(b) > 0
    PROVE  /\ Len(s) = InLen /\ Len(h) = l - 1 /\ b[1] = <<l, 1>>
           /\ \A k \in 1 .. Len(b) : b[k] = <<l, k>>
           /\ Len(b) >= InLen => Len(i) = 0
<1>1. /\ Len(b) \in Nat \ {0} /\ Len(i) \in Nat /\ Len(s) = Len(b) + Len(i)
      /\ \A k \in 1 .. Len(b) : s[k] = b[k]
    BY DEF Joined
<1>2. Len(s) = InLen /\ Len(h) = l - 1
    BY <1>1 DEF Lockstep
<1>3. ASSUME NEW k \in 1 .. Len(b) PROVE b[k] = <<l, k>>
    <2>1. k \in 1 .. Len(s)
        BY <1>1
    <2> QED BY <1>1, <2>1 DEF Lockstep
<1>4. 1 \in 1 .. Len(b)
    BY <1>1
<1> QED BY <1>1, <1>2, <1>3, <1>4, SizesAssumption

LEMMA LockstepTake ==
    ASSUME NEW b \in Seq(Unit), NEW i \in Seq(Unit), NEW s \in Seq(Unit), NEW h \in Seq(Nat),
           NEW l \in Nat, Lockstep(s, h, l), Joined(b, i, s), Len(b) > 0, Len(b) >= InLen
    PROVE  Lockstep(i, Append(h, b[1][1]), l)
<1>1. Len(h) = l - 1 /\ b[1] = <<l, 1>> /\ Len(i) = 0
    BY LockstepBegins
<1> DEFINE g == Append(h, l)
<1>2. Len(g) = l /\ g[l] = l /\ \A k \in 1 .. l - 1 : g[k] = h[k]
    BY <1>1
<1> HIDE DEF g
<1>3. \A k \in 1 .. l : k \in 1 .. l - 1 \/ k = l
    OBVIOUS
<1>4. \A k \in 1 .. l : g[k] = k
    BY <1>1, <1>2, <1>3 DEF Lockstep
<1>5. Lockstep(i, g, l)
    BY <1>1, <1>2, <1>4 DEF Lockstep
<1> QED BY <1>1, <1>5 DEF g

LEMMA Associates ==
    ASSUME NEW s \in Seq(Unit), NEW t \in Seq(Unit), NEW u \in Seq(Unit)
    PROVE  (s \o t) \o u = s \o (t \o u)
    BY ConcatAssociative

\* The cut that read makes through what is pending.
LEMMA ReadCut ==
    ASSUME InTyped, NEW n \in 1 .. Len(inbox)
    PROVE  LET b == reqBuf \o SubSeq(inbox, 1, n)
               i == SubSeq(inbox, n + 1, Len(inbox))
           IN  /\ b \in Seq(Unit) /\ i \in Seq(Unit) /\ Len(b) > 0
               /\ b \o i = Pending /\ Joined(b, i, Pending)
<1> DEFINE x == SubSeq(inbox, 1, n)
           i == SubSeq(inbox, n + 1, Len(inbox))
           b == reqBuf \o x
<1>1. inbox \in Seq(Unit) /\ reqBuf \in Seq(Unit) /\ Len(inbox) \in Nat /\ n \in Nat \ {0}
    BY DEF InTyped
<1>2. x \in Seq(Unit) /\ Len(x) = n /\ i \in Seq(Unit)
    <2>1. \A k \in 1 .. Len(inbox) : inbox[k] \in Unit
        BY <1>1
    <2>2. \A k \in 1 .. n : inbox[k] \in Unit
        BY <1>1, <2>1
    <2>3. \A k \in n + 1 .. Len(inbox) : inbox[k] \in Unit
        BY <1>1, <2>1
    <2> QED BY <1>1, <2>2, <2>3
<1>3. x \o i = inbox
    BY <1>1, ConcatAdjacentSubSeq, SubSeqFull
<1> HIDE DEF x, i
<1>4. b \in Seq(Unit) /\ Len(b) > 0
    BY <1>1, <1>2
<1>5. b \o i = Pending
    <2>1. (reqBuf \o x) \o i = reqBuf \o (x \o i)
        BY <1>1, <1>2, Associates
    <2> QED BY <1>3, <2>1 DEF Pending
<1> HIDE DEF b
<1>6. Joined(b, i, Pending)
    BY <1>2, <1>4, <1>5, ConcatFacts
<1> QED BY <1>2, <1>4, <1>5, <1>6 DEF b, i, x

\* The parser's end of a request is the end of the last message, in lockstep.
LEMMA EndIsLast ==
    ASSUME NEW b \in Seq(Unit), NEW l, HasEnd(b), \A k \in 1 .. Len(b) : b[k] = <<l, k>>
    PROVE  Len(b) >= InLen
<1>1. PICK k \in 1 .. Len(b) : b[k][2] = InLen
    BY DEF HasEnd
<1>2. InLen = k /\ Len(b) \in Nat
    BY <1>1
<1> QED BY <1>2

\* A message is handled, and what the buffer held is gone.
LEMMA TakeHeard ==
    ASSUME HeardInv, NEW b \in Seq(Unit), NEW i \in Seq(Unit), Joined(b, i, Pending), Len(b) > 0,
           AtStart(b), Len(b) >= InLen \/ HasEnd(b),
           reqBuf' = <<>>, inbox' = i, handled' = Append(handled, b[1][1]),
           UNCHANGED <<isOpen, kinds, overlap>>
    PROVE  HeardInv'
<1>1. /\ Pending \in Seq(Unit) /\ handled \in Seq(Nat) /\ Len(kinds) \in Nat
      /\ InOrder(Pending, handled, Len(kinds))
    BY DEF HeardInv, InTyped, Pending
<1>2. Pending' = i
    BY DEF Pending
<1>3. b[1][1] \in Nat
    <2>1. 1 \in 1 .. Len(b)
        OBVIOUS
    <2>2. b[1] \in Unit
        BY <2>1
    <2> QED BY <2>2 DEF Unit
<1>4. InTyped'
    BY <1>3 DEF HeardInv, InTyped
<1>5. InOrder(Pending', handled', Len(kinds'))
    BY <1>1, <1>2, OrderTake DEF AtStart
<1>6. ASSUME isOpen, ~overlap PROVE Lockstep(Pending', handled', Len(kinds'))
    <2>1. Lockstep(Pending, handled, Len(kinds))
        BY <1>6 DEF HeardInv
    <2>2. \A k \in 1 .. Len(b) : b[k] = <<Len(kinds), k>>
        BY <1>1, <2>1, LockstepBegins
    <2>3. Len(b) >= InLen
        BY <2>2, EndIsLast
    <2> QED BY <1>1, <1>2, <2>1, <2>3, LockstepTake
<1> QED BY <1>4, <1>5, <1>6 DEF HeardInv

\* A message whose beginning is gone: that does not happen in lockstep.
LEMMA RestHeard ==
    ASSUME HeardInv, NEW b \in Seq(Unit), NEW i \in Seq(Unit), Joined(b, i, Pending), Len(b) > 0,
           ~AtStart(b), reqBuf' = <<>>, inbox' = i, UNCHANGED <<isOpen, kinds, handled, overlap>>
    PROVE  HeardInv'
<1>1. /\ Pending \in Seq(Unit) /\ handled \in Seq(Nat) /\ Len(kinds) \in Nat
      /\ InOrder(Pending, handled, Len(kinds))
    BY DEF HeardInv, InTyped, Pending
<1>2. Pending' = i
    BY DEF Pending
<1>3. InTyped'
    BY DEF HeardInv, InTyped
<1>4. InOrder(Pending', handled', Len(kinds'))
    BY <1>1, <1>2, OrderCut
<1>5. ~(isOpen /\ ~overlap)
    <2> SUFFICES ASSUME isOpen, ~overlap PROVE FALSE
        OBVIOUS
    <2>1. Lockstep(Pending, handled, Len(kinds))
        BY DEF HeardInv
    <2>2. b[1] = <<Len(kinds), 1>>
        BY <1>1, <2>1, LockstepBegins
    <2> QED BY <2>2 DEF AtStart
<1> QED BY <1>3, <1>4, <1>5 DEF HeardInv

\* What leaves the pending units in place.
LEMMA HeardKept ==
    ASSUME HeardInv, InTyped', Pending' = Pending, isOpen' => isOpen,
           UNCHANGED <<kinds, handled, overlap>>
    PROVE  HeardInv'
    BY DEF HeardInv

LEMMA DropHeard == ASSUME HeardInv, DropConn PROVE HeardInv'
<1>1. UNCHANGED <<kinds, inbox, reqBuf, handled, overlap>> /\ isOpen' = FALSE
    BY DEF DropConn, in
<1>2. InTyped' /\ Pending' = Pending
    BY <1>1 DEF HeardInv, InTyped, Pending
<1> QED BY <1>1, <1>2, HeardKept

\* parse_client_data.
LEMMA ParseHeard ==
    ASSUME HeardInv, NEW b \in Seq(Unit), NEW i \in Seq(Unit), Len(b) > 0, b \o i = Pending,
           Joined(b, i, Pending), Parse(b, i)
    PROVE  HeardInv'
<1>1. CASE reqBuf' = b /\ inbox' = i /\ UNCHANGED <<isOpen, kinds, handled, overlap>>
    <2>1. InTyped' /\ Pending' = Pending
        BY <1>1 DEF HeardInv, InTyped, Pending
    <2> QED BY <1>1, <2>1, HeardKept
<1>2. CASE /\ AtStart(b) /\ (Len(b) >= InLen \/ HasEnd(b))
           /\ reqBuf' = <<>> /\ inbox' = i /\ handled' = Append(handled, b[1][1])
           /\ UNCHANGED <<isOpen, kinds, overlap>>
    BY <1>2, TakeHeard
<1>3. CASE ~AtStart(b) /\ reqBuf' = <<>> /\ inbox' = i /\ UNCHANGED <<isOpen, kinds, handled, overlap>>
    BY <1>3, RestHeard
<1>4. CASE DropConn
    BY <1>4, DropHeard
<1> QED BY <1>1, <1>2, <1>3, <1>4 DEF Parse, ParseAs, IsPacket, Cleared

LEMMA DoReadHeard == ASSUME HeardInv, DoRead PROVE HeardInv'
<1>1. PICK n \in 1 .. Len(inbox) :
        \/ DropConn
        \/ Parse(reqBuf \o SubSeq(inbox, 1, n), SubSeq(inbox, n + 1, Len(inbox)))
    BY DEF DoRead
<1> DEFINE b == reqBuf \o SubSeq(inbox, 1, n)
           i == SubSeq(inbox, n + 1, Len(inbox))
<1>2. /\ b \in Seq(Unit) /\ i \in Seq(Unit) /\ Len(b) > 0
      /\ b \o i = Pending /\ Joined(b, i, Pending)
    BY ReadCut DEF HeardInv
<1>3. CASE DropConn
    BY <1>3, DropHeard
<1>4. CASE Parse(b, i)
    <2> HIDE DEF b, i
    <2> QED BY <1>2, <1>4, ParseHeard
<1> QED BY <1>1, <1>3, <1>4

\* A waiting client's next message finds nothing pending.
LEMMA SendsHeard ==
    ASSUME HeardInv, NEW kind \in {"request", "packet"}, ClientSends(kind)
    PROVE  HeardInv'
<1> DEFINE l == Len(kinds)  u == Units(l + 1)
<1>1. /\ kinds \in Seq({"request", "packet"}) /\ inbox \in Seq(Unit) /\ reqBuf \in Seq(Unit)
      /\ handled \in Seq(Nat) /\ overlap \in BOOLEAN /\ l \in Nat
    BY DEF HeardInv, InTyped
<1>2. /\ kinds' = Append(kinds, kind) /\ inbox' = inbox \o u
      /\ overlap' = (overlap \/ inbox # <<>> \/ reqBuf # <<>>)
      /\ isOpen' = isOpen /\ reqBuf' = reqBuf /\ handled' = handled
    BY DEF ClientSends
<1>3. u \in Seq(Unit) /\ Len(u) = InLen /\ (\A k \in 1 .. InLen : u[k] = <<l + 1, k>>) /\ InLen \in Nat \ {0}
    BY <1>1, SizesAssumption DEF Units, Unit
<1> HIDE DEF u
<1>4. Len(kinds') = l + 1 /\ kinds' \in Seq({"request", "packet"})
    BY <1>1, <1>2
<1>5. InTyped'
    BY <1>1, <1>2, <1>3, <1>4 DEF InTyped
<1>6. Pending' = Pending \o u /\ Pending \in Seq(Unit)
    <2>1. (reqBuf \o inbox) \o u = reqBuf \o (inbox \o u)
        BY <1>1, <1>3, Associates
    <2>2. Pending \in Seq(Unit)
        BY <1>1 DEF Pending
    <2> QED BY <1>2, <2>1, <2>2 DEF Pending
<1>7. Joined(Pending, u, Pending')
    BY <1>3, <1>6, ConcatFacts
<1>8. InOrder(Pending', handled', Len(kinds'))
    BY <1>1, <1>2, <1>4, <1>6, <1>7, OrderSends DEF HeardInv, u
<1>9. ASSUME isOpen, ~overlap' PROVE Lockstep(Pending', handled', Len(kinds'))
    <2>1. ~overlap /\ inbox = <<>> /\ reqBuf = <<>>
        BY <1>1, <1>2, <1>9
    <2>2. Len(Pending) = 0
        BY <2>1 DEF Pending
    <2>3. Lockstep(Pending, handled, l)
        BY <1>9, <2>1 DEF HeardInv
    <2>4. Len(handled) = l /\ \A k \in 1 .. Len(handled) : handled[k] = k
        BY <1>3, <2>2, <2>3 DEF Lockstep
    <2>5. Len(Pending') = InLen /\ \A k \in 1 .. InLen : Pending'[k] = <<l + 1, k>>
        BY <1>3, <1>7, <2>2 DEF Joined
    <2>6. Len(handled) = l + 1 - 1
        BY <1>1, <2>4
    <2> QED BY <1>2, <1>4, <2>4, <2>5, <2>6 DEF Lockstep
<1> QED BY <1>2, <1>5, <1>8, <1>9 DEF HeardInv

LEMMA HeardInit == Init => HeardInv
<1> SUFFICES ASSUME Init PROVE HeardInv
    OBVIOUS
<1>1. kinds = <<>> /\ inbox = <<>> /\ reqBuf = <<>> /\ handled = <<>> /\ overlap = FALSE
    BY DEF Init
<1>2. Pending = <<>>
    BY <1>1 DEF Pending
<1>3. InTyped
    <2>1. overlap \in BOOLEAN
        BY <1>1
    <2>2. /\ kinds \in Seq({"request", "packet"}) /\ inbox \in Seq(Unit) /\ reqBuf \in Seq(Unit)
          /\ handled \in Seq(Nat)
        BY <1>1
    <2> QED BY <2>1, <2>2 DEF InTyped
<1> QED BY <1>1, <1>2, <1>3 DEF HeardInv, InOrder, Lockstep

LEMMA HeardNext == HeardInv /\ [Next]_vars => HeardInv'
<1> SUFFICES ASSUME HeardInv, [Next]_vars PROVE HeardInv'
    OBVIOUS
<1>1. CASE UNCHANGED <<isOpen, in>>
    <2>1. InTyped' /\ Pending' = Pending
        BY <1>1 DEF HeardInv, InTyped, Pending, in
    <2> QED BY <1>1, <2>1, HeardKept DEF in
<1>2. CASE ClientReads \/ ClientCloses \/ ConnWrite
    BY <1>1, <1>2 DEF ClientReads, ClientCloses, ConnWrite
<1>3. CASE \E kind \in {"request", "packet"} : ClientSends(kind)
    BY <1>3, SendsHeard
<1>4. CASE DoRead
    BY <1>4, DoReadHeard
<1>5. CASE DoReadEnd \/ ConnWriteFails
    BY <1>5, DropHeard DEF DoReadEnd, ConnWriteFails
<1>6. CASE ConnWrites \/ Flush
    BY <1>1, <1>6 DEF ConnWrites, Flush, Write
<1>7. CASE ConnWriteDone
    BY <1>1, <1>7, DropHeard DEF ConnWriteDone
<1>8. CASE FlushDone
    BY <1>1, <1>8 DEF FlushDone
<1>9. CASE \E n \in BodyLens : InterleaveSend(n)
    BY <1>1, <1>9 DEF InterleaveSend
<1>10. CASE UNCHANGED vars
    BY <1>1, <1>10 DEF vars
<1> QED BY <1>2, <1>3, <1>4, <1>5, <1>6, <1>7, <1>8, <1>9, <1>10 DEF Next, Writing

-----------------------------------------------------------------------------
(* Theorems.                                                                *)

Inv == SendInv /\ HeardInv

\* The invariant holds in every state of every behaviour.
THEOREM Invariance == Spec => []Inv
<1>1. Init => Inv
    BY SendInit, HeardInit DEF Inv
<1>2. Inv /\ [Next]_vars => Inv'
    BY SendNext, HeardNext DEF Inv
<1> QED BY <1>1, <1>2, PTL DEF Spec

\* Positions stay in send_buf, and everything on its way is made of whole units.
THEOREM TypeCorrect == Spec => []TypeOK
<1>1. Inv => TypeOK
    BY TypeParts DEF Inv, SendInv, HeardInv
<1> QED BY <1>1, Invariance, PTL

\* What the client has received, what is on the wire and what send_buf holds is the
\* sequence of the messages send_data accepted, for every size of the buffer and of the
\* messages, however often conn_write and tcp_conn_flush are cut short and the buffer
\* wraps.
THEOREM StreamKeptIntact == Spec => []StreamIntact
<1>1. Inv => StreamIntact
    BY HeldStream DEF Inv, SendInv
<1> QED BY <1>1, Invariance, PTL

\* While send_buf holds anything, or the connection is to be dropped behind it, its
\* write event is enabled, for every buffer that can hold the longest message.
THEOREM OutputNotForgotten == Spec => []OutputScheduled
<1>1. Inv => OutputScheduled
    BY DEF Inv, SendInv
<1> QED BY <1>1, Invariance, PTL

\* However read cuts the incoming bytes, messages are handled in order and none twice,
\* and a client that sends its next message only when parse_client_data has consumed
\* the last one loses none.
THEOREM WaitingClientHeard == Spec => []WaitingClientIsHeard
<1>1. ASSUME Inv PROVE WaitingClientIsHeard
    <2> DEFINE l == Len(kinds)  p == Len(Pending)
    <2>1. /\ handled \in Seq(Nat) /\ l \in Nat /\ Pending \in Seq(Unit) /\ p \in Nat
          /\ reqBuf \in Seq(Unit) /\ inbox \in Seq(Unit) /\ InOrder(Pending, handled, l)
        BY <1>1 DEF Inv, HeardInv, InTyped, Pending
    <2>2. DOMAIN handled = 1 .. Len(handled)
        BY <2>1
    <2>3. \A i, j \in DOMAIN handled : i < j => handled[i] < handled[j]
        BY <2>1, <2>2 DEF InOrder
    <2>4. inbox = <<>> /\ reqBuf = <<>> <=> p = 0
        <3>1. p = Len(reqBuf) + Len(inbox) /\ Len(reqBuf) \in Nat /\ Len(inbox) \in Nat
            BY <2>1 DEF Pending
        <3>2. (inbox = <<>> <=> Len(inbox) = 0) /\ (reqBuf = <<>> <=> Len(reqBuf) = 0)
            BY <2>1
        <3> QED BY <3>1, <3>2
    <2>5. ASSUME isOpen, ~overlap
          PROVE  /\ handled = [m \in DOMAIN handled |-> m]
                 /\ l = Len(handled) + (IF p = 0 THEN 0 ELSE 1)
        <3>1. Lockstep(Pending, handled, l)
            BY <1>1, <2>5 DEF Inv, HeardInv
        <3>2. \A k \in DOMAIN handled : handled[k] = k
            BY <2>2, <3>1 DEF Lockstep
        <3>3. handled = [m \in DOMAIN handled |-> handled[m]]
            BY <2>1
        <3>4. handled = [m \in DOMAIN handled |-> m]
            BY <3>2, <3>3
        <3>5. \/ p = 0 /\ Len(handled) = l
              \/ p = InLen /\ Len(handled) = l - 1
            BY <3>1 DEF Lockstep
        <3>6. l = Len(handled) + (IF p = 0 THEN 0 ELSE 1)
            <4> HIDE DEF l, p
            <4>1. InLen # 0
                BY SizesAssumption
            <4>2. CASE p = 0
                BY <2>1, <3>5, <4>1, <4>2
            <4>3. CASE p = InLen /\ Len(handled) = l - 1
                BY <2>1, <4>1, <4>3
            <4> QED BY <3>5, <4>2, <4>3
        <3> QED BY <3>4, <3>6
    <2> HIDE DEF p
    <2> QED BY <2>3, <2>4, <2>5 DEF WaitingClientIsHeard
<1> QED BY <1>1, Invariance, PTL
=============================================================================
