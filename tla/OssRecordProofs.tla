---------------------------- MODULE OssRecordProofs ----------------------------
(***************************************************************************)
(* The recorder hands out sound in order whatever the sizes of blocks,     *)
(* frames and reads, and however long the gaps are.  The buffers hold it   *)
(* if they are large enough for the longest gap.                           *)
(***************************************************************************)
EXTENDS OssRecord, TLAPS

\* SamplesInOrder needs SilenceBeforeSound: a new silence is put between the pre
\* buffer and the post buffer, which holds nothing only if no silence is due.
Inv == TypeOK /\ SamplesInOrder /\ SilenceBeforeSound

-----------------------------------------------------------------------------
(* Runs of samples.                                                         *)

\* A run with a block put behind it.
LEMMA RunAppend ==
    ASSUME NEW buf \in Seq(Nat), NEW a \in Nat, NEW b \in Nat, NEW r \in Nat,
           Run(buf, a, b)
    PROVE  LET longer == buf \o [k \in 1 .. r |-> b + k]
           IN  longer \in Seq(Nat) /\ Run(longer, a, b + r) /\ (r # 0 => longer # <<>>)
<1> DEFINE block == [k \in 1 .. r |-> b + k]
           longer == buf \o block
<1>1. block \in Seq(Nat) /\ Len(block) = r
    OBVIOUS
<1>2. longer \in Seq(Nat) /\ Len(longer) = Len(buf) + r /\ Len(buf) \in Nat
    BY <1>1
<1>3. Len(buf) = b - a /\ \A k \in 1 .. Len(buf) : buf[k] = a + k
    BY DEF Run
<1>4. ASSUME NEW k \in 1 .. Len(longer) PROVE longer[k] = a + k
    <2>1. CASE k <= Len(buf)
        BY <1>1, <1>2, <1>3, <2>1
    <2>2. CASE k > Len(buf)
        <3>1. longer[k] = block[k - Len(buf)] /\ k - Len(buf) \in 1 .. r
            BY <1>1, <1>2, <2>2
        <3> QED BY <1>3, <3>1
    <2> QED BY <1>2, <2>1, <2>2
<1>5. Len(longer) = (b + r) - a /\ (r # 0 => longer # <<>>)
    BY <1>2, <1>3
<1> HIDE DEF longer
<1>6. Run(longer, a, b + r)
    BY <1>4, <1>5 DEF Run
<1> QED BY <1>2, <1>5, <1>6 DEF longer

\* A run of which c samples are taken: it goes on after the last of them.
LEMMA RunRest ==
    ASSUME NEW buf \in Seq(Nat), NEW a \in Nat, NEW b \in Nat, NEW c \in 0 .. Len(buf),
           Run(buf, a, b)
    PROVE  LET last == IF c = 0 THEN a ELSE buf[c]
           IN  Rest(buf, c) \in Seq(Nat) /\ last \in a .. b /\ Run(Rest(buf, c), last, b)
<1> DEFINE rest == SubSeq(buf, c + 1, Len(buf))
           last == IF c = 0 THEN a ELSE buf[c]
<1>1. Len(buf) \in Nat /\ Len(buf) = b - a /\ \A k \in 1 .. Len(buf) : buf[k] = a + k
    BY DEF Run
<1>2. rest \in Seq(Nat) /\ Len(rest) = Len(buf) - c
      /\ \A k \in 1 .. Len(rest) : rest[k] = buf[c + k]
    BY <1>1
<1> HIDE DEF rest
<1>3. last = a + c
    <2>1. CASE c = 0
        BY <2>1
    <2>2. CASE c # 0
        <3>1. c \in 1 .. Len(buf) /\ last = buf[c]
            BY <1>1, <2>2
        <3> QED BY <1>1, <3>1
    <2> QED BY <2>1, <2>2
<1> HIDE DEF last
<1>r. last \in a .. b /\ last \in Nat /\ Len(rest) = b - last
    BY <1>1, <1>2, <1>3
<1>4. ASSUME NEW k \in 1 .. Len(rest) PROVE rest[k] = last + k
    <2>1. c + k \in 1 .. Len(buf) /\ rest[k] = buf[c + k]
        BY <1>1, <1>2
    <2>2. rest[k] = a + (c + k)
        BY <1>1, <2>1
    <2> QED BY <1>3, <2>1, <2>2
<1>5. Run(rest, last, b)
    BY <1>r, <1>4 DEF Run
<1> QED BY <1>2, <1>r, <1>5 DEF rest, last, Rest

\* Of an empty buffer nothing is left, and only of that.
LEMMA RunEmpty ==
    ASSUME NEW buf \in Seq(Nat), NEW a \in Nat, NEW b \in Nat
    PROVE  buf = <<>> => (Run(buf, a, b) <=> a = b)
    BY DEF Run

-----------------------------------------------------------------------------
(* The invariant.                                                           *)

LEMMA InvInit == Init => Inv
<1> SUFFICES ASSUME Init PROVE Inv
    OBVIOUS
<1>1. TypeOK /\ SilenceBeforeSound
    BY SizesAssumption DEF Init, TypeOK, SilenceBeforeSound
<1>2. zero = 0 /\ Run(post, sent, 0) /\ Run(pre, 0, n) /\ 0 \in sent .. n
    BY RunEmpty DEF Init, Run
<1> QED BY <1>1, <1>2 DEF Inv, SamplesInOrder

\* What a step leaves alone.
LEMMA SamplesKept ==
    ASSUME Inv, UNCHANGED <<pre, post, zero, n, sent>>
    PROVE  SamplesInOrder' /\ SilenceBeforeSound'
    BY DEF Inv, SamplesInOrder, SilenceBeforeSound, Run

\* What CopyLen takes is there.
LEMMA CopyLenFits ==
    ASSUME TypeOK, NEW avail \in Nat
    PROVE  CopyLen(avail) \in 0 .. avail /\ got + CopyLen(avail) \in 0 .. Out
    BY SizesAssumption DEF TypeOK, CopyLen

\* OSS_RecRead puts a block behind what is there.
LEMMA RecReadInv ==
    ASSUME Inv, NEW r \in Reads, NEW f \in 0 .. MaxClock, RecRead(r, f)
    PROVE  Inv'
<1> DEFINE frames == Arrived(f)
<1>0. TypeOK /\ SamplesInOrder /\ SilenceBeforeSound
    BY DEF Inv
<1>1. r \in Nat \ {0} /\ f \in Nat /\ frames \in Int /\ prev \in Int
    BY <1>0, SizesAssumption, BoundsAssumption DEF TypeOK, Arrived
<1>2. got' = 0 /\ pc' \in {"read", "get"} /\ clock' = f /\ sent' = sent
    BY DEF RecRead, GetAudio
<1>3. pre \in Seq(Nat) /\ post \in Seq(Nat) /\ zero \in Nat /\ n \in Nat /\ sent \in Nat
    BY <1>0 DEF TypeOK
<1> HIDE DEF frames
<1>4. CASE UNCHANGED <<pre, post, zero, n>> /\ prev' \in Int
    <2>1. TypeOK'
        BY <1>0, <1>1, <1>2, <1>4, SizesAssumption DEF TypeOK
    <2> QED BY <1>2, <1>4, <2>1, SamplesKept DEF Inv
<1>5. CASE /\ prev' = frames /\ ~SkipsSilence(frames)
           /\ zero' = IF frames - prev > 1 THEN Silence(frames - prev) ELSE zero
           /\ PutAudioToBuf(r)
    <2>1. n' = n + r /\ Block(r) = [k \in 1 .. r |-> n + k] /\ n' \in Nat
        BY <1>1, <1>3, <1>5 DEF PutAudioToBuf, Block
    <2>2. CASE frames - prev > 1
        <3>1. post = <<>> /\ zero = 0
            BY <1>0, <1>5, <2>2 DEF SkipsSilence, SilenceBeforeSound
        <3>2. PICK m \in sent .. n : Run(post, sent, m) /\ Run(pre, m, n)
            BY <1>0, <3>1 DEF SamplesInOrder
        <3>m. m \in Nat
            BY <1>3
        <3>3. m = sent /\ Run(pre, sent, n) /\ Run(post, n, n)
            BY <1>3, <3>1, <3>2, <3>m, RunEmpty
        <3>4. zero' \in Nat \ {0}
            <4> DEFINE gap == frames - prev
            <4>1. gap \in Nat /\ zero' = (gap + 1) * Drv
                BY <1>1, <1>5, <2>2 DEF Silence
            <4> HIDE DEF gap
            <4> QED BY <4>1, SizesAssumption
        <3>5. pre' = pre /\ post' = post \o [k \in 1 .. r |-> n + k]
            BY <1>5, <2>1, <3>4 DEF PutAudioToBuf
        <3>6. post' \in Seq(Nat) /\ Run(post', n, n + r) /\ post' # <<>>
            BY <1>1, <1>3, <3>3, <3>5, RunAppend
        <3>7. Run(pre', sent', n) /\ Run(post', n, n') /\ n \in sent' .. n'
            BY <1>1, <1>2, <1>3, <2>1, <3>2, <3>3, <3>5, <3>6
        <3>8. TypeOK'
            BY <1>0, <1>1, <1>2, <1>5, <2>1, <3>4, <3>5, <3>6, SizesAssumption DEF TypeOK
        <3> QED BY <3>4, <3>6, <3>7, <3>8 DEF Inv, SamplesInOrder, SilenceBeforeSound
    <2>3. CASE ~(frames - prev > 1) /\ zero # 0
        <3>1. zero' = zero /\ pre' = pre /\ post' = post \o [k \in 1 .. r |-> n + k]
            BY <1>5, <2>1, <2>3 DEF PutAudioToBuf
        <3>2. PICK m \in sent .. n : Run(pre, sent, m) /\ Run(post, m, n)
            BY <1>0, <2>3 DEF SamplesInOrder
        <3>3. m \in Nat /\ m \in sent' .. n'
            BY <1>1, <1>2, <1>3, <2>1
        <3>4. post' \in Seq(Nat) /\ Run(post', m, n') /\ post' # <<>>
            <4> DEFINE longer == post \o [k \in 1 .. r |-> n + k]
            <4>1. longer \in Seq(Nat) /\ Run(longer, m, n + r) /\ longer # <<>>
                BY <1>1, <1>3, <3>2, <3>3, RunAppend
            <4> HIDE DEF longer
            <4> QED BY <2>1, <3>1, <4>1 DEF longer
        <3>5. Run(pre', sent', m)
            BY <1>2, <3>1, <3>2
        <3>6. TypeOK'
            BY <1>0, <1>1, <1>2, <1>5, <2>1, <3>1, <3>4, SizesAssumption DEF TypeOK
        <3> QED BY <2>3, <3>1, <3>3, <3>4, <3>5, <3>6 DEF Inv, SamplesInOrder, SilenceBeforeSound
    <2>4. CASE ~(frames - prev > 1) /\ zero = 0
        <3>1. zero' = zero /\ post' = post /\ pre' = pre \o [k \in 1 .. r |-> n + k]
            BY <1>5, <2>1, <2>4 DEF PutAudioToBuf
        <3>2. PICK m \in sent .. n : Run(post, sent, m) /\ Run(pre, m, n)
            BY <1>0, <2>4 DEF SamplesInOrder
        <3>3. m \in Nat /\ m \in sent' .. n'
            BY <1>1, <1>2, <1>3, <2>1
        <3>4. pre' \in Seq(Nat) /\ Run(pre', m, n')
            BY <1>1, <1>3, <2>1, <3>1, <3>2, <3>3, RunAppend
        <3>5. Run(post', sent', m)
            BY <1>2, <3>1, <3>2
        <3>6. TypeOK'
            BY <1>0, <1>1, <1>2, <1>5, <2>1, <3>1, <3>4, SizesAssumption DEF TypeOK
        <3> QED BY <2>4, <3>1, <3>3, <3>4, <3>5, <3>6 DEF Inv, SamplesInOrder, SilenceBeforeSound
    <2> QED BY <2>2, <2>3, <2>4
<1> QED BY <1>1, <1>4, <1>5 DEF RecRead, frames, bufs

\* A turn of GetAudioFromBuf takes the next samples, or some of the silence.
LEMMA GetTurnInv == ASSUME Inv, GetTurn PROVE Inv'
<1>0. TypeOK /\ SamplesInOrder /\ SilenceBeforeSound
    BY DEF Inv
<1>1. pre \in Seq(Nat) /\ post \in Seq(Nat) /\ zero \in Nat /\ n \in Nat /\ sent \in Nat
      /\ Len(pre) \in Nat /\ Len(post) \in Nat
    BY <1>0 DEF TypeOK
<1>2. UNCHANGED <<prev, clock, n>>
    BY DEF GetTurn
<1>3. CASE Source = "pre" /\ TakeFrom(pre) /\ UNCHANGED <<post, zero>>
    <2> DEFINE c == CopyLen(Len(pre))
    <2>1. c \in 0 .. Len(pre) /\ got + c \in 0 .. Out
        BY <1>0, <1>1, CopyLenFits
    <2>2. pre' = Rest(pre, c) /\ sent' = (IF c = 0 THEN sent ELSE pre[c]) /\ got' = got + c
          /\ pc' \in {"read", "get"}
        BY <1>3 DEF TakeFrom, Copied
    <2> HIDE DEF c
    <2>3. zero # 0 \/ post = <<>>
        BY <1>3 DEF Source
    <2>4. CASE zero # 0
        <3>1. PICK m \in sent .. n : Run(pre, sent, m) /\ Run(post, m, n)
            BY <1>0, <2>4 DEF SamplesInOrder
        <3>m. m \in Nat
            BY <1>1
        <3>2. pre' \in Seq(Nat) /\ sent' \in sent .. m /\ Run(pre', sent', m)
            BY <1>1, <2>1, <2>2, <3>1, <3>m, RunRest
        <3>3. Run(post', m, n') /\ m \in sent' .. n' /\ sent' \in Nat
            BY <1>1, <1>2, <1>3, <3>1, <3>2, <3>m
        <3>4. TypeOK'
            BY <1>0, <1>2, <1>3, <2>1, <2>2, <3>2, <3>3 DEF TypeOK
        <3>5. zero' # 0 /\ SilenceBeforeSound'
            BY <1>0, <1>3, <2>4 DEF SilenceBeforeSound
        <3> QED BY <3>2, <3>3, <3>4, <3>5 DEF Inv, SamplesInOrder
    <2>5. CASE zero = 0 /\ post = <<>>
        <3>1. PICK m \in sent .. n : Run(post, sent, m) /\ Run(pre, m, n)
            BY <1>0, <2>5 DEF SamplesInOrder
        <3>m. m \in Nat
            BY <1>1
        <3>2. Run(pre, sent, n)
            BY <1>1, <2>5, <3>1, <3>m, RunEmpty
        <3>3. pre' \in Seq(Nat) /\ sent' \in sent .. n /\ Run(pre', sent', n)
            BY <1>1, <2>1, <2>2, <3>2, RunRest
        <3>4. sent' \in Nat /\ sent' \in sent' .. n' /\ Run(pre', sent', n')
            BY <1>1, <1>2, <3>3
        <3>5. Run(post', sent', sent')
            BY <1>1, <1>3, <2>5, <3>4, RunEmpty
        <3>6. TypeOK'
            BY <1>0, <1>2, <1>3, <2>1, <2>2, <3>3, <3>4 DEF TypeOK
        <3>7. zero' = 0
            BY <1>3, <2>5
        <3> QED BY <3>4, <3>5, <3>6, <3>7 DEF Inv, SamplesInOrder, SilenceBeforeSound
    <2> QED BY <2>3, <2>4, <2>5
<1>4. CASE Source = "post" /\ TakeFrom(post) /\ UNCHANGED <<pre, zero>>
    <2> DEFINE c == CopyLen(Len(post))
    <2>1. c \in 0 .. Len(post) /\ got + c \in 0 .. Out
        BY <1>0, <1>1, CopyLenFits
    <2>2. post' = Rest(post, c) /\ sent' = (IF c = 0 THEN sent ELSE post[c]) /\ got' = got + c
          /\ pc' \in {"read", "get"}
        BY <1>4 DEF TakeFrom, Copied
    <2> HIDE DEF c
    <2>3. zero = 0
        BY <1>4 DEF Source
    <2>4. PICK m \in sent .. n : Run(post, sent, m) /\ Run(pre, m, n)
        BY <1>0, <2>3 DEF SamplesInOrder
    <2>m. m \in Nat
        BY <1>1
    <2>5. post' \in Seq(Nat) /\ sent' \in sent .. m /\ Run(post', sent', m)
        BY <1>1, <2>1, <2>2, <2>4, <2>m, RunRest
    <2>6. Run(pre', m, n') /\ m \in sent' .. n' /\ sent' \in Nat
        BY <1>1, <1>2, <1>4, <2>4, <2>5, <2>m
    <2>7. TypeOK'
        BY <1>0, <1>2, <1>4, <2>1, <2>2, <2>5, <2>6 DEF TypeOK
    <2>8. zero' = 0
        BY <1>4, <2>3
    <2> QED BY <2>5, <2>6, <2>7, <2>8 DEF Inv, SamplesInOrder, SilenceBeforeSound
<1>5. CASE /\ Source = "zero"
           /\ LET c == CopyLen(zero) IN zero' = zero - c /\ Copied(c)
           /\ UNCHANGED <<pre, post, sent>>
    <2>1. pre = <<>> /\ zero # 0
        BY <1>5 DEF Source
    <2>2. zero' \in Nat /\ got' \in 0 .. Out /\ pc' \in {"read", "get"}
        <3> DEFINE c == CopyLen(zero)
        <3>1. c \in 0 .. zero /\ got + c \in 0 .. Out
            BY <1>0, <1>1, CopyLenFits
        <3>2. zero' = zero - c /\ got' = got + c /\ pc' \in {"read", "get"}
            BY <1>5 DEF Copied
        <3> HIDE DEF c
        <3> QED BY <1>1, <3>1, <3>2
    <2>3. TypeOK'
        BY <1>0, <1>2, <1>5, <2>2 DEF TypeOK
    <2>4. PICK m \in sent .. n : Run(pre, sent, m) /\ Run(post, m, n)
        BY <1>0, <2>1 DEF SamplesInOrder
    <2>m. m \in Nat
        BY <1>1
    <2>5. m = sent /\ Run(post, sent, n)
        BY <1>1, <2>1, <2>4, <2>m, RunEmpty
    <2>6. /\ sent \in sent' .. n' /\ n \in sent' .. n'
          /\ Run(pre', sent', sent) /\ Run(post', sent, n')
          /\ Run(post', sent', n) /\ Run(pre', n, n')
        <3>1. Run(pre, sent, sent) /\ Run(pre, n, n)
            BY <1>1, <2>1, RunEmpty
        <3>2. sent \in sent .. n /\ n \in sent .. n
            BY <1>1, <2>4, <2>m
        <3> QED BY <1>2, <1>5, <2>5, <3>1, <3>2
    <2>7. SilenceBeforeSound'
        BY <1>0, <1>5, <2>1 DEF SilenceBeforeSound
    <2> QED BY <2>3, <2>6, <2>7 DEF Inv, SamplesInOrder
<1> QED BY <1>3, <1>4, <1>5 DEF GetTurn

LEMMA InvNext == Inv /\ [Next]_vars => Inv'
<1> SUFFICES ASSUME Inv, [Next]_vars PROVE Inv'
    OBVIOUS
<1>1. CASE RecReadFails
    <2>1. got' = 0 /\ pc' \in {"read", "get"} /\ UNCHANGED <<pre, post, zero, prev, clock, n, sent>>
        BY <1>1 DEF RecReadFails, GetAudio, bufs
    <2>2. TypeOK'
        BY <2>1, SizesAssumption DEF Inv, TypeOK
    <2> QED BY <2>1, <2>2, SamplesKept DEF Inv
<1>2. CASE UNCHANGED vars
    <2>1. UNCHANGED <<pc, got, pre, post, zero, prev, clock, n, sent>>
        BY <1>2 DEF vars
    <2>2. TypeOK'
        BY <2>1 DEF Inv, TypeOK
    <2> QED BY <2>1, <2>2, SamplesKept DEF Inv
<1>3. CASE RecReadEarly
    BY <1>2, <1>3 DEF RecReadEarly
<1> QED BY <1>1, <1>2, <1>3, RecReadInv, GetTurnInv DEF Next

-----------------------------------------------------------------------------
(* How much waits in the buffers.                                           *)

\* The longest silence, and the most that waits in the pre buffer between two calls
\* while there is no silence.  The latter is less than a frame, unless the rest of what
\* piled up behind a silence is more: a quarter of it can be left when the next one
\* comes.
Longest == Silence(MaxGap)
Standing == IF Longest <= 3 * (Out - 1) THEN Out - 1 ELSE (Longest + 2) \div 3

\* Frames are at least twice as long as blocks, as the encoder's frames of 8192 bytes are
\* when the device reports blocks of 4096, and the buffers hold a block on top of what is
\* standing, and half of what was there when a silence began.
RoomEnough ==
    /\ 2 * Drv <= Out
    /\ Drv + Standing <= BufSize
    /\ 2 * Drv + Standing + Longest - 1 <= 2 * BufSize

\* What the loop of GetAudioFromBuf has still to take.
Due == IF pc = "get" THEN Out - got ELSE 0

\* With x units in the pre buffer, z of silence and y in the post buffer, of which d are
\* due: while a call takes Out of the one side it puts at most Drv, which is not more
\* than half of that, to the other side.  So the weighted sum of what is left after the
\* call does not grow, unless less than a frame is left altogether.
Limit == 2 * Drv + Standing + Longest - Out
Sized(x, z, y, d) ==
    /\ x <= BufSize /\ y <= BufSize /\ d <= x + z + y
    /\ z # 0 => x + z + y - d < Out \/ 2 * y + x + z - d <= Limit
    /\ z = 0 /\ y # 0 => x + z + y - d < Out \/ 4 * x + 2 * y - 2 * d <= Limit
    /\ z = 0 /\ y = 0 => x - d <= Standing

SizeInv == Sized(Len(pre), zero, Len(post), Due)

\* What a call that now holds x, z and y has to take.
DueOf(x, z, y) == IF x + z + y >= Out THEN Out ELSE 0

LEMMA SizeFacts ==
    /\ Drv \in Nat \ {0} /\ Out \in Nat \ {0} /\ BufSize \in Nat
    /\ Longest \in Nat /\ Standing \in Nat /\ Out - 1 <= Standing /\ Longest <= 3 * Standing
    /\ Limit \in Int /\ Limit = 2 * Drv + Standing + Longest - Out
<1>1. Drv \in Nat \ {0} /\ Out \in Nat \ {0} /\ BufSize \in Nat /\ MaxGap \in Nat
    BY SizesAssumption, BoundsAssumption
<1>2. Longest \in Nat
    BY <1>1 DEF Longest, Silence
<1> HIDE DEF Longest
<1>3. Standing \in Nat /\ Out - 1 <= Standing /\ Longest <= 3 * Standing
    <2>1. CASE Longest <= 3 * (Out - 1)
        BY <1>1, <1>2, <2>1 DEF Standing
    <2>2. CASE ~(Longest <= 3 * (Out - 1))
        <3>1. Standing = (Longest + 2) \div 3
            BY <2>2 DEF Standing
        <3>2. Standing \in Int /\ 3 * Standing <= Longest + 2 /\ Longest + 2 <= 3 * Standing + 2
            BY <1>2, <3>1
        <3> QED BY <1>1, <1>2, <2>2, <3>2
    <2> QED BY <2>1, <2>2
<1> HIDE DEF Standing
<1> QED BY <1>1, <1>2, <1>3 DEF Limit

\* The numbers.
LEMMA RoomFacts ==
    ASSUME RoomEnough
    PROVE  /\ Drv \in Nat \ {0} /\ Out \in Nat \ {0} /\ BufSize \in Nat /\ Longest \in Nat
           /\ Standing \in Nat /\ Out - 1 <= Standing /\ Limit \in Int /\ Limit <= 4 * Standing
           /\ Limit = 2 * Drv + Standing + Longest - Out
           /\ 2 * Drv <= Out /\ Drv + Standing <= BufSize /\ Limit + Out - 1 <= 2 * BufSize
    BY SizeFacts DEF RoomEnough

\* A block goes into the pre buffer.
LEMMA PutPreSized ==
    ASSUME RoomEnough, NEW x \in Nat, NEW y \in Nat, NEW r \in 1 .. Drv, Sized(x, 0, y, 0)
    PROVE  Sized(x + r, 0, y, DueOf(x + r, 0, y))
<1>1. x <= Standing
    BY RoomFacts DEF Sized
<1>2. CASE x + r + 0 + y >= Out
    <2>1. DueOf(x + r, 0, y) = Out
        BY <1>2 DEF DueOf
    <2> QED BY <1>1, <1>2, <2>1, RoomFacts DEF Sized
<1>3. CASE ~(x + r + 0 + y >= Out)
    <2>1. DueOf(x + r, 0, y) = 0
        BY <1>3 DEF DueOf
    <2> QED BY <1>1, <1>3, <2>1, RoomFacts DEF Sized
<1> QED BY <1>2, <1>3

\* A block goes into the post buffer, behind silence z.
LEMMA PutPostSized ==
    ASSUME RoomEnough, NEW x \in Nat, NEW y \in Nat, NEW z \in Nat \ {0}, NEW r \in 1 .. Drv,
           Sized(x, z, y, 0)
    PROVE  Sized(x, z, y + r, DueOf(x, z, y + r))
<1>1. y + r <= BufSize
    BY RoomFacts DEF Sized
<1>2. CASE x + z + (y + r) >= Out
    <2>1. DueOf(x, z, y + r) = Out
        BY <1>2 DEF DueOf
    <2> QED BY <1>1, <1>2, <2>1, RoomFacts DEF Sized
<1>3. CASE ~(x + z + (y + r) >= Out)
    <2>1. DueOf(x, z, y + r) = 0
        BY <1>3 DEF DueOf
    <2> QED BY <1>1, <1>3, <2>1, RoomFacts DEF Sized
<1> QED BY <1>2, <1>3

\* A gap: silence z and a block behind it.
LEMMA GapSized ==
    ASSUME RoomEnough, NEW x \in Nat, NEW z \in 1 .. Longest, NEW r \in 1 .. Drv,
           Sized(x, 0, 0, 0)
    PROVE  Sized(x, z, r, DueOf(x, z, r))
<1>1. x <= BufSize /\ x <= Standing /\ r <= BufSize
    BY RoomFacts DEF Sized
<1>2. CASE x + z + r >= Out
    <2>1. DueOf(x, z, r) = Out
        BY <1>2 DEF DueOf
    <2> QED BY <1>1, <1>2, <2>1, RoomFacts DEF Sized
<1>3. CASE ~(x + z + r >= Out)
    <2>1. DueOf(x, z, r) = 0
        BY <1>3 DEF DueOf
    <2> QED BY <1>1, <1>3, <2>1, RoomFacts DEF Sized
<1> QED BY <1>2, <1>3

\* Nothing is put, but a frame may be taken.
LEMMA NonePutSized ==
    ASSUME RoomEnough, NEW x \in Nat, NEW z \in Nat, NEW y \in Nat, Sized(x, z, y, 0)
    PROVE  Sized(x, z, y, DueOf(x, z, y))
<1>1. CASE x + z + y >= Out
    <2>1. DueOf(x, z, y) = Out
        BY <1>1 DEF DueOf
    <2> QED BY <1>1, <2>1, RoomFacts DEF Sized
<1>2. CASE ~(x + z + y >= Out)
    BY <1>2 DEF DueOf
<1> QED BY <1>1, <1>2

\* A turn of the loop takes c of what comes first.
LEMMA TakeSized ==
    ASSUME RoomEnough, NEW x \in Nat, NEW z \in Nat, NEW y \in Nat, NEW d \in Nat, NEW c \in 0 .. d,
           Sized(x, z, y, d)
    PROVE  /\ z # 0 /\ c <= x => Sized(x - c, z, y, d - c)
           /\ z # 0 /\ x = 0 /\ y # 0 /\ c <= z => Sized(x, z - c, y, d - c)
           /\ z = 0 /\ c <= y => Sized(x, z, y - c, d - c)
           /\ z = 0 /\ y = 0 /\ c <= x => Sized(x - c, z, y, d - c)
<1>1. ASSUME z # 0, c <= x PROVE Sized(x - c, z, y, d - c)
    BY <1>1, RoomFacts DEF Sized
<1>2. ASSUME z # 0, x = 0, y # 0, c <= z PROVE Sized(x, z - c, y, d - c)
    BY <1>2, RoomFacts DEF Sized
<1>3. ASSUME z = 0, c <= y PROVE Sized(x, z, y - c, d - c)
    BY <1>3, RoomFacts DEF Sized
<1>4. ASSUME z = 0, y = 0, c <= x PROVE Sized(x - c, z, y, d - c)
    BY <1>4, RoomFacts DEF Sized
<1> QED BY <1>1, <1>2, <1>3, <1>4

\* The end of OSS_RecRead: a frame is due if there is enough for one.
LEMMA GetAudioDue ==
    ASSUME TypeOK', GetAudio
    PROVE  Due' = DueOf(Len(pre'), zero', Len(post'))
<1>1. /\ got' = 0 /\ Out \in Nat
      /\ pc' = IF Len(pre') + zero' + Len(post') >= Out THEN "get" ELSE "read"
    BY SizesAssumption DEF GetAudio, Total
<1> QED BY <1>1 DEF Due, DueOf

\* What a block adds.
LEMMA ConcatLen ==
    ASSUME NEW s \in Seq(Nat), NEW t \in Seq(Nat)
    PROVE  Len(s \o t) = Len(s) + Len(t)
    OBVIOUS

\* OSS_RecRead puts a block, behind silence after a gap.
LEMMA RecReadSize ==
    ASSUME RoomEnough, Inv, Inv', SizeInv, NEW r \in Reads, NEW f \in 0 .. MaxClock, RecRead(r, f)
    PROVE  SizeInv'
<1> DEFINE frames == Arrived(f)  x == Len(pre)  y == Len(post)
<1>0. TypeOK /\ TypeOK' /\ SilenceBeforeSound
    BY DEF Inv
<1>1. /\ pre \in Seq(Nat) /\ post \in Seq(Nat) /\ zero \in Nat /\ x \in Nat /\ y \in Nat
      /\ n \in Nat /\ prev \in Int /\ f \in Nat /\ r \in 1 .. Drv /\ r \in Nat
    BY <1>0, SizesAssumption, BoundsAssumption DEF TypeOK
<1>2. GetAudio /\ pc = "read" /\ f - prev <= MaxGap
    BY DEF RecRead
<1>3. Due' = DueOf(Len(pre'), zero', Len(post'))
    BY <1>0, <1>2, GetAudioDue
<1>4. Sized(x, zero, y, 0)
    BY <1>2 DEF SizeInv, Due
<1>5. Len(Block(r)) = r /\ Block(r) \in Seq(Nat)
    BY <1>1 DEF Block
<1>6. Len(post \o Block(r)) = y + r /\ Len(pre \o Block(r)) = x + r
    BY <1>1, <1>5, ConcatLen
<1> HIDE DEF x, y, frames
<1>7. SUFFICES Sized(Len(pre'), zero', Len(post'), DueOf(Len(pre'), zero', Len(post')))
    BY <1>3 DEF SizeInv
<1>8. CASE UNCHANGED <<pre, post, zero>>
    <2>1. Sized(x, zero, y, DueOf(x, zero, y))
        BY <1>1, <1>4, NonePutSized
    <2> QED BY <1>8, <2>1 DEF x, y
<1>9. CASE /\ ~SkipsSilence(frames)
           /\ zero' = IF frames - prev > 1 THEN Silence(frames - prev) ELSE zero
           /\ PutAudioToBuf(r)
    <2>1. CASE frames - prev > 1
        <3>1. post = <<>> /\ zero = 0 /\ y = 0
            BY <1>0, <1>9, <2>1 DEF SkipsSilence, SilenceBeforeSound, y
        <3>2. zero' \in 1 .. Longest
            <4> DEFINE gap == frames - prev
            <4>1. gap \in 1 .. MaxGap /\ zero' = (gap + 1) * Drv
                BY <1>1, <1>2, <1>9, <2>1, BoundsAssumption DEF Arrived, Silence, frames
            <4> HIDE DEF gap
            <4>2. /\ Drv \in Nat \ {0} /\ MaxGap \in Nat /\ Longest = (MaxGap + 1) * Drv
                BY SizesAssumption, BoundsAssumption DEF Longest, Silence
            <4>3. (gap + 1) * Drv <= (MaxGap + 1) * Drv /\ (gap + 1) * Drv >= 1
                BY <4>1, <4>2
            <4> QED BY <4>1, <4>2, <4>3
        <3>3. zero' # 0
            BY <3>2
        <3>4. pre' = pre /\ Len(post') = y + r
            BY <1>6, <1>9, <3>3 DEF PutAudioToBuf
        <3>5. Len(post') = r /\ Len(pre') = x
            BY <1>1, <3>1, <3>4 DEF x
        <3>6. Sized(x, zero', r, DueOf(x, zero', r))
            BY <1>1, <1>4, <3>1, <3>2, GapSized
        <3> QED BY <3>5, <3>6
    <2>2. CASE ~(frames - prev > 1) /\ zero # 0
        <3>1. zero' = zero /\ Len(pre') = x /\ Len(post') = y + r
            BY <1>6, <1>9, <2>2 DEF PutAudioToBuf, x
        <3>2. Sized(x, zero, y + r, DueOf(x, zero, y + r))
            BY <1>1, <1>4, <2>2, PutPostSized
        <3> QED BY <3>1, <3>2
    <2>3. CASE ~(frames - prev > 1) /\ zero = 0
        <3>1. zero' = 0 /\ Len(pre') = x + r /\ Len(post') = y
            BY <1>6, <1>9, <2>3 DEF PutAudioToBuf, y
        <3>2. Sized(x + r, 0, y, DueOf(x + r, 0, y))
            BY <1>1, <1>4, <2>3, PutPreSized
        <3> QED BY <3>1, <3>2
    <2> QED BY <2>1, <2>2, <2>3
<1> QED BY <1>8, <1>9 DEF RecRead, frames, bufs

\* A turn of GetAudioFromBuf takes what is due.
LEMMA GetTurnSize ==
    ASSUME RoomEnough, Inv, SizeInv, GetTurn
    PROVE  SizeInv'
<1> DEFINE x == Len(pre)  y == Len(post)  d == Due
<1>0. TypeOK /\ SilenceBeforeSound /\ Sized(x, zero, y, d)
    BY DEF Inv, SizeInv
<1>1. /\ pre \in Seq(Nat) /\ post \in Seq(Nat) /\ zero \in Nat /\ x \in Nat /\ y \in Nat
      /\ got \in 0 .. Out /\ Out \in Nat \ {0} /\ pc = "get"
    BY <1>0, SizesAssumption DEF TypeOK, GetTurn
<1>2. d = Out - got /\ d \in Nat
    BY <1>1 DEF Due
<1>3. ASSUME NEW a \in Nat, Copied(CopyLen(a))
      PROVE  CopyLen(a) \in 0 .. d /\ CopyLen(a) <= a /\ Due' = d - CopyLen(a)
    <2> DEFINE c == CopyLen(a)
    <2>1. c \in 0 .. d /\ c <= a
        BY <1>1, <1>2 DEF CopyLen
    <2>2. got' = got + c /\ pc' = IF got + c < Out THEN "get" ELSE "read"
        BY <1>3 DEF Copied
    <2> HIDE DEF c
    <2> QED BY <1>1, <1>2, <2>1, <2>2 DEF Due, c
<1>4. \A buf \in Seq(Nat) : \A c \in 0 .. Len(buf) : Len(Rest(buf, c)) = Len(buf) - c
    BY DEF Rest
<1>e. (pre = <<>> <=> x = 0) /\ (post = <<>> <=> y = 0)
    BY <1>1
<1> HIDE DEF x, y, d
<1>5. CASE Source = "pre" /\ TakeFrom(pre) /\ UNCHANGED <<post, zero>>
    <2> DEFINE c == CopyLen(x)
    <2>1. pre' = Rest(pre, c) /\ Copied(c)
        BY <1>5 DEF TakeFrom, x
    <2>2. c \in 0 .. d /\ c <= x /\ Due' = d - c
        BY <1>1, <1>3, <2>1
    <2> HIDE DEF c
    <2>3. Len(pre') = x - c /\ Len(post') = y /\ zero' = zero
        BY <1>1, <1>2, <1>4, <1>5, <2>1, <2>2 DEF x, y
    <2>4. zero # 0 \/ y = 0
        BY <1>5, <1>e DEF Source
    <2>5. Sized(x - c, zero, y, d - c)
        BY <1>0, <1>1, <1>2, <2>2, <2>4, TakeSized
    <2> QED BY <2>2, <2>3, <2>5 DEF SizeInv
<1>6. CASE Source = "post" /\ TakeFrom(post) /\ UNCHANGED <<pre, zero>>
    <2> DEFINE c == CopyLen(y)
    <2>1. post' = Rest(post, c) /\ Copied(c)
        BY <1>6 DEF TakeFrom, y
    <2>2. c \in 0 .. d /\ c <= y /\ Due' = d - c
        BY <1>1, <1>3, <2>1
    <2> HIDE DEF c
    <2>3. Len(pre') = x /\ Len(post') = y - c /\ zero' = zero
        BY <1>1, <1>2, <1>4, <1>6, <2>1, <2>2 DEF x, y
    <2>4. zero = 0
        BY <1>6 DEF Source
    <2>5. Sized(x, zero, y - c, d - c)
        BY <1>0, <1>1, <1>2, <2>2, <2>4, TakeSized
    <2> QED BY <2>2, <2>3, <2>5 DEF SizeInv
<1>7. CASE /\ Source = "zero"
           /\ LET c == CopyLen(zero) IN zero' = zero - c /\ Copied(c)
           /\ UNCHANGED <<pre, post, sent>>
    <2> DEFINE c == CopyLen(zero)
    <2>1. zero' = zero - c /\ Copied(c)
        BY <1>7
    <2>2. c \in 0 .. d /\ c <= zero /\ Due' = d - c
        BY <1>1, <1>3, <2>1
    <2> HIDE DEF c
    <2>3. Len(pre') = x /\ Len(post') = y
        BY <1>7 DEF x, y
    <2>4. zero # 0 /\ x = 0 /\ y # 0
        BY <1>0, <1>7, <1>e DEF Source, SilenceBeforeSound
    <2>5. Sized(x, zero - c, y, d - c)
        BY <1>0, <1>1, <1>2, <2>2, <2>4, TakeSized
    <2> QED BY <2>1, <2>2, <2>3, <2>5 DEF SizeInv
<1> QED BY <1>5, <1>6, <1>7 DEF GetTurn

LEMMA SizeInit == RoomEnough /\ Init => SizeInv
<1> SUFFICES ASSUME RoomEnough, Init PROVE SizeInv
    OBVIOUS
<1>1. Len(pre) = 0 /\ Len(post) = 0 /\ zero = 0 /\ Due = 0
    BY DEF Init, Due
<1>2. Sized(0, 0, 0, 0)
    BY RoomFacts DEF Sized
<1> QED BY <1>1, <1>2 DEF SizeInv

LEMMA SizeNext == RoomEnough /\ Inv /\ SizeInv /\ [Next]_vars => SizeInv'
<1> SUFFICES ASSUME RoomEnough, Inv, SizeInv, [Next]_vars PROVE SizeInv'
    OBVIOUS
<1>0. Inv'
    BY InvNext
<1>1. CASE RecReadFails
    <2>1. UNCHANGED <<pre, post, zero>> /\ GetAudio /\ pc = "read"
        BY <1>1 DEF RecReadFails, bufs
    <2>2. Due' = DueOf(Len(pre'), zero', Len(post'))
        BY <1>0, <2>1, GetAudioDue DEF Inv
    <2>3. /\ Len(pre) \in Nat /\ Len(post) \in Nat /\ zero \in Nat
          /\ Sized(Len(pre), zero, Len(post), 0)
        BY <2>1 DEF Inv, TypeOK, SizeInv, Due
    <2>4. Sized(Len(pre), zero, Len(post), DueOf(Len(pre), zero, Len(post)))
        BY <2>3, NonePutSized
    <2> QED BY <2>1, <2>2, <2>4 DEF SizeInv
<1>2. CASE UNCHANGED vars
    BY <1>2 DEF vars, SizeInv, Due
<1>3. CASE RecReadEarly
    BY <1>2, <1>3 DEF RecReadEarly
<1> QED BY <1>0, <1>1, <1>2, <1>3, RecReadSize, GetTurnSize DEF Next

-----------------------------------------------------------------------------
(* Theorems.                                                                *)

\* The invariant holds in every state of every behaviour.
THEOREM Invariance == Spec => []Inv
<1>1. Inv /\ [Next]_vars => Inv'
    BY InvNext
<1> QED BY <1>1, InvInit, PTL DEF Spec

\* GetAudioFromBuf hands out every sample that was put into the buffers once and in
\* order, for every size of block, frame and read and for every gap.
THEOREM SoundInOrder == Spec => []SamplesInOrder
<1>1. Inv => SamplesInOrder
    BY DEF Inv
<1> QED BY <1>1, Invariance, PTL

\* OSS_RecRead never writes over silence that is still due.
THEOREM SilenceKept == Spec => []SilenceBeforeSound
<1>1. Inv => SilenceBeforeSound
    BY DEF Inv
<1> QED BY <1>1, Invariance, PTL

\* PutAudioToBuf, which does not look at the size of the buffers, stays inside them
\* whatever the sizes are, if RoomEnough holds of them and of the longest gap.
THEOREM BuffersSuffice == Spec => [](RoomEnough => BuffersHold)
<1>1. Init => (RoomEnough => SizeInv)
    BY SizeInit
<1>2. Inv /\ (RoomEnough => SizeInv) /\ [Next]_vars => (RoomEnough => SizeInv)'
    <2>1. RoomEnough' = RoomEnough
        OBVIOUS
    <2> QED BY <2>1, SizeNext
<1>3. SizeInv => BuffersHold
    BY DEF SizeInv, Sized, BuffersHold
<1> QED BY <1>1, <1>2, <1>3, Invariance, PTL DEF Spec
=============================================================================
