------------------------------ MODULE OssRecord ------------------------------
(***************************************************************************)
(* The recorder behind the A-law encoder (OSS.c): OSS_RecRead reads one    *)
(* block of the device, accounts for lost blocks by the clock, and hands   *)
(* out a frame of OutFrameSize bytes as soon as it has that much.          *)
(*   PutAudioToBuf, GetAudioFromBuf, OSS_RecOpen, OSS_RecRead,             *)
(*   OSS_RecSetFrameSize                                                   *)
(*                                                                         *)
(* Sound that was lost is replaced by silence.  What comes before the      *)
(* silence waits in the pre buffer, what comes after it in the post        *)
(* buffer, and the silence is a number of bytes.  A sample is the number   *)
(* it has among the samples put into the buffers.  One thread calls this   *)
(* code (alaw_loop), so a call runs to its end; the turns of the copying   *)
(* loop are steps.  Times are numbers of blocks; the time stamp that the   *)
(* encoder does not use is left out.                                       *)
(***************************************************************************)
EXTENDS Integers, Sequences

CONSTANTS
    Drv,            \* u32DrvFrameSize: a block of the device
    Out,            \* u32OutFrameSize, as set by OSS_RecSetFrameSize
    BufSize,        \* u32PreAudTempBufSize = u32PostAudTempBufSize
    Reads,          \* what read may return
    MaxGap,         \* bound: the most blocks between two reads
    MaxClock,       \* bound: how long the recorder runs
    MaxSamples      \* bound: how much it records

ASSUME SizesAssumption ==
    /\ Drv \in Nat \ {0} /\ Out \in Nat \ {0} /\ BufSize \in Nat
    /\ Reads \subseteq 1 .. Drv
ASSUME BoundsAssumption == MaxGap \in Nat /\ MaxClock \in Nat /\ MaxSamples \in Nat

VARIABLES
    pc,         \* "read", or "get" in the loop of GetAudioFromBuf
    got,        \* u32GetedLen
    pre, post,  \* the two buffers
    zero,       \* u32ZeroAudLenInBuf
    prev,       \* i32PrevFrames
    clock,      \* the number of blocks the clock has seen
    n,          \* samples put so far
    sent        \* the last sample handed out

bufs == <<pre, post, zero>>
vars == <<pc, got, pre, post, zero, prev, clock, n, sent>>

\* OSS_RecOpen and OSS_RecSetFrameSize.
Init ==
    /\ pc = "read" /\ got = 0
    /\ pre = <<>> /\ post = <<>> /\ zero = 0
    /\ prev = -1 /\ clock = 0
    /\ n = 0 /\ sent = 0

\* GetAudioFromBuf, when there is enough for a frame.
Total == Len(pre) + zero + Len(post)
GetAudio == /\ got' = 0
            /\ pc' = IF (Total)' >= Out THEN "get" ELSE "read"

\* PutAudioToBuf: after silence that is still to be handed out.
Block(r) == [k \in 1 .. r |-> n + k]
PutAudioAlwaysPre(r) ==
    /\ pre' = pre \o Block(r) /\ post' = post
    /\ n' = n + r
PutAudioToBuf(r) ==
    /\ IF zero' # 0
       THEN post' = post \o Block(r) /\ pre' = pre
       ELSE pre' = pre \o Block(r) /\ post' = post
    /\ n' = n + r

\* The silence of a gap.
Silence(gap) == (gap + 1) * Drv

\* A block arrived and the clock stands at f.
Arrived(f) == IF f = prev THEN prev + 1 ELSE f
SkipsSilenceNever(frames) == FALSE
SkipsSilence(frames) == frames - prev > 1 /\ post # <<>>

\* OSS_RecRead, when the device has a block.  The first one sets the clock.
RecRead(r, f) ==
    LET frames == Arrived(f) IN
    /\ pc = "read" /\ n + r <= MaxSamples
    /\ f >= clock /\ f - prev <= MaxGap /\ (prev = -1 => f = 0)
    /\ clock' = f
    /\ IF frames < prev + 1                     \* discard audio data
       THEN UNCHANGED <<bufs, prev, n>>
       ELSE /\ prev' = frames
            /\ IF SkipsSilence(frames)          \* skip zero data, and the block
               THEN UNCHANGED <<bufs, n>>
               ELSE /\ zero' = IF frames - prev > 1 THEN Silence(frames - prev) ELSE zero
                    /\ PutAudioToBuf(r)
    /\ GetAudio
    /\ UNCHANGED sent

\* read fails, but there may be enough for a frame.
RecReadFails ==
    /\ pc = "read"
    /\ UNCHANGED <<bufs, prev, clock, n, sent>>
    /\ GetAudio

\* The device has less than a block, or read returns 0.
RecReadEarly == pc = "read" /\ UNCHANGED vars

\* A turn of the loop in GetAudioFromBuf takes from one of the three.
SourceInPlace == IF pre # <<>> THEN "pre" ELSE IF zero # 0 THEN "zero" ELSE "post"
Source ==
    IF pre # <<>>
    THEN IF zero = 0 /\ post # <<>> THEN "post" ELSE "pre"
    ELSE IF zero # 0 THEN "zero" ELSE "post"

CopyLen(avail) == IF Out - got > avail THEN avail ELSE Out - got
Rest(buf, c) == SubSeq(buf, c + 1, Len(buf))
Copied(c) == /\ got' = got + c
             /\ pc' = IF got + c < Out THEN "get" ELSE "read"

TakeFrom(buf) ==
    LET c == CopyLen(Len(buf)) IN
    /\ buf' = Rest(buf, c) /\ sent' = IF c = 0 THEN sent ELSE buf[c]
    /\ Copied(c)

GetTurn ==
    /\ pc = "get"
    /\ \/ Source = "pre" /\ TakeFrom(pre) /\ UNCHANGED <<post, zero>>
       \/ Source = "post" /\ TakeFrom(post) /\ UNCHANGED <<pre, zero>>
       \/ /\ Source = "zero"
          /\ LET c == CopyLen(zero) IN zero' = zero - c /\ Copied(c)
          /\ UNCHANGED <<pre, post, sent>>
    /\ UNCHANGED <<prev, clock, n>>

Next ==
    \/ \E r \in Reads, f \in 0 .. MaxClock : RecRead(r, f)
    \/ RecReadFails \/ RecReadEarly \/ GetTurn
Spec == Init /\ [][Next]_vars

-----------------------------------------------------------------------------
(* Properties.                                                              *)

TypeOK ==
    /\ pc \in {"read", "get"} /\ got \in 0 .. Out
    /\ pre \in Seq(Nat) /\ post \in Seq(Nat) /\ zero \in Nat
    /\ prev \in Int /\ clock \in Nat
    /\ n \in Nat /\ sent \in Nat

\* The samples from a + 1 to b.
Run(buf, a, b) == Len(buf) = b - a /\ \A k \in 1 .. Len(buf) : buf[k] = a + k

\* Sound is handed out in the order in which it was put into the buffers, all of it
\* and each sample once: what is left are the samples after the last one handed out,
\* in the pre and then the post buffer while silence is due, the other way round
\* afterwards.  GetAudioFromBuf chooses by the counters alone.
SamplesInOrder ==
    \E m \in sent .. n :
      IF zero # 0 THEN Run(pre, sent, m) /\ Run(post, m, n)
                  ELSE Run(post, sent, m) /\ Run(pre, m, n)

\* Silence is due only in front of samples that wait behind it.  So OSS_RecRead, which
\* sets u32ZeroAudLenInBuf without looking at what is left of it, never writes over
\* silence that has not been handed out.
SilenceBeforeSound == zero # 0 => post # <<>>

\* PutAudioToBuf does not look at the size of the buffers; they hold what it puts there
\* as long as no gap is longer than MaxGap blocks.
BuffersHold == Len(pre) <= BufSize /\ Len(post) <= BufSize
=============================================================================
