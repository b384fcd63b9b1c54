------------------------- MODULE FrameExchangeProofs -------------------------
(***************************************************************************)
(* The frame path is correct for every number of encoders, destinations,   *)
(* heap frames and exchanger slots.  Inv is the inductive invariant: it    *)
(* says which slots of the two kinds of ring are occupied, how many bytes  *)
(* the pipes carry, which thread holds a frame at which place of its code, *)
(* and what the reference counts are there.                                *)
(***************************************************************************)
EXTENDS FrameExchange, TLAPS, FiniteSetTheorems, FunctionTheorems

\* A thread has a frame in hand exactly in the code between getting it and
\* passing it on.
HandInv ==
    /\ \A e \in Encoders : hand[e] = NoFrame <=> pc[e] \in {"poll", "alloc"}
    /\ hand[Main] = NoFrame <=> pc[Main] \in {"select", "dispatch", "take"}
    /\ current \in Encoders <=> pc[Main] \in {"take", "fanout", "process", "drop"}

\* Slot i lies between a and b in the direction of "next", a included, b not.
Between(i, a, b) == IF a <= b THEN a <= i /\ i < b ELSE a <= i \/ i < b

\* The occupied slots of an exchanger are those from master_read up to slave_cur,
\* and slave_cur itself between the two halves of deliver_frame.
RingInv ==
    \A e \in Encoders :
      /\ exHeld[e] <=> pc[e] = "placed"
      /\ exHeld[e] => ring[e][slaveCur[e]] = hand[e] /\ ~ExchangerFull(e)
      /\ \A i \in Slots(e) :
           ring[e][i] # NoFrame <=> \/ Between(i, masterRead[e], slaveCur[e])
                                    \/ exHeld[e] /\ i = slaveCur[e]

\* One byte per queued frame; a reported exchanger still has its byte.
PipeInv ==
    /\ \A e \in Encoders :
         pipe[e] + (IF pc[Main] = "take" /\ current = e THEN 1 ELSE 0)
           = Queued(e) + (IF exHeld[e] THEN 1 ELSE 0)
    /\ \A e \in ready : pipe[e] > 0
    /\ pc[Main] = "take" => current \notin ready

\* The occupied slots of the heap are those from take up to put; when the two meet
\* the heap is full or empty.
HeapInv ==
    /\ ~heapHeld
    /\ \/ take # put /\ \A i \in Frames : heap[i] # NoFrame <=> Between(i, take, put)
       \/ take = put /\ \A i \in Frames : heap[i] # NoFrame
       \/ take = put /\ \A i \in Frames : heap[i] = NoFrame

\* No frame is in two places; only between the two halves of deliver_frame it is
\* in its slot and in the encoder's hand.
ShareInv ==
    /\ \A i, j \in Frames : heap[i] = heap[j] /\ heap[i] # NoFrame => i = j
    /\ \A e1, e2 \in Encoders : \A i \in Slots(e1), j \in Slots(e2) :
         ring[e1][i] = ring[e2][j] /\ ring[e1][i] # NoFrame => e1 = e2 /\ i = j
    /\ \A t1, t2 \in Threads : hand[t1] = hand[t2] /\ hand[t1] # NoFrame => t1 = t2
    /\ \A i \in Frames, e \in Encoders : \A j \in Slots(e) :
         heap[i] # NoFrame => heap[i] # ring[e][j]
    /\ \A i \in Frames, t \in Threads : heap[i] # NoFrame => heap[i] # hand[t]
    /\ \A t \in Threads, e \in Encoders : \A j \in Slots(e) :
         hand[t] = ring[e][j] /\ hand[t] # NoFrame => t = e /\ exHeld[e] /\ j = slaveCur[e]

\* ref_count is the number of references the frame's place stands for.
RefInv ==
    /\ \A i \in Frames : heap[i] # NoFrame => ref[heap[i]] = 0
    /\ \A e \in Encoders : \A i \in Slots(e) : ring[e][i] # NoFrame => ref[ring[e][i]] = 1
    /\ \A t \in Threads : hand[t] # NoFrame =>
         ref[hand[t]] = IF pc[t] = "put" THEN 0
                        ELSE IF t = Main /\ pc[t] \in {"process", "drop"} THEN 2 ELSE 1

\* Every frame is somewhere.
LeakInv ==
    \A f \in Frames : InHeap(f) \/ InRing(f) \/ \E t \in Threads : hand[t] = f

Inv == TypeOK /\ HandInv /\ RingInv /\ PipeInv /\ HeapInv /\ ShareInv /\ RefInv /\ LeakInv

-----------------------------------------------------------------------------
(* Circular lists.                                                          *)

\* NULL is no frame.
LEMMA NoFrameNotFrame == NoFrame \notin Frames
BY NFramesAssumption DEF NoFrame, Frames

\* The successor of a slot is a slot of the same list.
LEMMA SuccType ==
    ASSUME NEW n \in Nat \ {0}, NEW i \in 0 .. n - 1
    PROVE  Succ(i, n) \in 0 .. n - 1
BY DEF Succ

\* Moving the end of a stretch of slots on adds the slot it was at.
LEMMA BetweenPush ==
    ASSUME NEW n \in Nat \ {0}, NEW a \in 0 .. n - 1, NEW b \in 0 .. n - 1,
           NEW i \in 0 .. n - 1, Succ(b, n) # a
    PROVE  Between(i, a, Succ(b, n)) <=> Between(i, a, b) \/ i = b
BY DEF Succ, Between

\* Moving the start of a stretch of slots on removes the slot it was at.
LEMMA BetweenPop ==
    ASSUME NEW n \in Nat \ {0}, NEW a \in 0 .. n - 1, NEW b \in 0 .. n - 1,
           NEW i \in 0 .. n - 1, a # b
    PROVE  Between(i, Succ(a, n), b) <=> Between(i, a, b) /\ i # a
BY DEF Succ, Between

\* The stretch from a to b is as long as the distance, which is less than n.
LEMMA DistanceFacts ==
    ASSUME NEW n \in Nat \ {0}, NEW a \in 0 .. n - 1, NEW b \in 0 .. n - 1
    PROVE  /\ Distance(a, b, n) \in 0 .. n - 1
           /\ Distance(a, b, n) = 0 <=> a = b
           /\ Succ(b, n) # a => Distance(a, Succ(b, n), n) = Distance(a, b, n) + 1
           /\ a # b => Distance(Succ(a, n), b, n) = Distance(a, b, n) - 1
           /\ Between(a, a, b) <=> a # b
           /\ ~ Between(b, a, b)
BY DEF Succ, Distance, Between

\* The stretch from the slot after a back to a has every slot but a; the stretch
\* from a to a has none.
LEMMA BetweenAround ==
    ASSUME NEW n \in Nat \ {0}, NEW a \in 0 .. n - 1, NEW i \in 0 .. n - 1
    PROVE  /\ Succ(a, n) # a => (Between(i, Succ(a, n), a) <=> i # a)
           /\ Succ(a, n) # a => (Between(i, a, Succ(a, n)) <=> i = a)
           /\ Succ(a, n) = a => i = a
           /\ ~ Between(i, a, a)
BY DEF Succ, Between

\* A stretch that ends just before its start lacks only its end.
LEMMA BetweenFull ==
    ASSUME NEW n \in Nat \ {0}, NEW a \in 0 .. n - 1, NEW b \in 0 .. n - 1,
           NEW i \in 0 .. n - 1, Succ(b, n) = a, a # b
    PROVE  Between(i, a, b) <=> i # b
BY DEF Succ, Between

\* The number of queued frames is less than the number of slots.
LEMMA QueuedType ==
    ASSUME TypeOK, NEW e \in Encoders
    PROVE  Queued(e) \in 0 .. ExSlots[e] - 1 /\ ExSlots[e] \in Nat \ {0}
BY ExSlotsAssumption, DistanceFacts DEF TypeOK, Queued, Slots

\* set_waiting leaves flags and sets of destinations.
LEMMA SetWaitingType ==
    ASSUME TypeOK, NEW ds, NEW on \in BOOLEAN, SetWaiting(ds, on)
    PROVE  /\ waiting' \in [Encoders -> SUBSET Dests]
           /\ running' \in [Encoders -> BOOLEAN]
BY DEF TypeOK, SetWaiting, RunningAfter

-----------------------------------------------------------------------------
(* The heap.                                                                *)

\* A full heap holds every frame: as many slots as frames, no frame twice.
LEMMA FullHeapHasAll ==
    ASSUME TypeOK, ShareInv, \A i \in Frames : heap[i] # NoFrame,
           NEW f \in Frames
    PROVE  \E i \in Frames : heap[i] = f
<1>1. heap \in Injection(Frames, Frames)
    BY DEF TypeOK, ShareInv, FrameOrNone, Injection, IsInjective
<1>2. IsFiniteSet(Frames)
    BY FS_Interval, NFramesAssumption DEF Frames
<1>3. heap \in Surjection(Frames, Frames)
    BY <1>1, <1>2, FS_Injection
<1> QED BY <1>3 DEF Surjection

\* While a thread holds a frame, the put slot is empty.
LEMMA PutSlotEmpty ==
    ASSUME Inv, NEW t \in Threads, hand[t] # NoFrame
    PROVE  heap[put] = NoFrame
<1>1. SUFFICES ASSUME heap[put] # NoFrame PROVE FALSE
    OBVIOUS
<1>2. ~ Between(put, take, put)
    BY NFramesAssumption, DistanceFacts DEF Inv, TypeOK, Frames
<1>3. \A i \in Frames : heap[i] # NoFrame
    BY <1>1, <1>2 DEF Inv, TypeOK, HeapInv
<1>4. PICK i \in Frames : heap[i] = hand[t]
    BY <1>3, FullHeapHasAll DEF Inv, TypeOK, FrameOrNone
<1> QED BY <1>3, <1>4 DEF Inv, ShareInv

-----------------------------------------------------------------------------
(* One lemma per action.                                                    *)

\* EncoderPoll keeps the invariant.
LEMMA EncoderPollStep ==
    ASSUME Inv, NEW e \in Encoders, EncoderPoll(e)
    PROVE  Inv'
<1>1. TypeOK'
    BY EncodersAssumption
       DEF Inv, TypeOK, EncoderPoll, Goto, EncoderPCs, MainPCs, Threads, heapVars, ringVars, loopVars, streamVars
<1>2. HandInv'
    BY EncodersAssumption
       DEF Inv, TypeOK, HandInv, EncoderPoll, Goto, EncoderPCs, MainPCs, Threads, heapVars, ringVars, loopVars, streamVars
<1>3. RingInv'
    BY EncodersAssumption
       DEF Inv, TypeOK, RingInv, ExchangerFull, Slots, EncoderPoll, Goto, EncoderPCs, MainPCs, Threads, heapVars, ringVars, loopVars, streamVars
<1>4. PipeInv'
    BY EncodersAssumption
       DEF Inv, TypeOK, PipeInv, Queued, EncoderPoll, Goto, EncoderPCs, MainPCs, Threads, heapVars, ringVars, loopVars, streamVars
<1>5. HeapInv'
    BY EncodersAssumption
       DEF Inv, HeapInv, EncoderPoll, Goto, EncoderPCs, MainPCs, Threads, heapVars, ringVars, loopVars, streamVars
<1>6. ShareInv'
    BY EncodersAssumption
       DEF Inv, ShareInv, EncoderPoll, Goto, EncoderPCs, MainPCs, Threads, heapVars, ringVars, loopVars, streamVars
<1>7. RefInv'
    BY EncodersAssumption
       DEF Inv, TypeOK, RefInv, EncoderPoll, Goto, EncoderPCs, MainPCs, Threads, heapVars, ringVars, loopVars, streamVars
<1>8. LeakInv'
    BY EncodersAssumption
       DEF Inv, LeakInv, InHeap, InRing, EncoderPoll, Goto, EncoderPCs, MainPCs, Threads, heapVars, ringVars, loopVars, streamVars
<1> QED BY <1>1, <1>2, <1>3, <1>4, <1>5, <1>6, <1>7, <1>8 DEF Inv

\* EncodeFails keeps the invariant.
LEMMA EncodeFailsStep ==
    ASSUME Inv, NEW e \in Encoders, EncodeFails(e)
    PROVE  Inv'
<1>1. TypeOK'
    BY EncodersAssumption
       DEF Inv, TypeOK, EncodeFails, Goto, EncoderPCs, MainPCs, Threads, heapVars, ringVars, loopVars, streamVars
<1>2. HandInv'
    BY EncodersAssumption
       DEF Inv, TypeOK, HandInv, EncodeFails, Goto, EncoderPCs, MainPCs, Threads, heapVars, ringVars, loopVars, streamVars
<1>3. RingInv'
    BY EncodersAssumption
       DEF Inv, TypeOK, RingInv, ExchangerFull, Slots, EncodeFails, Goto, EncoderPCs, MainPCs, Threads, heapVars, ringVars, loopVars, streamVars
<1>4. PipeInv'
    BY EncodersAssumption
       DEF Inv, TypeOK, PipeInv, Queued, EncodeFails, Goto, EncoderPCs, MainPCs, Threads, heapVars, ringVars, loopVars, streamVars
<1>5. HeapInv'
    BY EncodersAssumption
       DEF Inv, HeapInv, EncodeFails, Goto, EncoderPCs, MainPCs, Threads, heapVars, ringVars, loopVars, streamVars
<1>6. ShareInv'
    BY EncodersAssumption
       DEF Inv, ShareInv, EncodeFails, Goto, EncoderPCs, MainPCs, Threads, heapVars, ringVars, loopVars, streamVars
<1>7. RefInv'
    BY EncodersAssumption
       DEF Inv, TypeOK, RefInv, EncodeFails, Goto, EncoderPCs, MainPCs, Threads, heapVars, ringVars, loopVars, streamVars
<1>8. LeakInv'
    BY EncodersAssumption
       DEF Inv, LeakInv, InHeap, InRing, EncodeFails, Goto, EncoderPCs, MainPCs, Threads, heapVars, ringVars, loopVars, streamVars
<1> QED BY <1>1, <1>2, <1>3, <1>4, <1>5, <1>6, <1>7, <1>8 DEF Inv

\* NewFrame keeps the invariant.
LEMMA NewFrameStep ==
    ASSUME Inv, NEW e \in Encoders, NewFrame(e)
    PROVE  Inv'
<1> DEFINE f == heap[take]
<1>a. CASE f = NoFrame
    BY <1>a, EncodeFailsStep DEF NewFrame, EncodeFails, heapVars
<1> SUFFICES ASSUME f # NoFrame PROVE Inv'
    BY <1>a
<1>b. /\ f \in Frames /\ take \in Frames /\ ref[f] = 0 /\ pc[e] = "alloc" /\ hand[e] = NoFrame
      /\ e \in Threads /\ e # Main
    BY EncodersAssumption DEF Inv, TypeOK, HandInv, RefInv, NewFrame, FrameOrNone, Threads
<1>c. /\ hand' = [hand EXCEPT ![e] = f] /\ ref' = [ref EXCEPT ![f] = 1]
      /\ heap' = [heap EXCEPT ![take] = NoFrame] /\ take' = Succ(take, NFrames)
      /\ pc' = [pc EXCEPT ![e] = "deliver"]
      /\ UNCHANGED <<put, heapHeld, ringVars, pipe, loopVars, streamVars>>
    BY DEF NewFrame, EmptyTakeSlot, AdvanceTake, Goto
<1>d. take' \in Frames
    BY <1>b, <1>c, NFramesAssumption, SuccType DEF Frames
<1> HIDE DEF f
<1>1. TypeOK'
    BY EncodersAssumption, NoFrameNotFrame, <1>b, <1>c, <1>d
       DEF Inv, TypeOK, FrameOrNone, EncoderPCs, MainPCs, Threads, heapVars, ringVars, loopVars, streamVars
<1>2. HandInv'
    BY EncodersAssumption, NoFrameNotFrame, <1>b, <1>c, <1>d
       DEF Inv, TypeOK, HandInv, Threads, heapVars, ringVars, loopVars, streamVars
<1>3. RingInv'
    BY EncodersAssumption, NoFrameNotFrame, <1>b, <1>c, <1>d
       DEF Inv, TypeOK, RingInv, ExchangerFull, Slots, Threads, heapVars, ringVars, loopVars, streamVars
<1>4. PipeInv'
    BY EncodersAssumption, NoFrameNotFrame, <1>b, <1>c, <1>d
       DEF Inv, TypeOK, PipeInv, Queued, Threads, heapVars, ringVars, loopVars, streamVars
<1>5. HeapInv'
    <2>1. ~heapHeld'
        BY <1>c DEF Inv, HeapInv
    <2>2. /\ take \in 0 .. NFrames - 1 /\ put \in 0 .. NFrames - 1 /\ NFrames \in Nat \ {0}
          /\ Frames = 0 .. NFrames - 1
        BY NFramesAssumption DEF Inv, TypeOK, Frames
    <2>3. \A i \in Frames : (heap'[i] # NoFrame <=> heap[i] # NoFrame /\ i # take)
        BY <1>b, <1>c DEF Inv, TypeOK
    <2>4. CASE take # put /\ \A i \in Frames : heap[i] # NoFrame <=> Between(i, take, put)
        <3>1. \A i \in Frames : heap'[i] # NoFrame <=> Between(i, take', put)
            BY <1>c, <2>2, <2>3, <2>4, BetweenPop
        <3>2. CASE take' = put
            <4>1. \A i \in Frames : heap'[i] = NoFrame
                BY <2>2, <3>1, <3>2, BetweenAround
            <4> QED BY <1>c, <2>1, <3>2, <4>1 DEF HeapInv
        <3>3. CASE take' # put
            BY <1>c, <2>1, <3>1, <3>3 DEF HeapInv
        <3> QED BY <3>2, <3>3
    <2>5. CASE take = put /\ \A i \in Frames : heap[i] # NoFrame
        <3>1. CASE take' = put
            <4>1. \A i \in Frames : heap'[i] = NoFrame
                BY <1>c, <2>2, <2>3, <2>5, <3>1, BetweenAround
            <4> QED BY <1>c, <2>1, <3>1, <4>1 DEF HeapInv
        <3>2. CASE take' # put
            BY <1>c, <2>1, <2>2, <2>3, <2>5, <3>2, BetweenAround DEF HeapInv
        <3> QED BY <3>1, <3>2
    <2>6. CASE take = put /\ \A i \in Frames : heap[i] = NoFrame
        BY <1>b, <2>6 DEF f
    <2> QED BY <2>4, <2>5, <2>6 DEF Inv, HeapInv
<1>6. ShareInv'
    <2>1. \A i, j \in Frames : heap'[i] = heap'[j] /\ heap'[i] # NoFrame => i = j
        BY <1>b, <1>c DEF Inv, TypeOK, ShareInv, heapVars, ringVars, f
    <2>2. \A e1, e2 \in Encoders : \A i \in Slots(e1), j \in Slots(e2) :
            ring'[e1][i] = ring'[e2][j] /\ ring'[e1][i] # NoFrame => e1 = e2 /\ i = j
        BY <1>b, <1>c DEF Inv, TypeOK, ShareInv, heapVars, ringVars, f
    <2>3. \A t1, t2 \in Threads : hand'[t1] = hand'[t2] /\ hand'[t1] # NoFrame => t1 = t2
        BY <1>b, <1>c DEF Inv, TypeOK, ShareInv, heapVars, ringVars, f
    <2>4. \A i \in Frames, e1 \in Encoders : \A j \in Slots(e1) :
            heap'[i] # NoFrame => heap'[i] # ring'[e1][j]
        BY <1>b, <1>c DEF Inv, TypeOK, ShareInv, heapVars, ringVars, f
    <2>5. \A i \in Frames, t1 \in Threads : heap'[i] # NoFrame => heap'[i] # hand'[t1]
        BY <1>b, <1>c DEF Inv, TypeOK, ShareInv, heapVars, ringVars, f
    <2>6. \A t1 \in Threads, e1 \in Encoders : \A j \in Slots(e1) :
            hand'[t1] = ring'[e1][j] /\ hand'[t1] # NoFrame
              => t1 = e1 /\ exHeld'[e1] /\ j = slaveCur'[e1]
        BY <1>b, <1>c DEF Inv, TypeOK, ShareInv, heapVars, ringVars, f
    <2> QED BY <2>1, <2>2, <2>3, <2>4, <2>5, <2>6 DEF ShareInv, Slots
<1>7. RefInv'
    <2>1. \A i \in Frames : heap'[i] # NoFrame => ref'[heap'[i]] = 0
        BY <1>b, <1>c DEF Inv, TypeOK, HandInv, FrameOrNone, ShareInv, RefInv, heapVars, ringVars, f
    <2>2. \A e1 \in Encoders : \A i \in Slots(e1) : ring'[e1][i] # NoFrame => ref'[ring'[e1][i]] = 1
        BY <1>b, <1>c DEF Inv, TypeOK, HandInv, FrameOrNone, ShareInv, RefInv, heapVars, ringVars, f
    <2>3. \A t1 \in Threads : hand'[t1] # NoFrame =>
            ref'[hand'[t1]] = IF pc'[t1] = "put" THEN 0
                            ELSE IF t1 = Main /\ pc'[t1] \in {"process", "drop"} THEN 2 ELSE 1
        BY <1>b, <1>c DEF Inv, TypeOK, HandInv, FrameOrNone, ShareInv, RefInv, heapVars, ringVars, f
    <2> QED BY <2>1, <2>2, <2>3 DEF RefInv, Slots
<1>8. LeakInv'
    <2> SUFFICES ASSUME NEW g \in Frames
                 PROVE  InHeap(g)' \/ InRing(g)' \/ \E t1 \in Threads : hand'[t1] = g
        BY DEF LeakInv
    <2>0. CASE g = f
        BY <2>0, <1>b, <1>c DEF Inv, TypeOK
    <2>1. CASE g # f /\ InHeap(g)
        BY <2>1, <1>b, <1>c DEF Inv, TypeOK, InHeap, f, heapVars
    <2>2. CASE g # f /\ InRing(g)
        BY <2>2, <1>b, <1>c DEF Inv, TypeOK, InRing, ringVars, Slots, f
    <2>3. CASE g # f /\ \E t1 \in Threads : hand[t1] = g
        BY <2>3, <1>b, <1>c, NoFrameNotFrame DEF Inv, TypeOK
    <2> QED BY <2>0, <2>1, <2>2, <2>3 DEF Inv, LeakInv
<1> QED BY <1>1, <1>2, <1>3, <1>4, <1>5, <1>6, <1>7, <1>8 DEF Inv

\* DeliverDrop keeps the invariant.
LEMMA DeliverDropStep ==
    ASSUME Inv, NEW e \in Encoders, DeliverDrop(e)
    PROVE  Inv'
<1>1. TypeOK'
    BY EncodersAssumption
       DEF Inv, TypeOK, DeliverDrop, Goto, EncoderPCs, MainPCs, Threads, heapVars, ringVars, loopVars, streamVars
<1>2. HandInv'
    BY EncodersAssumption
       DEF Inv, TypeOK, HandInv, DeliverDrop, Goto, EncoderPCs, MainPCs, Threads, heapVars, ringVars, loopVars, streamVars
<1>3. RingInv'
    BY EncodersAssumption
       DEF Inv, TypeOK, RingInv, ExchangerFull, Slots, DeliverDrop, Goto, EncoderPCs, MainPCs, Threads, heapVars, ringVars, loopVars, streamVars
<1>4. PipeInv'
    BY EncodersAssumption
       DEF Inv, TypeOK, PipeInv, Queued, DeliverDrop, Goto, EncoderPCs, MainPCs, Threads, heapVars, ringVars, loopVars, streamVars
<1>5. HeapInv'
    BY EncodersAssumption
       DEF Inv, HeapInv, DeliverDrop, Goto, EncoderPCs, MainPCs, Threads, heapVars, ringVars, loopVars, streamVars
<1>6. ShareInv'
    BY EncodersAssumption
       DEF Inv, ShareInv, DeliverDrop, Goto, EncoderPCs, MainPCs, Threads, heapVars, ringVars, loopVars, streamVars
<1>7. RefInv'
    BY EncodersAssumption
       DEF Inv, TypeOK, RefInv, DeliverDrop, Goto, EncoderPCs, MainPCs, Threads, heapVars, ringVars, loopVars, streamVars
<1>8. LeakInv'
    BY EncodersAssumption
       DEF Inv, LeakInv, InHeap, InRing, DeliverDrop, Goto, EncoderPCs, MainPCs, Threads, heapVars, ringVars, loopVars, streamVars
<1> QED BY <1>1, <1>2, <1>3, <1>4, <1>5, <1>6, <1>7, <1>8 DEF Inv

\* DeliverPlace keeps the invariant.
LEMMA DeliverPlaceStep ==
    ASSUME Inv, NEW e \in Encoders, DeliverPlace(e)
    PROVE  Inv'
<1>b. /\ hand[e] \in Frames /\ hand[e] # NoFrame /\ slaveCur[e] \in Slots(e) /\ masterRead[e] \in Slots(e)
      /\ pc[e] = "deliver" /\ ~exHeld[e] /\ ~ExchangerFull(e) /\ e \in Threads /\ e # Main
      /\ ring[e][slaveCur[e]] = NoFrame /\ ExSlots[e] \in Nat \ {0}
    <2>1. ~ Between(slaveCur[e], masterRead[e], slaveCur[e])
        BY ExSlotsAssumption, DistanceFacts DEF Inv, TypeOK, Slots
    <2>2. /\ pc[e] = "deliver" /\ ~exHeld[e] /\ ~ExchangerFull(e)
          /\ e \in Threads /\ e # Main /\ ExSlots[e] \in Nat \ {0}
        BY EncodersAssumption, ExSlotsAssumption DEF DeliverPlace, Threads
    <2>3. hand[e] \in Frames /\ hand[e] # NoFrame
        BY <2>2, NoFrameNotFrame DEF Inv, TypeOK, HandInv, FrameOrNone
    <2>4. slaveCur[e] \in Slots(e) /\ masterRead[e] \in Slots(e)
        BY DEF Inv, TypeOK
    <2>5. ring[e][slaveCur[e]] = NoFrame
        BY <2>1, <2>2, <2>4 DEF Inv, RingInv
    <2> QED BY <2>2, <2>3, <2>4, <2>5
<1>c. /\ exHeld' = [exHeld EXCEPT ![e] = TRUE]
      /\ ring' = [ring EXCEPT ![e][slaveCur[e]] = hand[e]]
      /\ pipe' = [pipe EXCEPT ![e] = @ + 1]
      /\ pc' = [pc EXCEPT ![e] = "placed"]
      /\ UNCHANGED <<heapVars, ref, slaveCur, masterRead, hand, loopVars, streamVars>>
    BY DEF DeliverPlace, Goto
<1>d. /\ DOMAIN ring' = Encoders
      /\ ring'[e] = [ring[e] EXCEPT ![slaveCur[e]] = hand[e]]
      /\ \A e2 \in Encoders : e2 # e => ring'[e2] = ring[e2]
    BY <1>c DEF Inv, TypeOK
<1>1. TypeOK'
    BY EncodersAssumption, NoFrameNotFrame, <1>b, <1>c, <1>d
       DEF Inv, TypeOK, FrameOrNone, EncoderPCs, MainPCs, Threads, heapVars, ringVars, loopVars, streamVars
<1>2. HandInv'
    BY EncodersAssumption, NoFrameNotFrame, <1>b, <1>c, <1>d
       DEF Inv, TypeOK, HandInv, Threads, heapVars, ringVars, loopVars, streamVars
<1>3. RingInv'
    <2> SUFFICES ASSUME NEW e1 \in Encoders
                 PROVE  /\ exHeld'[e1] <=> pc'[e1] = "placed"
                        /\ exHeld'[e1] => ring'[e1][slaveCur'[e1]] = hand'[e1]
                                          /\ ~ExchangerFull(e1)'
                        /\ \A i \in Slots(e1) :
                             ring'[e1][i] # NoFrame <=>
                               \/ Between(i, masterRead'[e1], slaveCur'[e1])
                               \/ exHeld'[e1] /\ i = slaveCur'[e1]
        BY DEF RingInv, Between, Slots
    <2>0. /\ slaveCur' = slaveCur /\ masterRead' = masterRead /\ hand' = hand
          /\ ExchangerFull(e1)' = ExchangerFull(e1)
        BY <1>c DEF ExchangerFull
    <2>1. CASE e1 = e
        <3>1. /\ exHeld'[e] /\ pc'[e] = "placed"
              /\ ring'[e][slaveCur[e]] = hand[e]
              /\ \A i \in Slots(e) : i # slaveCur[e] => ring'[e][i] = ring[e][i]
            BY <1>b, <1>c, <1>d DEF Inv, TypeOK
        <3>2. \A i \in Slots(e) :
                ring[e][i] # NoFrame <=> Between(i, masterRead[e], slaveCur[e])
            BY <1>b DEF Inv, RingInv
        <3> QED BY <2>0, <2>1, <3>1, <3>2, <1>b
    <2>2. CASE e1 # e
        <3>1. exHeld'[e1] = exHeld[e1] /\ pc'[e1] = pc[e1] /\ ring'[e1] = ring[e1]
            BY <2>2, <1>c, <1>d DEF Inv, TypeOK, Threads
        <3> QED BY <2>0, <3>1 DEF Inv, RingInv
    <2> QED BY <2>1, <2>2
<1>4. PipeInv'
    <2>1. \A e1 \in Encoders :
            pipe'[e1] + (IF pc'[Main] = "take" /\ current' = e1 THEN 1 ELSE 0)
              = Queued(e1)' + (IF exHeld'[e1] THEN 1 ELSE 0)
        <3> SUFFICES ASSUME NEW e1 \in Encoders
                     PROVE  pipe'[e1] + (IF pc'[Main] = "take" /\ current' = e1 THEN 1 ELSE 0)
                              = Queued(e1)' + (IF exHeld'[e1] THEN 1 ELSE 0)
            OBVIOUS
        <3>1. Queued(e1) \in Int /\ pipe[e1] \in Int
            BY QueuedType DEF Inv, TypeOK
        <3>2. Queued(e1)' = Queued(e1)
            BY <1>c DEF Inv, TypeOK, Queued, ExchangerFull, Slots, ringVars
        <3>3. pipe[e1] + (IF pc[Main] = "take" /\ current = e1 THEN 1 ELSE 0)
                = Queued(e1) + (IF exHeld[e1] THEN 1 ELSE 0)
            BY DEF Inv, PipeInv
        <3> QED BY <3>1, <3>2, <3>3, <1>b, <1>c DEF Inv, TypeOK, loopVars, ringVars
    <2>2. \A e1 \in ready' : pipe'[e1] > 0
        BY <1>b, <1>c DEF Inv, TypeOK, PipeInv, loopVars
    <2>3. pc'[Main] = "take" => current' \notin ready'
        BY <1>b, <1>c DEF Inv, TypeOK, PipeInv, loopVars
    <2> QED BY <2>1, <2>2, <2>3 DEF PipeInv, Queued
<1>5. HeapInv'
    BY EncodersAssumption, NoFrameNotFrame, <1>b, <1>c, <1>d
       DEF Inv, HeapInv, heapVars, ringVars, loopVars, streamVars
<1>6. ShareInv'
    BY EncodersAssumption, NoFrameNotFrame, <1>b, <1>c, <1>d
       DEF Inv, TypeOK, ShareInv, Threads, heapVars, ringVars, loopVars, streamVars
<1>7. RefInv'
    <2>1. ref[hand[e]] = 1
        BY <1>b DEF Inv, RefInv
    <2>2. \A i \in Frames : heap'[i] # NoFrame => ref'[heap'[i]] = 0
        BY <1>c DEF Inv, RefInv, heapVars
    <2>3. \A e1 \in Encoders : \A i \in Slots(e1) :
            ring'[e1][i] # NoFrame => ref'[ring'[e1][i]] = 1
        BY <2>1, <1>b, <1>c, <1>d DEF Inv, TypeOK, RefInv
    <2>4. \A t \in Threads : hand'[t] # NoFrame =>
            ref'[hand'[t]] = IF pc'[t] = "put" THEN 0
                             ELSE IF t = Main /\ pc'[t] \in {"process", "drop"} THEN 2 ELSE 1
        BY <2>1, <1>b, <1>c DEF Inv, TypeOK, RefInv
    <2> QED BY <2>2, <2>3, <2>4 DEF RefInv, Slots
<1>8. LeakInv'
    BY EncodersAssumption, NoFrameNotFrame, <1>b, <1>c, <1>d
       DEF Inv, TypeOK, LeakInv, InHeap, InRing, heapVars, ringVars, loopVars, streamVars
<1> QED BY <1>1, <1>2, <1>3, <1>4, <1>5, <1>6, <1>7, <1>8 DEF Inv

\* DeliverAdvance keeps the invariant.
LEMMA DeliverAdvanceStep ==
    ASSUME Inv, NEW e \in Encoders, DeliverAdvance(e)
    PROVE  Inv'
<1>b. /\ hand[e] \in Frames /\ hand[e] # NoFrame /\ slaveCur[e] \in Slots(e) /\ masterRead[e] \in Slots(e)
      /\ pc[e] = "placed" /\ exHeld[e] /\ ~ExchangerFull(e) /\ e \in Threads /\ e # Main
      /\ ring[e][slaveCur[e]] = hand[e] /\ ExSlots[e] \in Nat \ {0}
    <2>1. pc[e] = "placed" /\ e \in Threads /\ e # Main /\ ExSlots[e] \in Nat \ {0}
        BY EncodersAssumption, ExSlotsAssumption DEF DeliverAdvance, Threads
    <2>2. hand[e] \in Frames /\ hand[e] # NoFrame
        BY <2>1, NoFrameNotFrame DEF Inv, TypeOK, HandInv, FrameOrNone
    <2>3. slaveCur[e] \in Slots(e) /\ masterRead[e] \in Slots(e)
        BY DEF Inv, TypeOK
    <2>4. exHeld[e] /\ ring[e][slaveCur[e]] = hand[e] /\ ~ExchangerFull(e)
        BY <2>1 DEF Inv, RingInv
    <2> QED BY <2>1, <2>2, <2>3, <2>4
<1>c. /\ slaveCur' = [slaveCur EXCEPT ![e] = Succ(slaveCur[e], ExSlots[e])]
      /\ exHeld' = [exHeld EXCEPT ![e] = FALSE]
      /\ hand' = [hand EXCEPT ![e] = NoFrame]
      /\ pc' = [pc EXCEPT ![e] = "poll"]
      /\ UNCHANGED <<heapVars, ref, ring, masterRead, pipe, loopVars, streamVars>>
    BY DEF DeliverAdvance, Goto
<1>d. /\ slaveCur'[e] \in Slots(e)
      /\ DOMAIN slaveCur' = Encoders
      /\ \A e2 \in Encoders : e2 # e => slaveCur'[e2] = slaveCur[e2]
    BY <1>b, <1>c, SuccType DEF Slots, Inv, TypeOK
<1>1. TypeOK'
    BY EncodersAssumption, NoFrameNotFrame, <1>b, <1>c, <1>d
       DEF Inv, TypeOK, FrameOrNone, EncoderPCs, MainPCs, Threads, heapVars, ringVars, loopVars, streamVars
<1>2. HandInv'
    BY EncodersAssumption, NoFrameNotFrame, <1>b, <1>c, <1>d
       DEF Inv, TypeOK, HandInv, Threads, heapVars, ringVars, loopVars, streamVars
<1>3. RingInv'
    <2> SUFFICES ASSUME NEW e1 \in Encoders
                 PROVE  /\ exHeld'[e1] <=> pc'[e1] = "placed"
                        /\ exHeld'[e1] => ring'[e1][slaveCur'[e1]] = hand'[e1] /\ ~ExchangerFull(e1)'
                        /\ \A i \in Slots(e1) :
                             ring'[e1][i] # NoFrame <=>
                               \/ Between(i, masterRead'[e1], slaveCur'[e1])
                               \/ exHeld'[e1] /\ i = slaveCur'[e1]
        BY DEF RingInv, Slots
    <2>1. CASE e1 # e
        BY <2>1, <1>b, <1>c, <1>d, EncodersAssumption DEF Inv, TypeOK, RingInv, ExchangerFull, Threads, ringVars
    <2>2. CASE e1 = e
        <3>1. \A i \in Slots(e) : Between(i, masterRead[e], slaveCur'[e])
                               <=> Between(i, masterRead[e], slaveCur[e]) \/ i = slaveCur[e]
            BY <1>b, <1>c, <1>d, BetweenPush DEF ExchangerFull, Slots
        <3> QED BY <2>2, <3>1, <1>b, <1>c, <1>d, NoFrameNotFrame DEF Inv, TypeOK, RingInv, ExchangerFull, Threads, ringVars
    <2> QED BY <2>1, <2>2
<1>4. PipeInv'
    <2>1. \A e1 \in Encoders :
            pipe'[e1] + (IF pc'[Main] = "take" /\ current' = e1 THEN 1 ELSE 0)
              = Queued(e1)' + (IF exHeld'[e1] THEN 1 ELSE 0)
        <3> SUFFICES ASSUME NEW e1 \in Encoders
                     PROVE  pipe'[e1] + (IF pc'[Main] = "take" /\ current' = e1 THEN 1 ELSE 0)
                              = Queued(e1)' + (IF exHeld'[e1] THEN 1 ELSE 0)
            OBVIOUS
        <3>1. Queued(e1) \in Int /\ pipe[e1] \in Int
            BY QueuedType DEF Inv, TypeOK
        <3>2. Queued(e1)' = IF e1 = e THEN Queued(e1) + 1 ELSE Queued(e1)
            <4>1. CASE e1 # e
                BY <4>1, <1>b, <1>c, <1>d DEF Queued
            <4>2. CASE e1 = e
                <5>1. /\ slaveCur[e] \in 0 .. ExSlots[e] - 1 /\ masterRead[e] \in 0 .. ExSlots[e] - 1
                      /\ ExSlots[e] \in Nat \ {0}
                    BY <1>b, <1>c, <1>d DEF Slots
                <5>2. Succ(slaveCur[e], ExSlots[e]) # masterRead[e] /\ slaveCur'[e] = Succ(slaveCur[e], ExSlots[e])
                    BY <1>b, <1>c, <1>d DEF Inv, TypeOK, ExchangerFull
                <5> QED BY <4>2, <5>1, <5>2, <1>b, <1>c, <1>d, DistanceFacts DEF Queued
            <4> QED BY <4>1, <4>2
        <3>3. pipe[e1] + (IF pc[Main] = "take" /\ current = e1 THEN 1 ELSE 0)
                = Queued(e1) + (IF exHeld[e1] THEN 1 ELSE 0)
            BY DEF Inv, PipeInv
        <3> QED BY <3>1, <3>2, <3>3, <1>b, <1>c DEF Inv, TypeOK, loopVars, ringVars
    <2>2. \A e1 \in ready' : pipe'[e1] > 0
        BY <1>b, <1>c DEF Inv, TypeOK, PipeInv, loopVars
    <2>3. pc'[Main] = "take" => current' \notin ready'
        BY <1>b, <1>c DEF Inv, TypeOK, PipeInv, loopVars
    <2> QED BY <2>1, <2>2, <2>3 DEF PipeInv, Queued
<1>5. HeapInv'
    BY EncodersAssumption, NoFrameNotFrame, <1>b, <1>c, <1>d
       DEF Inv, HeapInv, heapVars, ringVars, loopVars, streamVars
<1>6. ShareInv'
    BY EncodersAssumption, NoFrameNotFrame, <1>b, <1>c, <1>d
       DEF Inv, TypeOK, ShareInv, Threads, heapVars, ringVars, loopVars, streamVars
<1>7. RefInv'
    BY EncodersAssumption, NoFrameNotFrame, <1>b, <1>c, <1>d
       DEF Inv, TypeOK, ShareInv, RefInv, Threads, heapVars, ringVars, loopVars, streamVars
<1>8. LeakInv'
    BY EncodersAssumption, NoFrameNotFrame, <1>b, <1>c, <1>d
       DEF Inv, TypeOK, LeakInv, InHeap, InRing, heapVars, ringVars, loopVars, streamVars
<1> QED BY <1>1, <1>2, <1>3, <1>4, <1>5, <1>6, <1>7, <1>8 DEF Inv

\* EncoderUnref keeps the invariant.
LEMMA EncoderUnrefStep ==
    ASSUME Inv, NEW e \in Encoders, EncoderUnref(e)
    PROVE  Inv'
<1>b. /\ hand[e] \in Frames /\ hand[e] # NoFrame /\ ref[hand[e]] = 1
      /\ pc[e] = "unref" /\ e \in Threads /\ e # Main
    BY EncodersAssumption DEF Inv, TypeOK, HandInv, RefInv, EncoderUnref, FrameOrNone, Threads
<1>c. /\ ref' = [ref EXCEPT ![hand[e]] = 0]
      /\ pc' = [pc EXCEPT ![e] = "put"]
      /\ UNCHANGED <<heapVars, ringVars, pipe, hand, loopVars, streamVars>>
    BY <1>b DEF EncoderUnref, UnrefDecrement, Goto, Inv, TypeOK
<1>1. TypeOK'
    BY EncodersAssumption, NoFrameNotFrame, <1>b, <1>c
       DEF Inv, TypeOK, FrameOrNone, EncoderPCs, MainPCs, Threads, heapVars, ringVars, loopVars, streamVars
<1>2. HandInv'
    BY EncodersAssumption, NoFrameNotFrame, <1>b, <1>c
       DEF Inv, TypeOK, HandInv, Threads, heapVars, ringVars, loopVars, streamVars
<1>3. RingInv'
    BY EncodersAssumption, NoFrameNotFrame, <1>b, <1>c
       DEF Inv, TypeOK, RingInv, ExchangerFull, Slots, Threads, heapVars, ringVars, loopVars, streamVars
<1>4. PipeInv'
    BY EncodersAssumption, NoFrameNotFrame, <1>b, <1>c
       DEF Inv, TypeOK, PipeInv, Queued, Threads, heapVars, ringVars, loopVars, streamVars
<1>5. HeapInv'
    BY EncodersAssumption, NoFrameNotFrame, <1>b, <1>c
       DEF Inv, HeapInv, heapVars, ringVars, loopVars, streamVars
<1>6. ShareInv'
    BY EncodersAssumption, NoFrameNotFrame, <1>b, <1>c
       DEF Inv, TypeOK, ShareInv, Threads, heapVars, ringVars, loopVars, streamVars
<1>7. RefInv'
    <2>1. \A i \in Frames : heap'[i] # NoFrame => ref'[heap'[i]] = 0
        BY <1>b, <1>c, EncodersAssumption DEF Inv, TypeOK, HandInv, FrameOrNone, ShareInv, RefInv, heapVars, ringVars, RingInv, Threads
    <2>2. \A e1 \in Encoders : \A i \in Slots(e1) : ring'[e1][i] # NoFrame => ref'[ring'[e1][i]] = 1
        BY <1>b, <1>c, EncodersAssumption DEF Inv, TypeOK, HandInv, FrameOrNone, ShareInv, RefInv, heapVars, ringVars, RingInv, Threads
    <2>3. \A t1 \in Threads : hand'[t1] # NoFrame =>
            ref'[hand'[t1]] = IF pc'[t1] = "put" THEN 0
                            ELSE IF t1 = Main /\ pc'[t1] \in {"process", "drop"} THEN 2 ELSE 1
        BY <1>b, <1>c, EncodersAssumption DEF Inv, TypeOK, HandInv, FrameOrNone, ShareInv, RefInv, heapVars, ringVars, RingInv, Threads
    <2> QED BY <2>1, <2>2, <2>3 DEF RefInv, Slots
<1>8. LeakInv'
    BY EncodersAssumption, NoFrameNotFrame, <1>b, <1>c
       DEF Inv, TypeOK, LeakInv, InHeap, InRing, heapVars, ringVars, loopVars, streamVars
<1> QED BY <1>1, <1>2, <1>3, <1>4, <1>5, <1>6, <1>7, <1>8 DEF Inv

\* UnrefPut keeps the invariant.
LEMMA UnrefPutStep ==
    ASSUME Inv, NEW t \in Threads, NEW back \in {"poll", "dispatch"},
           back = "poll" <=> t # Main, UnrefPut(t, back)
    PROVE  Inv'
<1>b. /\ hand[t] \in Frames /\ hand[t] # NoFrame /\ ref[hand[t]] = 0 /\ pc[t] = "put"
      /\ put \in Frames /\ heap[put] = NoFrame /\ hand[t] \in Frames
    BY PutSlotEmpty DEF Inv, TypeOK, HandInv, RefInv, UnrefPut, FrameOrNone, Threads
<1>c. /\ heap' = [heap EXCEPT ![put] = hand[t]] /\ put' = Succ(put, NFrames)
      /\ hand' = [hand EXCEPT ![t] = NoFrame]
      /\ pc' = [pc EXCEPT ![t] = back]
      /\ UNCHANGED <<take, heapHeld, ref, ringVars, pipe, loopVars, streamVars>>
    BY <1>b DEF UnrefPut, Goto
<1>d. put' \in Frames
    BY <1>b, <1>c, NFramesAssumption, SuccType DEF Frames
<1>1. TypeOK'
    BY EncodersAssumption, NoFrameNotFrame, <1>b, <1>c, <1>d
       DEF Inv, TypeOK, FrameOrNone, EncoderPCs, MainPCs, Threads, heapVars, ringVars, loopVars, streamVars
<1>2. HandInv'
    BY EncodersAssumption, NoFrameNotFrame, <1>b, <1>c, <1>d
       DEF Inv, TypeOK, HandInv, Threads, heapVars, ringVars, loopVars, streamVars
<1>3. RingInv'
    BY EncodersAssumption, NoFrameNotFrame, <1>b, <1>c, <1>d
       DEF Inv, TypeOK, RingInv, ExchangerFull, Slots, Threads, heapVars, ringVars, loopVars, streamVars
<1>4. PipeInv'
    BY EncodersAssumption, NoFrameNotFrame, <1>b, <1>c, <1>d
       DEF Inv, TypeOK, PipeInv, Queued, Threads, heapVars, ringVars, loopVars, streamVars
<1>5. HeapInv'
    <2>1. ~heapHeld'
        BY <1>c DEF Inv, HeapInv
    <2>2. /\ take \in 0 .. NFrames - 1 /\ put \in 0 .. NFrames - 1 /\ NFrames \in Nat \ {0}
          /\ Frames = 0 .. NFrames - 1
        BY NFramesAssumption DEF Inv, TypeOK, Frames
    <2>3. \A i \in Frames : (heap'[i] # NoFrame <=> heap[i] # NoFrame \/ i = put)
        BY <1>b, <1>c DEF Inv, TypeOK
    <2>4. CASE take # put /\ \A i \in Frames : heap[i] # NoFrame <=> Between(i, take, put)
        <3>1. CASE put' = take
            <4>1. \A i \in Frames : heap'[i] # NoFrame
                BY <1>c, <2>2, <2>3, <2>4, <3>1, BetweenFull
            <4> QED BY <1>c, <2>1, <3>1, <4>1 DEF HeapInv
        <3>2. CASE put' # take
            BY <1>c, <2>1, <2>2, <2>3, <2>4, <3>2, BetweenPush DEF HeapInv
        <3> QED BY <3>1, <3>2
    <2>5. CASE take = put /\ \A i \in Frames : heap[i] # NoFrame
        BY <1>b, <2>5
    <2>6. CASE take = put /\ \A i \in Frames : heap[i] = NoFrame
        <3>1. CASE put' = take
            <4>1. \A i \in Frames : heap'[i] # NoFrame
                BY <1>c, <2>2, <2>3, <2>6, <3>1, BetweenAround
            <4> QED BY <1>c, <2>1, <3>1, <4>1 DEF HeapInv
        <3>2. CASE put' # take
            BY <1>c, <2>1, <2>2, <2>3, <2>6, <3>2, BetweenAround DEF HeapInv
        <3> QED BY <3>1, <3>2
    <2> QED BY <2>4, <2>5, <2>6 DEF Inv, HeapInv
<1>6. ShareInv'
    <2>1. \A i, j \in Frames : heap'[i] = heap'[j] /\ heap'[i] # NoFrame => i = j
        BY <1>b, <1>c DEF Inv, TypeOK, ShareInv, heapVars, ringVars, RingInv
    <2>2. \A e1, e2 \in Encoders : \A i \in Slots(e1), j \in Slots(e2) :
            ring'[e1][i] = ring'[e2][j] /\ ring'[e1][i] # NoFrame => e1 = e2 /\ i = j
        BY <1>b, <1>c DEF Inv, TypeOK, ShareInv, heapVars, ringVars, RingInv
    <2>3. \A t1, t2 \in Threads : hand'[t1] = hand'[t2] /\ hand'[t1] # NoFrame => t1 = t2
        BY <1>b, <1>c DEF Inv, TypeOK, ShareInv, heapVars, ringVars, RingInv
    <2>4. \A i \in Frames, e1 \in Encoders : \A j \in Slots(e1) :
            heap'[i] # NoFrame => heap'[i] # ring'[e1][j]
        BY <1>b, <1>c DEF Inv, TypeOK, ShareInv, heapVars, ringVars, RingInv
    <2>5. \A i \in Frames, t1 \in Threads : heap'[i] # NoFrame => heap'[i] # hand'[t1]
        BY <1>b, <1>c DEF Inv, TypeOK, ShareInv, heapVars, ringVars, RingInv
    <2>6. \A t1 \in Threads, e1 \in Encoders : \A j \in Slots(e1) :
            hand'[t1] = ring'[e1][j] /\ hand'[t1] # NoFrame
              => t1 = e1 /\ exHeld'[e1] /\ j = slaveCur'[e1]
        BY <1>b, <1>c DEF Inv, TypeOK, ShareInv, heapVars, ringVars, RingInv
    <2> QED BY <2>1, <2>2, <2>3, <2>4, <2>5, <2>6 DEF ShareInv, Slots
<1>7. RefInv'
    BY EncodersAssumption, NoFrameNotFrame, <1>b, <1>c, <1>d
       DEF Inv, TypeOK, ShareInv, RefInv, Threads, heapVars, ringVars, loopVars, streamVars
<1>8. LeakInv'
    BY EncodersAssumption, NoFrameNotFrame, <1>b, <1>c, <1>d
       DEF Inv, TypeOK, LeakInv, InHeap, InRing, heapVars, ringVars, loopVars, streamVars
<1> QED BY <1>1, <1>2, <1>3, <1>4, <1>5, <1>6, <1>7, <1>8 DEF Inv

\* Select keeps the invariant.
LEMMA SelectStep ==
    ASSUME Inv, Select
    PROVE  Inv'
<1>1. TypeOK'
    BY EncodersAssumption
       DEF Inv, TypeOK, Select, Goto, EncoderPCs, MainPCs, Threads, heapVars, ringVars, loopVars, streamVars
<1>2. HandInv'
    BY EncodersAssumption
       DEF Inv, TypeOK, HandInv, Select, Goto, EncoderPCs, MainPCs, Threads, heapVars, ringVars, loopVars, streamVars
<1>3. RingInv'
    BY EncodersAssumption
       DEF Inv, TypeOK, RingInv, ExchangerFull, Slots, Select, Goto, EncoderPCs, MainPCs, Threads, heapVars, ringVars, loopVars, streamVars
<1>4. PipeInv'
    BY EncodersAssumption
       DEF Inv, TypeOK, PipeInv, Queued, Select, Goto, EncoderPCs, MainPCs, Threads, heapVars, ringVars, loopVars, streamVars
<1>5. HeapInv'
    BY EncodersAssumption
       DEF Inv, HeapInv, Select, Goto, EncoderPCs, MainPCs, Threads, heapVars, ringVars, loopVars, streamVars
<1>6. ShareInv'
    BY EncodersAssumption
       DEF Inv, ShareInv, Select, Goto, EncoderPCs, MainPCs, Threads, heapVars, ringVars, loopVars, streamVars
<1>7. RefInv'
    BY EncodersAssumption
       DEF Inv, TypeOK, RefInv, Select, Goto, EncoderPCs, MainPCs, Threads, heapVars, ringVars, loopVars, streamVars
<1>8. LeakInv'
    BY EncodersAssumption
       DEF Inv, LeakInv, InHeap, InRing, Select, Goto, EncoderPCs, MainPCs, Threads, heapVars, ringVars, loopVars, streamVars
<1> QED BY <1>1, <1>2, <1>3, <1>4, <1>5, <1>6, <1>7, <1>8 DEF Inv

\* ExchangerReadByte keeps the invariant.
LEMMA ExchangerReadByteStep ==
    ASSUME Inv, NEW e \in Encoders, ExchangerReadByte(e)
    PROVE  Inv'
<1>b. pipe[e] \in Nat /\ pipe[e] > 0 /\ pipe[e] - 1 \in Nat
    BY DEF Inv, TypeOK, PipeInv, ExchangerReadByte
<1>1. TypeOK'
    BY EncodersAssumption, <1>b
       DEF Inv, TypeOK, ExchangerReadByte, Goto, EncoderPCs, MainPCs, Threads, heapVars, ringVars, loopVars, streamVars
<1>2. HandInv'
    BY EncodersAssumption
       DEF Inv, TypeOK, HandInv, ExchangerReadByte, Goto, EncoderPCs, MainPCs, Threads, heapVars, ringVars, loopVars, streamVars
<1>3. RingInv'
    BY EncodersAssumption
       DEF Inv, TypeOK, RingInv, ExchangerFull, Slots, ExchangerReadByte, Goto, EncoderPCs, MainPCs, Threads, heapVars, ringVars, loopVars, streamVars
<1>4. PipeInv'
    BY EncodersAssumption
       DEF Inv, TypeOK, PipeInv, Queued, ExchangerReadByte, Goto, EncoderPCs, MainPCs, Threads, heapVars, ringVars, loopVars, streamVars
<1>5. HeapInv'
    BY EncodersAssumption
       DEF Inv, HeapInv, ExchangerReadByte, Goto, EncoderPCs, MainPCs, Threads, heapVars, ringVars, loopVars, streamVars
<1>6. ShareInv'
    BY EncodersAssumption
       DEF Inv, ShareInv, ExchangerReadByte, Goto, EncoderPCs, MainPCs, Threads, heapVars, ringVars, loopVars, streamVars
<1>7. RefInv'
    BY EncodersAssumption
       DEF Inv, TypeOK, RefInv, ExchangerReadByte, Goto, EncoderPCs, MainPCs, Threads, heapVars, ringVars, loopVars, streamVars
<1>8. LeakInv'
    BY EncodersAssumption
       DEF Inv, LeakInv, InHeap, InRing, ExchangerReadByte, Goto, EncoderPCs, MainPCs, Threads, heapVars, ringVars, loopVars, streamVars
<1> QED BY <1>1, <1>2, <1>3, <1>4, <1>5, <1>6, <1>7, <1>8 DEF Inv

\* EndOfPass keeps the invariant.
LEMMA EndOfPassStep ==
    ASSUME Inv, EndOfPass
    PROVE  Inv'
<1>1. TypeOK'
    BY EncodersAssumption
       DEF Inv, TypeOK, EndOfPass, Goto, EncoderPCs, MainPCs, Threads, heapVars, ringVars, loopVars, streamVars
<1>2. HandInv'
    BY EncodersAssumption
       DEF Inv, TypeOK, HandInv, EndOfPass, Goto, EncoderPCs, MainPCs, Threads, heapVars, ringVars, loopVars, streamVars
<1>3. RingInv'
    BY EncodersAssumption
       DEF Inv, TypeOK, RingInv, ExchangerFull, Slots, EndOfPass, Goto, EncoderPCs, MainPCs, Threads, heapVars, ringVars, loopVars, streamVars
<1>4. PipeInv'
    BY EncodersAssumption
       DEF Inv, TypeOK, PipeInv, Queued, EndOfPass, Goto, EncoderPCs, MainPCs, Threads, heapVars, ringVars, loopVars, streamVars
<1>5. HeapInv'
    BY EncodersAssumption
       DEF Inv, HeapInv, EndOfPass, Goto, EncoderPCs, MainPCs, Threads, heapVars, ringVars, loopVars, streamVars
<1>6. ShareInv'
    BY EncodersAssumption
       DEF Inv, ShareInv, EndOfPass, Goto, EncoderPCs, MainPCs, Threads, heapVars, ringVars, loopVars, streamVars
<1>7. RefInv'
    BY EncodersAssumption
       DEF Inv, TypeOK, RefInv, EndOfPass, Goto, EncoderPCs, MainPCs, Threads, heapVars, ringVars, loopVars, streamVars
<1>8. LeakInv'
    BY EncodersAssumption
       DEF Inv, LeakInv, InHeap, InRing, EndOfPass, Goto, EncoderPCs, MainPCs, Threads, heapVars, ringVars, loopVars, streamVars
<1> QED BY <1>1, <1>2, <1>3, <1>4, <1>5, <1>6, <1>7, <1>8 DEF Inv

\* ExchangerTake keeps the invariant.
LEMMA ExchangerTakeStep ==
    ASSUME Inv, NEW e \in Encoders, ExchangerTake(e)
    PROVE  Inv'
<1> DEFINE f == ring[e][masterRead[e]]
<1>a. /\ pc[Main] = "take" /\ current = e /\ ~exHeld[e] /\ e \in Threads /\ e # Main
      /\ slaveCur[e] \in Slots(e) /\ masterRead[e] \in Slots(e) /\ ExSlots[e] \in Nat \ {0}
      /\ Main \in Threads /\ hand[Main] = NoFrame /\ pipe[e] \in Nat
    BY EncodersAssumption, ExSlotsAssumption DEF Inv, TypeOK, HandInv, ExchangerTake, Threads
<1>m. masterRead[e] # slaveCur[e]
    <2>1. pipe[e] + (IF pc[Main] = "take" /\ current = e THEN 1 ELSE 0)
            = Queued(e) + (IF exHeld[e] THEN 1 ELSE 0)
        BY DEF Inv, PipeInv
    <2>2. Queued(e) \in Int
        BY QueuedType DEF Inv
    <2>3. pipe[e] + 1 = Queued(e)
        BY <1>a, <2>1, <2>2
    <2> QED BY <1>a, <2>3, DistanceFacts DEF Queued, Slots
<1>b. f \in Frames /\ f # NoFrame
    <2>1. Between(masterRead[e], masterRead[e], slaveCur[e])
        BY <1>a, <1>m, DistanceFacts DEF Slots
    <2> QED BY <1>a, <2>1 DEF Inv, TypeOK, RingInv, FrameOrNone
<1>c. /\ ring' = [ring EXCEPT ![e][masterRead[e]] = NoFrame]
      /\ masterRead' = [masterRead EXCEPT ![e] = Succ(masterRead[e], ExSlots[e])]
      /\ hand' = [hand EXCEPT ![Main] = f]
      /\ todo' = Dests
      /\ pc' = [pc EXCEPT ![Main] = "fanout"]
      /\ UNCHANGED <<heapVars, ref, slaveCur, exHeld, pipe, ready, current, streamVars>>
    BY <1>a, <1>b DEF ExchangerTake, Goto
<1>d. /\ DOMAIN ring' = Encoders /\ DOMAIN masterRead' = Encoders
      /\ ring'[e] = [ring[e] EXCEPT ![masterRead[e]] = NoFrame]
      /\ masterRead'[e] = Succ(masterRead[e], ExSlots[e]) /\ masterRead'[e] \in Slots(e)
      /\ \A e2 \in Encoders : e2 # e => ring'[e2] = ring[e2] /\ masterRead'[e2] = masterRead[e2]
    BY <1>a, <1>c, SuccType DEF Inv, TypeOK, Slots
<1> HIDE DEF f
<1>1. TypeOK'
    BY EncodersAssumption, NoFrameNotFrame, <1>b, <1>c, <1>d, <1>a, <1>m
       DEF Inv, TypeOK, FrameOrNone, EncoderPCs, MainPCs, Threads, heapVars, ringVars, loopVars, streamVars
<1>2. HandInv'
    BY EncodersAssumption, NoFrameNotFrame, <1>b, <1>c, <1>d, <1>a, <1>m
       DEF Inv, TypeOK, HandInv, Threads, heapVars, ringVars, loopVars, streamVars
<1>3. RingInv'
    <2> SUFFICES ASSUME NEW e1 \in Encoders
                 PROVE  /\ exHeld'[e1] <=> pc'[e1] = "placed"
                        /\ exHeld'[e1] => ring'[e1][slaveCur'[e1]] = hand'[e1] /\ ~ExchangerFull(e1)'
                        /\ \A i \in Slots(e1) :
                             ring'[e1][i] # NoFrame <=>
                               \/ Between(i, masterRead'[e1], slaveCur'[e1])
                               \/ exHeld'[e1] /\ i = slaveCur'[e1]
        BY DEF RingInv, Slots
    <2>1. CASE e1 # e
        BY <2>1, <1>a, <1>c, <1>d, <1>m, EncodersAssumption DEF Inv, TypeOK, RingInv, ExchangerFull, Threads, ringVars
    <2>2. CASE e1 = e
        <3>1. \A i \in Slots(e) : Between(i, masterRead'[e], slaveCur[e])
                               <=> Between(i, masterRead[e], slaveCur[e]) /\ i # masterRead[e]
            BY <1>a, <1>c, <1>d, <1>m, BetweenPop DEF ExchangerFull, Slots
        <3> QED BY <2>2, <3>1, <1>a, <1>c, <1>d, <1>m, NoFrameNotFrame DEF Inv, TypeOK, RingInv, ExchangerFull, Threads, ringVars
    <2> QED BY <2>1, <2>2
<1>4. PipeInv'
    <2>1. \A e1 \in Encoders :
            pipe'[e1] + (IF pc'[Main] = "take" /\ current' = e1 THEN 1 ELSE 0)
              = Queued(e1)' + (IF exHeld'[e1] THEN 1 ELSE 0)
        <3> SUFFICES ASSUME NEW e1 \in Encoders
                     PROVE  pipe'[e1] + (IF pc'[Main] = "take" /\ current' = e1 THEN 1 ELSE 0)
                              = Queued(e1)' + (IF exHeld'[e1] THEN 1 ELSE 0)
            OBVIOUS
        <3>1. Queued(e1) \in Int /\ pipe[e1] \in Int
            BY QueuedType DEF Inv, TypeOK
        <3>2. Queued(e1)' = IF e1 = e THEN Queued(e1) - 1 ELSE Queued(e1)
            <4>1. CASE e1 # e
                BY <4>1, <1>a, <1>c, <1>d, <1>m DEF Queued
            <4>2. CASE e1 = e
                <5>1. /\ slaveCur[e] \in 0 .. ExSlots[e] - 1 /\ masterRead[e] \in 0 .. ExSlots[e] - 1
                      /\ ExSlots[e] \in Nat \ {0}
                    BY <1>a, <1>c, <1>d, <1>m DEF Slots
                <5>2. masterRead[e] # slaveCur[e] /\ masterRead'[e] = Succ(masterRead[e], ExSlots[e])
                    BY <1>a, <1>c, <1>d, <1>m DEF Inv, TypeOK, ExchangerFull
                <5> QED BY <4>2, <5>1, <5>2, <1>a, <1>c, <1>d, <1>m, DistanceFacts DEF Queued
            <4> QED BY <4>1, <4>2
        <3>3. pipe[e1] + (IF pc[Main] = "take" /\ current = e1 THEN 1 ELSE 0)
                = Queued(e1) + (IF exHeld[e1] THEN 1 ELSE 0)
            BY DEF Inv, PipeInv
        <3> QED BY <3>1, <3>2, <3>3, <1>a, <1>c, <1>d DEF Inv, TypeOK, loopVars, ringVars
    <2>2. \A e1 \in ready' : pipe'[e1] > 0
        BY <1>a, <1>c DEF Inv, TypeOK, PipeInv, loopVars
    <2>3. pc'[Main] = "take" => current' \notin ready'
        BY <1>a, <1>c DEF Inv, TypeOK, PipeInv, loopVars
    <2> QED BY <2>1, <2>2, <2>3 DEF PipeInv, Queued
<1>5. HeapInv'
    BY EncodersAssumption, NoFrameNotFrame, <1>b, <1>c, <1>d, <1>a, <1>m
       DEF Inv, HeapInv, heapVars, ringVars, loopVars, streamVars
<1>6. ShareInv'
    <2>1. \A i, j \in Frames : heap'[i] = heap'[j] /\ heap'[i] # NoFrame => i = j
        BY <1>a, <1>b, <1>c, <1>d, NoFrameNotFrame DEF Inv, TypeOK, ShareInv, heapVars, ringVars, f
    <2>2. \A e1, e2 \in Encoders : \A i \in Slots(e1), j \in Slots(e2) :
            ring'[e1][i] = ring'[e2][j] /\ ring'[e1][i] # NoFrame => e1 = e2 /\ i = j
        BY <1>a, <1>b, <1>c, <1>d, NoFrameNotFrame DEF Inv, TypeOK, ShareInv, heapVars, ringVars, f
    <2>3. \A t1, t2 \in Threads : hand'[t1] = hand'[t2] /\ hand'[t1] # NoFrame => t1 = t2
        BY <1>a, <1>b, <1>c, <1>d, NoFrameNotFrame DEF Inv, TypeOK, ShareInv, heapVars, ringVars, f
    <2>4. \A i \in Frames, e1 \in Encoders : \A j \in Slots(e1) :
            heap'[i] # NoFrame => heap'[i] # ring'[e1][j]
        BY <1>a, <1>b, <1>c, <1>d, NoFrameNotFrame DEF Inv, TypeOK, ShareInv, heapVars, ringVars, f
    <2>5. \A i \in Frames, t1 \in Threads : heap'[i] # NoFrame => heap'[i] # hand'[t1]
        BY <1>a, <1>b, <1>c, <1>d, NoFrameNotFrame DEF Inv, TypeOK, ShareInv, heapVars, ringVars, f
    <2>6. \A t1 \in Threads, e1 \in Encoders : \A j \in Slots(e1) :
            hand'[t1] = ring'[e1][j] /\ hand'[t1] # NoFrame
              => t1 = e1 /\ exHeld'[e1] /\ j = slaveCur'[e1]
        BY <1>a, <1>b, <1>c, <1>d, NoFrameNotFrame DEF Inv, TypeOK, ShareInv, heapVars, ringVars, f
    <2> QED BY <2>1, <2>2, <2>3, <2>4, <2>5, <2>6 DEF ShareInv, Slots
<1>7. RefInv'
    <2>1. \A i \in Frames : heap'[i] # NoFrame => ref'[heap'[i]] = 0
        BY <1>a, <1>b, <1>c, <1>d DEF Inv, TypeOK, HandInv, FrameOrNone, ShareInv, RefInv, heapVars, ringVars, f
    <2>2. \A e1 \in Encoders : \A i \in Slots(e1) : ring'[e1][i] # NoFrame => ref'[ring'[e1][i]] = 1
        BY <1>a, <1>b, <1>c, <1>d DEF Inv, TypeOK, HandInv, FrameOrNone, ShareInv, RefInv, heapVars, ringVars, f
    <2>3. \A t1 \in Threads : hand'[t1] # NoFrame =>
            ref'[hand'[t1]] = IF pc'[t1] = "put" THEN 0
                            ELSE IF t1 = Main /\ pc'[t1] \in {"process", "drop"} THEN 2 ELSE 1
        BY <1>a, <1>b, <1>c, <1>d DEF Inv, TypeOK, HandInv, FrameOrNone, ShareInv, RefInv, heapVars, ringVars, f
    <2> QED BY <2>1, <2>2, <2>3 DEF RefInv, Slots
<1>8. LeakInv'
    <2> SUFFICES ASSUME NEW g \in Frames
                 PROVE  InHeap(g)' \/ InRing(g)' \/ \E t1 \in Threads : hand'[t1] = g
        BY DEF LeakInv
    <2>0. CASE g = f
        BY <2>0, <1>a, <1>b, <1>c DEF Inv, TypeOK
    <2>1. CASE g # f /\ InHeap(g)
        BY <2>1, <1>b, <1>c DEF Inv, TypeOK, InHeap, f, heapVars
    <2>2. CASE g # f /\ InRing(g)
        BY <2>2, <1>b, <1>c, <1>d DEF Inv, TypeOK, InRing, ringVars, Slots, f
    <2>3. CASE g # f /\ \E t1 \in Threads : hand[t1] = g
        BY <2>3, <1>a, <1>b, <1>c, NoFrameNotFrame DEF Inv, TypeOK
    <2> QED BY <2>0, <2>1, <2>2, <2>3 DEF Inv, LeakInv
<1> QED BY <1>1, <1>2, <1>3, <1>4, <1>5, <1>6, <1>7, <1>8 DEF Inv

\* VisitDest keeps the invariant.
LEMMA VisitDestStep ==
    ASSUME Inv, NEW d \in Dests, VisitDest(d)
    PROVE  Inv'
<1>b. /\ hand[Main] \in Frames /\ hand[Main] # NoFrame /\ ref[hand[Main]] = 1
      /\ pc[Main] = "fanout" /\ Main \in Threads
    BY DEF Inv, TypeOK, HandInv, RefInv, VisitDest, FrameOrNone, Threads
<1>1. TypeOK'
    BY EncodersAssumption, <1>b
       DEF Inv, TypeOK, VisitDest, RefFrame, Goto, EncoderPCs, MainPCs, Threads, heapVars, ringVars, loopVars, streamVars
<1>2. HandInv'
    BY EncodersAssumption
       DEF Inv, TypeOK, HandInv, VisitDest, RefFrame, Goto, EncoderPCs, MainPCs, Threads, heapVars, ringVars, loopVars, streamVars
<1>3. RingInv'
    BY EncodersAssumption
       DEF Inv, TypeOK, RingInv, ExchangerFull, Slots, VisitDest, RefFrame, Goto, EncoderPCs, MainPCs, Threads, heapVars, ringVars, loopVars, streamVars
<1>4. PipeInv'
    BY EncodersAssumption
       DEF Inv, TypeOK, PipeInv, Queued, VisitDest, RefFrame, Goto, EncoderPCs, MainPCs, Threads, heapVars, ringVars, loopVars, streamVars
<1>5. HeapInv'
    BY EncodersAssumption
       DEF Inv, HeapInv, VisitDest, RefFrame, Goto, EncoderPCs, MainPCs, Threads, heapVars, ringVars, loopVars, streamVars
<1>6. ShareInv'
    BY EncodersAssumption
       DEF Inv, ShareInv, VisitDest, RefFrame, Goto, EncoderPCs, MainPCs, Threads, heapVars, ringVars, loopVars, streamVars
<1>7. RefInv'
    <2>1. \A i \in Frames : heap'[i] # NoFrame => ref'[heap'[i]] = 0
        BY <1>b, EncodersAssumption DEF Inv, TypeOK, HandInv, FrameOrNone, ShareInv, RefInv, heapVars, ringVars, RingInv, VisitDest, RefFrame, Goto, Threads
    <2>2. \A e1 \in Encoders : \A i \in Slots(e1) : ring'[e1][i] # NoFrame => ref'[ring'[e1][i]] = 1
        BY <1>b, EncodersAssumption DEF Inv, TypeOK, HandInv, FrameOrNone, ShareInv, RefInv, heapVars, ringVars, RingInv, VisitDest, RefFrame, Goto, Threads
    <2>3. \A t1 \in Threads : hand'[t1] # NoFrame =>
            ref'[hand'[t1]] = IF pc'[t1] = "put" THEN 0
                            ELSE IF t1 = Main /\ pc'[t1] \in {"process", "drop"} THEN 2 ELSE 1
        BY <1>b, EncodersAssumption DEF Inv, TypeOK, HandInv, FrameOrNone, ShareInv, RefInv, heapVars, ringVars, RingInv, VisitDest, RefFrame, Goto, Threads
    <2> QED BY <2>1, <2>2, <2>3 DEF RefInv, Slots
<1>8. LeakInv'
    BY EncodersAssumption
       DEF Inv, LeakInv, InHeap, InRing, VisitDest, RefFrame, Goto, EncoderPCs, MainPCs, Threads, heapVars, ringVars, loopVars, streamVars
<1> QED BY <1>1, <1>2, <1>3, <1>4, <1>5, <1>6, <1>7, <1>8 DEF Inv

\* ProcessFrame keeps the invariant.
LEMMA ProcessFrameStep ==
    ASSUME Inv, ProcessFrame
    PROVE  Inv'
<1>1. TypeOK'
    BY SetWaitingType DEF Inv, TypeOK, ProcessFrame, Goto, MainPCs, Threads, EncoderPCs, heapVars, ringVars, loopVars
<1>2. HandInv'
    BY EncodersAssumption
       DEF Inv, TypeOK, HandInv, ProcessFrame, SetWaiting, Goto, EncoderPCs, MainPCs, Threads, heapVars, ringVars, loopVars, streamVars
<1>3. RingInv'
    BY EncodersAssumption
       DEF Inv, TypeOK, RingInv, ExchangerFull, Slots, ProcessFrame, SetWaiting, Goto, EncoderPCs, MainPCs, Threads, heapVars, ringVars, loopVars, streamVars
<1>4. PipeInv'
    BY EncodersAssumption
       DEF Inv, TypeOK, PipeInv, Queued, ProcessFrame, SetWaiting, Goto, EncoderPCs, MainPCs, Threads, heapVars, ringVars, loopVars, streamVars
<1>5. HeapInv'
    BY EncodersAssumption
       DEF Inv, HeapInv, ProcessFrame, SetWaiting, Goto, EncoderPCs, MainPCs, Threads, heapVars, ringVars, loopVars, streamVars
<1>6. ShareInv'
    BY EncodersAssumption
       DEF Inv, ShareInv, ProcessFrame, SetWaiting, Goto, EncoderPCs, MainPCs, Threads, heapVars, ringVars, loopVars, streamVars
<1>7. RefInv'
    BY EncodersAssumption
       DEF Inv, TypeOK, RefInv, ProcessFrame, SetWaiting, Goto, EncoderPCs, MainPCs, Threads, heapVars, ringVars, loopVars, streamVars
<1>8. LeakInv'
    BY EncodersAssumption
       DEF Inv, LeakInv, InHeap, InRing, ProcessFrame, SetWaiting, Goto, EncoderPCs, MainPCs, Threads, heapVars, ringVars, loopVars, streamVars
<1> QED BY <1>1, <1>2, <1>3, <1>4, <1>5, <1>6, <1>7, <1>8 DEF Inv

\* ProcessUnref keeps the invariant.
LEMMA ProcessUnrefStep ==
    ASSUME Inv, ProcessUnref
    PROVE  Inv'
<1>b. /\ hand[Main] \in Frames /\ hand[Main] # NoFrame /\ ref[hand[Main]] = 2
      /\ pc[Main] = "drop" /\ Main \in Threads
    BY DEF Inv, TypeOK, HandInv, RefInv, ProcessUnref, FrameOrNone, Threads
<1>c. /\ ref' = [ref EXCEPT ![hand[Main]] = 1]
      /\ pc' = [pc EXCEPT ![Main] = "fanout"]
      /\ UNCHANGED <<heapVars, ringVars, pipe, hand, loopVars, streamVars>>
    BY <1>b DEF ProcessUnref, UnrefDecrement, Goto, Inv, TypeOK
<1>1. TypeOK'
    BY EncodersAssumption, NoFrameNotFrame, <1>b, <1>c
       DEF Inv, TypeOK, FrameOrNone, EncoderPCs, MainPCs, Threads, heapVars, ringVars, loopVars, streamVars
<1>2. HandInv'
    BY EncodersAssumption, NoFrameNotFrame, <1>b, <1>c
       DEF Inv, TypeOK, HandInv, Threads, heapVars, ringVars, loopVars, streamVars
<1>3. RingInv'
    BY EncodersAssumption, NoFrameNotFrame, <1>b, <1>c
       DEF Inv, TypeOK, RingInv, ExchangerFull, Slots, Threads, heapVars, ringVars, loopVars, streamVars
<1>4. PipeInv'
    BY EncodersAssumption, NoFrameNotFrame, <1>b, <1>c
       DEF Inv, TypeOK, PipeInv, Queued, Threads, heapVars, ringVars, loopVars, streamVars
<1>5. HeapInv'
    BY EncodersAssumption, NoFrameNotFrame, <1>b, <1>c
       DEF Inv, HeapInv, heapVars, ringVars, loopVars, streamVars
<1>6. ShareInv'
    BY EncodersAssumption, NoFrameNotFrame, <1>b, <1>c
       DEF Inv, TypeOK, ShareInv, Threads, heapVars, ringVars, loopVars, streamVars
<1>7. RefInv'
    BY EncodersAssumption, NoFrameNotFrame, <1>b, <1>c
       DEF Inv, TypeOK, ShareInv, RefInv, Threads, heapVars, ringVars, loopVars, streamVars
<1>8. LeakInv'
    BY EncodersAssumption, NoFrameNotFrame, <1>b, <1>c
       DEF Inv, TypeOK, LeakInv, InHeap, InRing, heapVars, ringVars, loopVars, streamVars
<1> QED BY <1>1, <1>2, <1>3, <1>4, <1>5, <1>6, <1>7, <1>8 DEF Inv

\* StreamUnref keeps the invariant.
LEMMA StreamUnrefStep ==
    ASSUME Inv, StreamUnref
    PROVE  Inv'
<1>b. /\ hand[Main] \in Frames /\ hand[Main] # NoFrame /\ ref[hand[Main]] = 1
      /\ pc[Main] = "fanout" /\ Main \in Threads
    BY DEF Inv, TypeOK, HandInv, RefInv, StreamUnref, FrameOrNone, Threads
<1>c. /\ ref' = [ref EXCEPT ![hand[Main]] = 0]
      /\ pc' = [pc EXCEPT ![Main] = "put"]
      /\ current' = Main
      /\ UNCHANGED <<heapVars, ringVars, pipe, hand, ready, todo, streamVars>>
    BY <1>b DEF StreamUnref, UnrefDecrement, Goto, Inv, TypeOK
<1>1. TypeOK'
    BY EncodersAssumption, NoFrameNotFrame, <1>b, <1>c
       DEF Inv, TypeOK, FrameOrNone, EncoderPCs, MainPCs, Threads, heapVars, ringVars, loopVars, streamVars
<1>2. HandInv'
    BY EncodersAssumption, NoFrameNotFrame, <1>b, <1>c
       DEF Inv, TypeOK, HandInv, Threads, heapVars, ringVars, loopVars, streamVars
<1>3. RingInv'
    BY EncodersAssumption, NoFrameNotFrame, <1>b, <1>c
       DEF Inv, TypeOK, RingInv, ExchangerFull, Slots, Threads, heapVars, ringVars, loopVars, streamVars
<1>4. PipeInv'
    BY EncodersAssumption, NoFrameNotFrame, <1>b, <1>c
       DEF Inv, TypeOK, PipeInv, Queued, Threads, heapVars, ringVars, loopVars, streamVars
<1>5. HeapInv'
    BY EncodersAssumption, NoFrameNotFrame, <1>b, <1>c
       DEF Inv, HeapInv, heapVars, ringVars, loopVars, streamVars
<1>6. ShareInv'
    BY EncodersAssumption, NoFrameNotFrame, <1>b, <1>c
       DEF Inv, TypeOK, ShareInv, Threads, heapVars, ringVars, loopVars, streamVars
<1>7. RefInv'
    BY EncodersAssumption, NoFrameNotFrame, <1>b, <1>c
       DEF Inv, TypeOK, ShareInv, RefInv, Threads, heapVars, ringVars, loopVars, streamVars
<1>8. LeakInv'
    BY EncodersAssumption, NoFrameNotFrame, <1>b, <1>c
       DEF Inv, TypeOK, LeakInv, InHeap, InRing, heapVars, ringVars, loopVars, streamVars
<1> QED BY <1>1, <1>2, <1>3, <1>4, <1>5, <1>6, <1>7, <1>8 DEF Inv

\* OtherHandler keeps the invariant.
LEMMA OtherHandlerStep ==
    ASSUME Inv, OtherHandler
    PROVE  Inv'
<1>1. TypeOK'
    BY SetWaitingType DEF Inv, TypeOK, OtherHandler, heapVars, ringVars, loopVars
<1>2. HandInv'
    BY EncodersAssumption
       DEF Inv, TypeOK, HandInv, OtherHandler, SetWaiting, Goto, EncoderPCs, MainPCs, Threads, heapVars, ringVars, loopVars, streamVars
<1>3. RingInv'
    BY EncodersAssumption
       DEF Inv, TypeOK, RingInv, ExchangerFull, Slots, OtherHandler, SetWaiting, Goto, EncoderPCs, MainPCs, Threads, heapVars, ringVars, loopVars, streamVars
<1>4. PipeInv'
    BY EncodersAssumption
       DEF Inv, TypeOK, PipeInv, Queued, OtherHandler, SetWaiting, Goto, EncoderPCs, MainPCs, Threads, heapVars, ringVars, loopVars, streamVars
<1>5. HeapInv'
    BY EncodersAssumption
       DEF Inv, HeapInv, OtherHandler, SetWaiting, Goto, EncoderPCs, MainPCs, Threads, heapVars, ringVars, loopVars, streamVars
<1>6. ShareInv'
    BY EncodersAssumption
       DEF Inv, ShareInv, OtherHandler, SetWaiting, Goto, EncoderPCs, MainPCs, Threads, heapVars, ringVars, loopVars, streamVars
<1>7. RefInv'
    BY EncodersAssumption
       DEF Inv, TypeOK, RefInv, OtherHandler, SetWaiting, Goto, EncoderPCs, MainPCs, Threads, heapVars, ringVars, loopVars, streamVars
<1>8. LeakInv'
    BY EncodersAssumption
       DEF Inv, LeakInv, InHeap, InRing, OtherHandler, SetWaiting, Goto, EncoderPCs, MainPCs, Threads, heapVars, ringVars, loopVars, streamVars
<1> QED BY <1>1, <1>2, <1>3, <1>4, <1>5, <1>6, <1>7, <1>8 DEF Inv

-----------------------------------------------------------------------------
(* The theorems.                                                            *)

\* The start of the program satisfies the invariant.
LEMMA InvInit == Init => Inv
<1> SUFFICES ASSUME Init PROVE Inv
    OBVIOUS
<1> USE DEF Init
<1>0. NFrames \in Nat \ {0} /\ 0 \in Frames
    BY NFramesAssumption DEF Frames
<1>s. \A e \in Encoders : 0 \in Slots(e) /\ ExSlots[e] \in Nat \ {0}
    BY ExSlotsAssumption DEF Slots
<1>1. TypeOK
    BY <1>0, <1>s, EncodersAssumption DEF TypeOK, FrameOrNone, Threads, EncoderPCs, MainPCs
<1>2. HandInv
    BY EncodersAssumption DEF HandInv, Threads
<1>3. RingInv
    <2>1. \A e \in Encoders : \A i \in Slots(e) : ~ Between(i, 0, 0)
        BY <1>s, BetweenAround DEF Slots
    <2> QED BY <2>1, EncodersAssumption DEF RingInv, Threads
<1>4. PipeInv
    BY <1>s, DistanceFacts, EncodersAssumption DEF PipeInv, Queued, Threads, Slots
<1>5. HeapInv
    BY NoFrameNotFrame DEF HeapInv
<1>6. ShareInv
    BY NoFrameNotFrame DEF ShareInv
<1>7. RefInv
    BY DEF RefInv
<1>8. LeakInv
    BY DEF LeakInv, InHeap
<1> QED BY <1>1, <1>2, <1>3, <1>4, <1>5, <1>6, <1>7, <1>8 DEF Inv

\* Every step keeps the invariant.
LEMMA InvNext == Inv /\ [Next]_vars => Inv'
<1> SUFFICES ASSUME Inv, [Next]_vars PROVE Inv'
    OBVIOUS
<1>1. ASSUME NEW e \in Encoders, Encoder(e) PROVE Inv'
    <2>1. CASE UnrefPut(e, "poll")
        BY <2>1, UnrefPutStep, EncodersAssumption DEF Threads
    <2> QED BY <1>1, <2>1, EncoderPollStep, EncodeFailsStep, NewFrameStep, DeliverDropStep,
               DeliverPlaceStep, DeliverAdvanceStep, EncoderUnrefStep DEF Encoder
<1>2. CASE MainLoop
    <2>1. CASE UnrefPut(Main, "dispatch")
        BY <2>1, UnrefPutStep DEF Threads
    <2> QED BY <1>2, <2>1, SelectStep, EndOfPassStep, ExchangerReadByteStep, ExchangerTakeStep,
               VisitDestStep, ProcessFrameStep, ProcessUnrefStep, StreamUnrefStep DEF MainLoop
<1>3. CASE OtherHandler
    BY <1>3, OtherHandlerStep
<1>4. CASE UNCHANGED vars
    BY <1>4 DEF vars, heapVars, ringVars, loopVars, streamVars, Inv, TypeOK, HandInv, RingInv,
       PipeInv, HeapInv, ShareInv, RefInv, LeakInv, InHeap, InRing, Queued, ExchangerFull
<1> QED BY <1>1, <1>2, <1>3, <1>4 DEF Next

\* The invariant holds throughout every run of the frame path (frame.c, the encoder
\* loops and deliver_frame_to_stream).
THEOREM Invariance == Spec => []Inv
<1>1. Init => Inv
    BY InvInit
<1>2. Inv /\ [Next]_vars => Inv'
    BY InvNext
<1> QED BY <1>1, <1>2, PTL DEF Spec

\* Every variable of the frame path keeps its type; in particular no pipe counter and
\* no ref_count drops below zero, and no list pointer leaves its list.
THEOREM TypeCorrect == Spec => []TypeOK
<1>1. Inv => TypeOK
    BY DEF Inv
<1> QED BY <1>1, Invariance, PTL

\* unref_frame (frame.c) always finds the put slot of the heap empty, so it never
\* returns with frame_heap_mutex held.
THEOREM PutSlotAlwaysFree == Spec => []PutSlotFree
<1>1. Inv => PutSlotFree
    <2> SUFFICES ASSUME Inv PROVE PutSlotFree
        OBVIOUS
    <2>1. ASSUME NEW t \in Threads, pc[t] = "put" PROVE heap[put] = NoFrame
        <3>1. hand[t] # NoFrame
            BY <2>1 DEF Inv, HandInv, Threads
        <3> QED BY <3>1, PutSlotEmpty
    <2> QED BY <2>1 DEF PutSlotFree, Inv, HeapInv
<1> QED BY <1>1, Invariance, PTL

\* While exchanger_read has a byte, the slot at master_read holds a frame.
LEMMA TakenSlotFull == Inv => NoLostFrame
<1> SUFFICES ASSUME Inv, pc[Main] = "take"
             PROVE  ring[current][masterRead[current]] # NoFrame
    BY DEF NoLostFrame
<1>1. /\ current \in Encoders /\ pipe[current] \in Nat /\ ExSlots[current] \in Nat \ {0}
      /\ slaveCur[current] \in Slots(current) /\ masterRead[current] \in Slots(current)
    BY ExSlotsAssumption DEF Inv, TypeOK, HandInv
<1>2. masterRead[current] # slaveCur[current] \/ exHeld[current]
    BY <1>1, DistanceFacts DEF Inv, PipeInv, Queued, Slots
<1>3. CASE masterRead[current] # slaveCur[current]
    <2>1. Between(masterRead[current], masterRead[current], slaveCur[current])
        BY <1>1, <1>3, DistanceFacts DEF Slots
    <2> QED BY <1>1, <2>1 DEF Inv, RingInv
<1>4. CASE masterRead[current] = slaveCur[current] /\ exHeld[current]
    BY <1>1, <1>4 DEF Inv, RingInv
<1> QED BY <1>2, <1>3, <1>4

\* exchanger_read (frame.c) finds a frame for every byte it reads: "We lost a frame!"
\* is never logged.
THEOREM NoFrameIsLost == Spec => []NoLostFrame
<1> QED BY TakenSlotFull, Invariance, PTL

\* The pipe of every exchanger carries one byte per queued frame and never more than
\* it has slots (deliver_frame and exchanger_read of frame.c).
THEOREM OneByteOneFrame == Spec => []WakeupPerFrame
<1>1. Inv => WakeupPerFrame
    <2> SUFFICES ASSUME Inv, NEW e \in Encoders
                 PROVE  /\ pipe[e] + (IF pc[Main] = "take" /\ current = e THEN 1 ELSE 0)
                             = Queued(e) + (IF pc[e] = "placed" THEN 1 ELSE 0)
                        /\ pipe[e] < ExSlots[e]
        BY DEF WakeupPerFrame
    <2>1. exHeld[e] <=> pc[e] = "placed"
        BY DEF Inv, RingInv
    <2>2. pipe[e] + (IF pc[Main] = "take" /\ current = e THEN 1 ELSE 0)
            = Queued(e) + (IF pc[e] = "placed" THEN 1 ELSE 0)
        BY <2>1 DEF Inv, PipeInv
    <2>3. /\ Queued(e) \in 0 .. ExSlots[e] - 1 /\ ExSlots[e] \in Nat \ {0} /\ pipe[e] \in Nat
        BY QueuedType DEF Inv, TypeOK
    <2>4. pc[e] = "placed" => Queued(e) + 1 <= ExSlots[e] - 1
        <3> SUFFICES ASSUME pc[e] = "placed" PROVE Queued(e) + 1 <= ExSlots[e] - 1
            OBVIOUS
        <3>1. /\ slaveCur[e] \in 0 .. ExSlots[e] - 1 /\ masterRead[e] \in 0 .. ExSlots[e] - 1
              /\ Succ(slaveCur[e], ExSlots[e]) # masterRead[e]
            BY <2>1 DEF Inv, TypeOK, RingInv, ExchangerFull, Slots
        <3>2. Succ(slaveCur[e], ExSlots[e]) \in 0 .. ExSlots[e] - 1
            BY <2>3, <3>1, SuccType
        <3> QED BY <2>3, <3>1, <3>2, DistanceFacts DEF Queued
    <2> QED BY <2>2, <2>3, <2>4
<1> QED BY <1>1, Invariance, PTL

\* No buffer is leaked, whatever new_frame, deliver_frame and unref_frame (frame.c) of
\* different threads interleave to.
THEOREM BuffersConserved == Spec => []NoFrameLeaked
<1>1. Inv => NoFrameLeaked
    <2> SUFFICES ASSUME Inv, NEW f \in Frames PROVE InHeap(f) \/ InRing(f) \/ InHand(f)
        BY DEF NoFrameLeaked
    <2>1. CASE \E t \in Threads : hand[t] = f
        <3>1. PICK t \in Threads : hand[t] = f
            BY <2>1
        <3>2. CASE pc[t] = "placed"
            <4>1. t \in Encoders /\ ring[t][slaveCur[t]] = f /\ slaveCur[t] \in Slots(t)
                BY <3>1, <3>2 DEF Inv, TypeOK, RingInv, Threads, MainPCs
            <4> QED BY <4>1 DEF InRing
        <3> QED BY <3>1, <3>2 DEF InHand
    <2> QED BY <2>1 DEF Inv, LeakInv
<1> QED BY <1>1, Invariance, PTL

\* No buffer is in two places: two threads never get the same one from new_frame, and
\* none is given back while it is queued (frame.c).
THEOREM BuffersUnshared == Spec => []NoFrameShared
<1>1. Inv => NoFrameShared
    <2> SUFFICES ASSUME Inv PROVE NoFrameShared
        OBVIOUS
    <2>1. ASSUME NEW f \in Frames PROVE ~(InHeap(f) /\ InRing(f))
        BY <2>1, NoFrameNotFrame DEF Inv, ShareInv, InHeap, InRing
    <2>2. ASSUME NEW f \in Frames PROVE ~(InHeap(f) /\ InHand(f))
        BY <2>2, NoFrameNotFrame DEF Inv, ShareInv, InHeap, InHand
    <2>3. ASSUME NEW f \in Frames PROVE ~(InRing(f) /\ InHand(f))
        BY <2>3, NoFrameNotFrame DEF Inv, ShareInv, RingInv, InRing, InHand
    <2> QED BY <2>1, <2>2, <2>3 DEF Inv, ShareInv, NoFrameShared
<1> QED BY <1>1, Invariance, PTL

\* ref_count (ref_frame and unref_frame of frame.c) is the number of holders of a
\* frame at every moment, so a buffer is given back exactly when the last is done.
THEOREM RefCountsRight == Spec => []RefCountsHolders
<1>1. Inv => RefCountsHolders
    <2> SUFFICES ASSUME Inv, NEW f \in Frames
                 PROVE  ref[f] = IF InHeap(f) \/ (\E t \in Threads : hand[t] = f /\ pc[t] = "put") THEN 0
                                 ELSE IF hand[Main] = f /\ pc[Main] \in {"process", "drop"} THEN 2
                                 ELSE 1
        BY DEF RefCountsHolders
    <2>1. CASE InHeap(f)
        BY <2>1, NoFrameNotFrame DEF Inv, RefInv, InHeap
    <2>2. CASE \E t \in Threads : hand[t] = f
        <3>1. PICK t \in Threads : hand[t] = f
            BY <2>2
        <3>2. ~InHeap(f)
            BY <3>1, NoFrameNotFrame DEF Inv, ShareInv, InHeap
        <3>3. \A u \in Threads : hand[u] = f => u = t
            BY <3>1, NoFrameNotFrame DEF Inv, ShareInv
        <3>4. ref[f] = IF pc[t] = "put" THEN 0
                       ELSE IF t = Main /\ pc[t] \in {"process", "drop"} THEN 2 ELSE 1
            BY <3>1, NoFrameNotFrame DEF Inv, RefInv
        <3> QED BY <3>1, <3>2, <3>3, <3>4 DEF Threads
    <2>3. CASE InRing(f) /\ ~ \E t \in Threads : hand[t] = f
        <3>1. ~InHeap(f)
            BY <2>3, NoFrameNotFrame DEF Inv, ShareInv, InHeap, InRing
        <3>2. ref[f] = 1
            BY <2>3, NoFrameNotFrame DEF Inv, RefInv, InRing
        <3> QED BY <2>3, <3>1, <3>2 DEF Threads
    <2> QED BY <2>1, <2>2, <2>3 DEF Inv, LeakInv
<1> QED BY <1>1, Invariance, PTL

\* set_waiting (stream.c) keeps every encoder's running flag equal to "somebody waits
\* on its stream".
THEOREM RunsIffAwaited == Spec => []EncoderRunsIffAwaited
<1>1. Init => EncoderRunsIffAwaited
    BY DEF Init, EncoderRunsIffAwaited
<1>2. EncoderRunsIffAwaited /\ TypeOK /\ [Next]_vars => EncoderRunsIffAwaited'
    <2> SUFFICES ASSUME EncoderRunsIffAwaited, TypeOK, [Next]_vars
                 PROVE  EncoderRunsIffAwaited'
        OBVIOUS
    <2>1. ASSUME NEW ds, NEW on \in BOOLEAN, SetWaiting(ds, on)
          PROVE  EncoderRunsIffAwaited'
        BY <2>1 DEF EncoderRunsIffAwaited, TypeOK, SetWaiting, RunningAfter
    <2>2. CASE UNCHANGED streamVars
        BY <2>2 DEF EncoderRunsIffAwaited, streamVars
    <2>3. CASE OtherHandler
        BY <2>1, <2>3 DEF OtherHandler
    <2>4. CASE ProcessFrame
        BY <2>1, <2>4 DEF ProcessFrame
    <2>5. Next => UNCHANGED streamVars \/ OtherHandler \/ ProcessFrame
        BY DEF Next, Encoder, MainLoop, EncoderPoll, EncodeFails, NewFrame, DeliverDrop,
           DeliverPlace, DeliverAdvance, EncoderUnref, UnrefPut, Select, EndOfPass,
           ExchangerReadByte, ExchangerTake, VisitDest, ProcessUnref, StreamUnref
    <2> QED BY <2>2, <2>3, <2>4, <2>5 DEF vars, streamVars
<1> QED BY <1>1, <1>2, TypeCorrect, PTL DEF Spec
=============================================================================
