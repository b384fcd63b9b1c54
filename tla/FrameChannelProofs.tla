-------------------------- MODULE FrameChannelProofs --------------------------
(***************************************************************************)
(* The frame path implements FrameChannel, for every number of encoders,   *)
(* destinations, frames and slots: its exchangers are bounded first-in     *)
(* first-out queues that refuse the newest frame alone, and its heap a     *)
(* pool from which only free buffers are taken.                            *)
(***************************************************************************)
EXTENDS FrameExchangeProofs, Sequences, SequenceTheorems

\* The state of the abstract specification, as Channel maps it.
Free == {f \in Frames : InHeap(f)}
Filling == [e \in Encoders |-> IF pc[e] \in {"deliver", "placed"} THEN hand[e] ELSE NoFrame]
Queues == [e \in Encoders |-> QueueOf(e)]
Showing == IF pc[Main] \in {"fanout", "process", "drop"} THEN hand[Main] ELSE NoFrame
Returning == {f \in Frames : \E t \in Threads : hand[t] = f /\ pc[t] \in {"unref", "put"}}

-----------------------------------------------------------------------------
(* The steps of FrameChannel in these terms.                                *)

LEMMA MapInit ==
    ASSUME Free = Frames, Filling = [e \in Encoders |-> NoFrame],
           Queues = [e \in Encoders |-> <<>>], Showing = NoFrame, Returning = {}
    PROVE  Channel!Init
    BY Zenon DEF Channel!Init, Free, Filling, Queues, Showing, Returning

LEMMA MapStutter ==
    ASSUME Free' = Free, Filling' = Filling, Queues' = Queues, Showing' = Showing,
           Returning' = Returning
    PROVE  UNCHANGED Channel!vars
    BY Zenon DEF Channel!vars, Free, Filling, Queues, Showing, Returning

LEMMA MapAcquire ==
    ASSUME NEW e \in Encoders, NEW f \in Free, Filling[e] = NoFrame,
           Filling' = [Filling EXCEPT ![e] = f], Free' = Free \ {f},
           Queues' = Queues, Showing' = Showing, Returning' = Returning
    PROVE  Channel!Next
    BY Zenon DEF Channel!Next, Channel!Acquire, Free, Filling, Queues, Showing, Returning

LEMMA MapSend ==
    ASSUME NEW e \in Encoders, Filling[e] # NoFrame, Len(Queues[e]) < ExSlots[e] - 1,
           Queues' = [Queues EXCEPT ![e] = Append(@, Filling[e])],
           Filling' = [Filling EXCEPT ![e] = NoFrame],
           Free' = Free, Showing' = Showing, Returning' = Returning
    PROVE  Channel!Next
    BY Zenon DEF Channel!Next, Channel!Send, Free, Filling, Queues, Showing, Returning

LEMMA MapRefuse ==
    ASSUME NEW e \in Encoders, Filling[e] # NoFrame, Len(Queues[e]) = ExSlots[e] - 1,
           Returning' = Returning \cup {Filling[e]},
           Filling' = [Filling EXCEPT ![e] = NoFrame],
           Free' = Free, Queues' = Queues, Showing' = Showing
    PROVE  Channel!Next
    BY Zenon DEF Channel!Next, Channel!Refuse, Free, Filling, Queues, Showing, Returning

LEMMA MapReceive ==
    ASSUME NEW e \in Encoders, Showing = NoFrame, Queues[e] # <<>>,
           Showing' = Head(Queues[e]), Queues' = [Queues EXCEPT ![e] = Tail(@)],
           Free' = Free, Filling' = Filling, Returning' = Returning
    PROVE  Channel!Next
    BY Zenon DEF Channel!Next, Channel!Receive, Free, Filling, Queues, Showing, Returning

LEMMA MapFinish ==
    ASSUME Showing # NoFrame, Returning' = Returning \cup {Showing}, Showing' = NoFrame,
           Free' = Free, Filling' = Filling, Queues' = Queues
    PROVE  Channel!Next
    BY Zenon DEF Channel!Next, Channel!Finish, Free, Filling, Queues, Showing, Returning

LEMMA MapReturn ==
    ASSUME NEW f \in Returning, Returning' = Returning \ {f}, Free' = Free \cup {f},
           Filling' = Filling, Queues' = Queues, Showing' = Showing
    PROVE  Channel!Next
    BY Zenon DEF Channel!Next, Channel!Return, Free, Filling, Queues, Showing, Returning

-----------------------------------------------------------------------------
(* What a step leaves alone.                                                *)

LEMMA FreeSame == heap' = heap => Free' = Free
    BY DEF Free, InHeap

LEMMA QueuesSame == UNCHANGED <<ring, masterRead, slaveCur>> => Queues' = Queues
    BY DEF Queues, QueueOf, Queued

\* A thread that does nothing with its frame shows the same to the abstract state.
Same(t) == hand'[t] = hand[t] /\ pc'[t] = pc[t]

LEMMA FillingSame ==
    ASSUME \A e \in Encoders :
             (IF pc'[e] \in {"deliver", "placed"} THEN hand'[e] ELSE NoFrame)
               = IF pc[e] \in {"deliver", "placed"} THEN hand[e] ELSE NoFrame
    PROVE  Filling' = Filling
    BY DEF Filling

LEMMA FillingOne ==
    ASSUME NEW e \in Encoders, \A t \in Encoders \ {e} : Same(t)
    PROVE  Filling' = [Filling EXCEPT ![e] =
             IF pc'[e] \in {"deliver", "placed"} THEN hand'[e] ELSE NoFrame]
    BY DEF Filling, Same

\* Thread t has a frame on its way back to the heap.
Gives(t) == pc[t] \in {"unref", "put"}

LEMMA ReturningSame ==
    ASSUME \A t \in Threads : hand'[t] = hand[t] \/ (~Gives(t) /\ ~Gives(t)'),
           \A t \in Threads : Gives(t)' <=> Gives(t)
    PROVE  Returning' = Returning
    BY DEF Returning, Gives

-----------------------------------------------------------------------------
(* The ring as a queue.                                                     *)

\* The k-th slot from a on in a list of n slots.
At(a, k, n) == IF a + k - 1 < n THEN a + k - 1 ELSE a + k - 1 - n

LEMMA AtFacts ==
    ASSUME NEW n \in Nat \ {0}, NEW a \in 0 .. n - 1
    PROVE  /\ \A k \in 1 .. n : At(a, k, n) \in 0 .. n - 1
           /\ At(a, 1, n) = a
           /\ \A k \in 1 .. n - 1 : At(Succ(a, n), k, n) = At(a, k + 1, n) /\ At(a, k + 1, n) # a
    BY DEF At, Succ

LEMMA AtEnd ==
    ASSUME NEW n \in Nat \ {0}, NEW a \in 0 .. n - 1, NEW b \in 0 .. n - 1
    PROVE  /\ At(a, Distance(a, b, n) + 1, n) = b
           /\ \A k \in 1 .. Distance(a, b, n) : At(a, k, n) # b
           /\ Succ(b, n) = a => Distance(a, b, n) = n - 1
    BY DEF At, Distance, Succ

LEMMA TailFacts ==
    ASSUME NEW S, NEW s \in Seq(S), s # <<>>
    PROVE  Tail(s) = [k \in 1 .. Len(s) - 1 |-> s[k + 1]]
<1> DEFINE u == [k \in 1 .. Len(s) - 1 |-> s[k + 1]]
<1>1. Tail(s) \in Seq(S) /\ Len(Tail(s)) = Len(s) - 1 /\ Len(s) \in Nat \ {0}
    OBVIOUS
<1>2. u \in Seq(S) /\ Len(u) = Len(s) - 1
    <2>1. \A k \in 1 .. Len(s) - 1 : s[k + 1] \in S
        OBVIOUS
    <2> QED BY <1>1, <2>1
<1>3. \A k \in 1 .. Len(Tail(s)) : Tail(s)[k] = u[k]
    BY <1>1
<1> HIDE DEF u
<1>4. Tail(s) = u
    BY <1>1, <1>2, <1>3, SeqEqual
<1> QED BY <1>4 DEF u

\* The frames of an exchanger are a sequence.
LEMMA QueueFacts ==
    ASSUME TypeOK, NEW e \in Encoders
    PROVE  /\ QueueOf(e) \in Seq(FrameOrNone)
           /\ Len(QueueOf(e)) = Queued(e)
           /\ \A k \in 1 .. Queued(e) : QueueOf(e)[k] = ring[e][At(masterRead[e], k, ExSlots[e])]
           /\ Queues[e] = QueueOf(e)
           /\ Queued(e) \in 0 .. ExSlots[e] - 1
<1> DEFINE n == ExSlots[e]  a == masterRead[e]
<1>1. Queued(e) \in 0 .. n - 1 /\ n \in Nat \ {0}
    BY QueuedType
<1>2. a \in 0 .. n - 1 /\ slaveCur[e] \in 0 .. n - 1 /\ ring[e] \in [0 .. n - 1 -> FrameOrNone]
    BY DEF TypeOK, Slots
<1>3. QueueOf(e) = [k \in 1 .. Queued(e) |-> ring[e][At(a, k, n)]]
    BY DEF QueueOf, At
<1> HIDE DEF n, a
<1>4. ASSUME NEW k \in 1 .. Queued(e) PROVE ring[e][At(a, k, n)] \in FrameOrNone
    <2>1. k \in 1 .. n
        BY <1>1
    <2>2. At(a, k, n) \in 0 .. n - 1
        BY <1>1, <1>2, <2>1, AtFacts
    <2> QED BY <1>2, <2>2
<1>5. QueueOf(e) \in Seq(FrameOrNone) /\ Len(QueueOf(e)) = Queued(e)
    BY <1>1, <1>3, <1>4
<1> QED BY <1>1, <1>3, <1>5 DEF n, a, Queues

\* Between the halves of deliver_frame there is room for the frame.
LEMMA RoomForPlaced ==
    ASSUME Inv, NEW e \in Encoders, pc[e] = "placed"
    PROVE  Queued(e) < ExSlots[e] - 1 /\ Succ(slaveCur[e], ExSlots[e]) # masterRead[e]
<1> DEFINE n == ExSlots[e]  a == masterRead[e]  b == slaveCur[e]  c == Succ(b, n)
<1>1. b \in 0 .. n - 1 /\ a \in 0 .. n - 1 /\ c # a /\ n \in Nat \ {0}
    BY ExSlotsAssumption DEF Inv, TypeOK, RingInv, ExchangerFull, Slots
<1>2. c \in 0 .. n - 1
    BY <1>1, SuccType
<1>3. Distance(a, c, n) = Distance(a, b, n) + 1 /\ Distance(a, b, n) \in 0 .. n - 1
    BY <1>1, DistanceFacts
<1> HIDE DEF c
<1>4. Distance(a, c, n) \in 0 .. n - 1
    BY <1>1, <1>2, DistanceFacts
<1> QED BY <1>1, <1>3, <1>4 DEF Queued, c

-----------------------------------------------------------------------------
(* The steps.                                                               *)

\* A thread of its own.
LEMMA EncoderThread ==
    ASSUME NEW e \in Encoders
    PROVE  e \in Threads /\ Main \in Threads /\ e # Main
    BY EncodersAssumption DEF Threads

\* new_frame takes a free buffer, or finds none and changes nothing.
LEMMA NewFrameMaps ==
    ASSUME Inv, NEW e \in Encoders, NewFrame(e)
    PROVE  Channel!Next \/ UNCHANGED Channel!vars
<1> DEFINE f == heap[take]
<1>0. /\ pc[e] = "alloc" /\ e \in Threads /\ Main \in Threads /\ e # Main
      /\ UNCHANGED <<ring, masterRead, slaveCur>>
    BY EncoderThread DEF NewFrame, ringVars
<1>1. Queues' = Queues
    BY <1>0, QueuesSame
<1>2. CASE f = NoFrame
    <2>1. hand' = hand /\ heap' = heap /\ pc' = [pc EXCEPT ![e] = "poll"]
        BY <1>2 DEF NewFrame, Goto
    <2>2. \A t \in Threads \ {e} : pc'[t] = pc[t]
        BY <2>1 DEF Inv, TypeOK
    <2>3. pc'[e] = "poll"
        BY <1>0, <2>1 DEF Inv, TypeOK
    <2>4. Filling' = Filling
        BY <1>0, <2>1, <2>2, <2>3, EncoderThread, FillingSame
    <2>5. Returning' = Returning
        BY <1>0, <2>1, <2>2, <2>3, ReturningSame DEF Gives
    <2>6. Showing' = Showing
        BY <1>0, <2>1, <2>2 DEF Showing
    <2> QED BY <1>1, <2>1, <2>4, <2>5, <2>6, FreeSame, MapStutter
<1>3. CASE f # NoFrame
    <2>1. /\ hand' = [hand EXCEPT ![e] = f] /\ heap' = [heap EXCEPT ![take] = NoFrame]
          /\ pc' = [pc EXCEPT ![e] = "deliver"]
        BY <1>3 DEF NewFrame, Goto, EmptyTakeSlot
    <2>2. f \in Frames /\ take \in Frames
        BY <1>3 DEF Inv, TypeOK, FrameOrNone
    <2>3. \A t \in Threads \ {e} : Same(t)
        BY <2>1 DEF Same, Inv, TypeOK
    <2>4. pc'[e] = "deliver" /\ hand'[e] = f
        BY <1>0, <2>1 DEF Inv, TypeOK
    <2>5. Filling' = [Filling EXCEPT ![e] = f]
        BY <2>3, <2>4, EncoderThread, FillingOne
    <2>6. Filling[e] = NoFrame
        BY <1>0 DEF Filling
    <2>7. f \in Free /\ Free' = Free \ {f}
        <3>1. ASSUME NEW g \in Frames PROVE InHeap(g)' <=> InHeap(g) /\ g # f
            <4>1. \A i \in Frames : heap'[i] = IF i = take THEN NoFrame ELSE heap[i]
                BY <2>1, <2>2 DEF Inv, TypeOK
            <4>2. \A i \in Frames : heap[i] = f => i = take
                BY <1>3, <2>2 DEF Inv, ShareInv
            <4> QED BY <2>2, <4>1, <4>2, NoFrameNotFrame DEF InHeap
        <3>2. InHeap(f)
            BY <2>2 DEF InHeap
        <3> QED BY <2>2, <3>1, <3>2 DEF Free
    <2>8. Returning' = Returning
        BY <1>0, <2>3, <2>4, ReturningSame DEF Gives, Same
    <2>9. Showing' = Showing
        BY <1>0, <2>3 DEF Showing, Same
    <2> HIDE DEF f
    <2> QED BY <1>1, <2>5, <2>6, <2>7, <2>8, <2>9, MapAcquire
<1> QED BY <1>2, <1>3

\* deliver_frame drops a frame when its exchanger is full.
LEMMA DeliverDropMaps ==
    ASSUME Inv, NEW e \in Encoders, DeliverDrop(e)
    PROVE  Channel!Next
<1>1. /\ pc[e] = "deliver" /\ e \in Threads /\ Main \in Threads /\ e # Main
      /\ UNCHANGED <<heap, ring, masterRead, slaveCur, hand>>
      /\ pc' = [pc EXCEPT ![e] = "unref"]
    BY EncoderThread DEF DeliverDrop, Goto, ringVars, heapVars
<1>2. hand[e] # NoFrame /\ hand[e] \in Frames
    BY <1>1 DEF Inv, HandInv, TypeOK, FrameOrNone
<1>3. pc'[e] = "unref" /\ \A t \in Threads \ {e} : Same(t)
    BY <1>1 DEF Same, Inv, TypeOK
<1>4. Filling[e] = hand[e] /\ Filling' = [Filling EXCEPT ![e] = NoFrame]
    <2>1. Filling[e] = hand[e]
        BY <1>1 DEF Filling
    <2> QED BY <1>3, <2>1, EncoderThread, FillingOne
<1>5. Len(Queues[e]) = ExSlots[e] - 1
    <2>1. /\ ExSlots[e] \in Nat \ {0} /\ masterRead[e] \in 0 .. ExSlots[e] - 1
          /\ slaveCur[e] \in 0 .. ExSlots[e] - 1 /\ Succ(slaveCur[e], ExSlots[e]) = masterRead[e]
        BY ExSlotsAssumption DEF Inv, TypeOK, Slots, DeliverDrop, ExchangerFull
    <2>2. Queued(e) = ExSlots[e] - 1
        BY <2>1, AtEnd DEF Queued
    <2> QED BY <2>2, QueueFacts DEF Inv
<1>6. Returning' = Returning \cup {hand[e]}
    BY <1>1, <1>2, <1>3 DEF Returning, Same
<1>7. Showing' = Showing
    BY <1>1, <1>3 DEF Showing, Same
<1>8. Free' = Free /\ Queues' = Queues
    BY <1>1, FreeSame, QueuesSame
<1> QED BY <1>2, <1>4, <1>5, <1>6, <1>7, <1>8, MapRefuse

\* The first half of deliver_frame changes a slot outside of the queue alone.
LEMMA DeliverPlaceMaps ==
    ASSUME Inv, NEW e \in Encoders, DeliverPlace(e)
    PROVE  UNCHANGED Channel!vars
<1>1. /\ pc[e] = "deliver" /\ e \in Threads /\ Main \in Threads /\ e # Main
      /\ UNCHANGED <<heap, masterRead, slaveCur, hand>>
      /\ pc' = [pc EXCEPT ![e] = "placed"]
      /\ ring' = [ring EXCEPT ![e][slaveCur[e]] = hand[e]]
    BY EncoderThread DEF DeliverPlace, Goto, heapVars
<1>2. pc'[e] = "placed" /\ \A t \in Threads \ {e} : Same(t)
    BY <1>1 DEF Same, Inv, TypeOK
<1>3. Filling' = Filling
    BY <1>1, <1>2, EncoderThread, FillingSame DEF Same
<1>4. Returning' = Returning
    BY <1>1, <1>2, ReturningSame DEF Gives, Same
<1>5. Showing' = Showing
    BY <1>1, <1>2 DEF Showing, Same
<1>6. ASSUME NEW d \in Encoders PROVE QueueOf(d)' = QueueOf(d)
    <2>1. CASE d # e
        <3>1. ring'[d] = ring[d]
            BY <1>1, <2>1 DEF Inv, TypeOK
        <3> QED BY <1>1, <3>1 DEF QueueOf, Queued
    <2>2. CASE d = e
        <3> DEFINE n == ExSlots[e]  a == masterRead[e]  b == slaveCur[e]
        <3>1. n \in Nat \ {0} /\ a \in 0 .. n - 1 /\ b \in 0 .. n - 1
            BY ExSlotsAssumption DEF Inv, TypeOK, Slots
        <3>2. ring'[e] = [ring[e] EXCEPT ![b] = hand[e]] /\ ring[e] \in [0 .. n - 1 -> FrameOrNone]
            BY <1>1 DEF Inv, TypeOK, Slots
        <3>3. Queued(e)' = Queued(e) /\ Queued(e) = Distance(a, b, n) /\ Queued(e) \in 0 .. n - 1
            BY <1>1, <3>1, DistanceFacts DEF Queued
        <3>4. /\ QueueOf(e) = [k \in 1 .. Queued(e) |-> ring[e][At(a, k, n)]]
              /\ QueueOf(e)' = [k \in 1 .. Queued(e) |-> ring'[e][At(a, k, n)]]
            BY <1>1, <3>3 DEF QueueOf, At
        <3> HIDE DEF n, a, b
        <3>5. ASSUME NEW k \in 1 .. Queued(e) PROVE ring'[e][At(a, k, n)] = ring[e][At(a, k, n)]
            <4>1. k \in 1 .. n /\ k \in 1 .. Distance(a, b, n)
                BY <3>1, <3>3
            <4>2. At(a, k, n) \in 0 .. n - 1 /\ At(a, k, n) # b
                BY <3>1, <4>1, AtFacts, AtEnd
            <4> QED BY <3>2, <4>2
        <3> QED BY <2>2, <3>4, <3>5
    <2> QED BY <2>1, <2>2
<1>7. Queues' = Queues
    BY <1>6 DEF Queues
<1> QED BY <1>1, <1>3, <1>4, <1>5, <1>7, FreeSame, MapStutter

\* The second half of deliver_frame appends the frame to the queue.
LEMMA DeliverAdvanceMaps ==
    ASSUME Inv, NEW e \in Encoders, DeliverAdvance(e)
    PROVE  Channel!Next
<1> DEFINE n == ExSlots[e]  a == masterRead[e]  b == slaveCur[e]
<1>1. /\ pc[e] = "placed" /\ e \in Threads /\ Main \in Threads /\ e # Main
      /\ UNCHANGED <<heap, ring, masterRead>>
      /\ slaveCur' = [slaveCur EXCEPT ![e] = Succ(b, n)]
      /\ hand' = [hand EXCEPT ![e] = NoFrame] /\ pc' = [pc EXCEPT ![e] = "poll"]
    BY EncoderThread DEF DeliverAdvance, Goto, heapVars
<1>2. /\ hand[e] # NoFrame /\ hand[e] \in FrameOrNone /\ ring[e][b] = hand[e]
      /\ n \in Nat \ {0} /\ a \in 0 .. n - 1 /\ b \in 0 .. n - 1
    BY <1>1, ExSlotsAssumption DEF Inv, HandInv, TypeOK, RingInv, Slots
<1>3. pc'[e] = "poll" /\ hand'[e] = NoFrame /\ \A t \in Threads \ {e} : Same(t)
    BY <1>1 DEF Same, Inv, TypeOK
<1>4. Filling[e] = hand[e] /\ Filling' = [Filling EXCEPT ![e] = NoFrame]
    <2>1. Filling[e] = hand[e]
        BY <1>1 DEF Filling
    <2> QED BY <1>3, <2>1, EncoderThread, FillingOne
<1>5. Returning' = Returning
    BY <1>1, <1>3, ReturningSame DEF Gives, Same
<1>6. Showing' = Showing
    BY <1>1, <1>3 DEF Showing, Same
<1>7. Queued(e) < n - 1 /\ Succ(b, n) # a
    BY <1>1, RoomForPlaced
<1>8. /\ Queued(e) \in 0 .. n - 1 /\ Len(Queues[e]) = Queued(e)
      /\ Queues[e] = QueueOf(e) /\ QueueOf(e) \in Seq(FrameOrNone) /\ Len(QueueOf(e)) = Queued(e)
    BY QueueFacts DEF Inv
<1>9. QueueOf(e)' = Append(QueueOf(e), hand[e])
    <2>1. slaveCur'[e] = Succ(b, n)
        BY <1>1 DEF Inv, TypeOK
    <2>2. Queued(e)' = Queued(e) + 1 /\ Queued(e) = Distance(a, b, n)
        <3>1. Queued(e)' = Distance(a, Succ(b, n), n) /\ Queued(e) = Distance(a, b, n)
            BY <1>1, <2>1 DEF Queued
        <3>2. Distance(a, Succ(b, n), n) = Distance(a, b, n) + 1
            <4> HIDE DEF n, a, b
            <4> QED BY <1>2, <1>7, DistanceFacts
        <3> QED BY <3>1, <3>2
    <2>3. /\ QueueOf(e) = [k \in 1 .. Queued(e) |-> ring[e][At(a, k, n)]]
          /\ QueueOf(e)' = [k \in 1 .. Queued(e) + 1 |-> ring[e][At(a, k, n)]]
        <3>1. ring'[e] = ring[e] /\ masterRead'[e] = a
            BY <1>1
        <3>2. QueueOf(e)' = [k \in 1 .. Queued(e)' |-> ring[e][At(a, k, n)]]
            BY <3>1, Zenon DEF QueueOf, At
        <3>3. QueueOf(e) = [k \in 1 .. Queued(e) |-> ring[e][At(a, k, n)]]
            BY Zenon DEF QueueOf, At
        <3> QED BY <2>2, <3>2, <3>3, Zenon
    <2> HIDE DEF n, a, b
    <2>4. ring[e][At(a, Queued(e) + 1, n)] = hand[e]
        BY <1>2, <2>2, AtEnd
    <2> QED BY <1>8, <2>3, <2>4
<1>10. Queues' = [Queues EXCEPT ![e] = Append(@, Filling[e])]
    <2>1. ASSUME NEW d \in Encoders, d # e PROVE QueueOf(d)' = QueueOf(d)
        <3>1. slaveCur'[d] = slaveCur[d]
            BY <1>1, <2>1 DEF Inv, TypeOK
        <3> QED BY <1>1, <3>1 DEF QueueOf, Queued
    <2> QED BY <1>4, <1>9, <2>1 DEF Queues
<1> QED BY <1>1, <1>2, <1>4, <1>5, <1>6, <1>7, <1>8, <1>10, FreeSame, MapSend

\* exchanger_read takes the oldest frame.
LEMMA ExchangerTakeMaps ==
    ASSUME Inv, NEW e \in Encoders, ExchangerTake(e)
    PROVE  Channel!Next
<1> DEFINE n == ExSlots[e]  a == masterRead[e]  b == slaveCur[e]
<1>1. /\ pc[Main] = "take" /\ current = e /\ ~exHeld[e] /\ Main \in Threads /\ Main \notin Encoders
      /\ UNCHANGED <<heap, slaveCur>> /\ ring' = [ring EXCEPT ![e][a] = NoFrame]
    BY EncoderThread, EncodersAssumption DEF ExchangerTake, heapVars
<1>2. ring[e][a] # NoFrame
    BY <1>1, TakenSlotFull DEF NoLostFrame
<1>3. /\ masterRead' = [masterRead EXCEPT ![e] = Succ(a, n)]
      /\ hand' = [hand EXCEPT ![Main] = ring[e][a]] /\ pc' = [pc EXCEPT ![Main] = "fanout"]
    BY <1>1, <1>2 DEF ExchangerTake, Goto
<1>4. pc'[Main] = "fanout" /\ hand'[Main] = ring[e][a] /\ \A t \in Threads \ {Main} : Same(t)
    BY <1>1, <1>3 DEF Same, Inv, TypeOK
<1>5. /\ n \in Nat \ {0} /\ a \in 0 .. n - 1 /\ b \in 0 .. n - 1
      /\ ring[e] \in [0 .. n - 1 -> FrameOrNone]
    BY ExSlotsAssumption DEF Inv, TypeOK, Slots
<1>6. Queued(e) > 0 /\ Queued(e) \in 0 .. n - 1 /\ Queued(e) = Distance(a, b, n) /\ a # b
    <2>1. pipe[e] + 1 = Queued(e) /\ pipe[e] \in Nat
        BY <1>1, QueuedType DEF Inv, PipeInv, TypeOK
    <2>2. Queued(e) = Distance(a, b, n)
        BY DEF Queued
    <2> QED BY <1>5, <2>1, <2>2, DistanceFacts
<1>7. Filling' = Filling
    BY <1>1, <1>4, EncoderThread, FillingSame DEF Same
<1>8. Returning' = Returning
    BY <1>1, <1>4, ReturningSame DEF Gives, Same
<1>9. Showing = NoFrame /\ Showing' = ring[e][a]
    BY <1>1, <1>4 DEF Showing
<1>10. /\ Queues[e] = QueueOf(e) /\ QueueOf(e) \in Seq(FrameOrNone) /\ Len(QueueOf(e)) = Queued(e)
       /\ \A k \in 1 .. Queued(e) : QueueOf(e)[k] = ring[e][At(a, k, n)]
    BY QueueFacts DEF Inv
<1>11. QueueOf(e) # <<>> /\ Head(QueueOf(e)) = ring[e][a]
    <2> HIDE DEF n, a, b
    <2>1. 1 \in 1 .. Queued(e) /\ At(a, 1, n) = a
        <3>1. Queued(e) \in Int /\ Queued(e) > 0
            BY <1>6
        <3>2. At(a, 1, n) = a
            BY <1>5 DEF At
        <3> QED BY <3>1, <3>2
    <2>2. QueueOf(e)[1] = ring[e][a]
        BY <1>10, <2>1, Zenon
    <2> QED BY <1>6, <1>10, <2>2
<1>12. QueueOf(e)' = Tail(QueueOf(e))
    <2>1. masterRead'[e] = Succ(a, n) /\ ring'[e] = [ring[e] EXCEPT ![a] = NoFrame]
        BY <1>1, <1>3 DEF Inv, TypeOK
    <2>2. Queued(e)' = Queued(e) - 1
        BY <1>1, <1>5, <1>6, <2>1, DistanceFacts DEF Queued
    <2>3. QueueOf(e)' = [k \in 1 .. Queued(e) - 1 |-> ring'[e][At(Succ(a, n), k, n)]]
        BY <1>1, <2>1, <2>2 DEF QueueOf, At
    <2> HIDE DEF n, a, b
    <2>4. ASSUME NEW k \in 1 .. Queued(e) - 1
          PROVE  ring'[e][At(Succ(a, n), k, n)] = QueueOf(e)[k + 1]
        <3>1. k \in 1 .. n - 1 /\ k + 1 \in 1 .. n /\ k + 1 \in 1 .. Queued(e)
            BY <1>5, <1>6
        <3>2. /\ At(Succ(a, n), k, n) = At(a, k + 1, n) /\ At(a, k + 1, n) # a
              /\ At(a, k + 1, n) \in 0 .. n - 1
            BY <1>5, <3>1, AtFacts
        <3>3. ring'[e][At(a, k + 1, n)] = ring[e][At(a, k + 1, n)]
            BY <1>5, <2>1, <3>2
        <3> QED BY <1>10, <3>1, <3>2, <3>3 DEF a, n
    <2>5. Tail(QueueOf(e)) = [k \in 1 .. Queued(e) - 1 |-> QueueOf(e)[k + 1]]
        BY <1>10, <1>11, TailFacts
    <2> QED BY <2>3, <2>4, <2>5
<1>13. Queues' = [Queues EXCEPT ![e] = Tail(@)]
    <2>1. ASSUME NEW d \in Encoders, d # e PROVE QueueOf(d)' = QueueOf(d)
        <3>1. masterRead'[d] = masterRead[d] /\ ring'[d] = ring[d]
            BY <1>1, <1>3, <2>1 DEF Inv, TypeOK
        <3> QED BY <1>1, <3>1 DEF QueueOf, Queued
    <2> QED BY <1>12, <2>1 DEF Queues
<1> QED BY <1>1, <1>7, <1>8, <1>9, <1>10, <1>11, <1>13, FreeSame, MapReceive

\* unref_frame puts the frame back into the heap.
LEMMA UnrefPutMaps ==
    ASSUME Inv, NEW t \in Threads, NEW back, UnrefPut(t, back),
           t \in Encoders => back = "poll", t = Main => back = "dispatch"
    PROVE  Channel!Next
<1> DEFINE f == hand[t]
<1>1. pc[t] = "put" /\ UNCHANGED <<ring, masterRead, slaveCur>> /\ pc' = [pc EXCEPT ![t] = back]
      /\ hand' = [hand EXCEPT ![t] = NoFrame]
    BY DEF UnrefPut, Goto, ringVars
<1>2. f # NoFrame /\ f \in Frames
    BY <1>1 DEF Inv, HandInv, TypeOK, FrameOrNone, Threads
<1>3. heap' = [heap EXCEPT ![put] = f] /\ heap[put] = NoFrame /\ put \in Frames
    <2>1. heap[put] = NoFrame
        BY <1>2, PutSlotEmpty
    <2> QED BY <2>1 DEF UnrefPut, Inv, TypeOK
<1>4. pc'[t] = back /\ hand'[t] = NoFrame /\ \A u \in Threads \ {t} : Same(u)
    BY <1>1 DEF Same, Inv, TypeOK
<1>5. back \notin {"unref", "put", "deliver", "placed", "fanout", "process", "drop"}
    BY DEF Threads
<1>6. Filling' = Filling
    <2>1. \A e \in Encoders : e \in Threads
        BY DEF Threads
    <2> QED BY <1>1, <1>4, <1>5, <2>1, FillingSame DEF Same
<1>7. Showing' = Showing
    <2>1. Main \in Threads
        BY DEF Threads
    <2> QED BY <1>1, <1>4, <1>5, <2>1 DEF Showing, Same
<1>8. Queues' = Queues
    BY <1>1, QueuesSame
<1>9. f \in Returning /\ Returning' = Returning \ {f}
    <2>1. \A u \in Threads : hand[u] = f => u = t
        BY <1>2 DEF Inv, ShareInv
    <2>2. ASSUME NEW g \in Frames
          PROVE  (\E u \in Threads : hand'[u] = g /\ pc'[u] \in {"unref", "put"})
                   <=> (\E u \in Threads : hand[u] = g /\ pc[u] \in {"unref", "put"}) /\ g # f
        <3>1. NoFrame # g
            BY NoFrameNotFrame
        <3> QED BY <1>1, <1>4, <1>5, <2>1, <3>1 DEF Same
    <2> QED BY <1>1, <1>2, <2>2 DEF Returning
<1>10. Free' = Free \cup {f}
    <2>1. \A i \in Frames : heap'[i] = IF i = put THEN f ELSE heap[i]
        BY <1>3 DEF Inv, TypeOK
    <2>2. ASSUME NEW g \in Frames PROVE InHeap(g)' <=> InHeap(g) \/ g = f
        BY <1>3, <2>1, NoFrameNotFrame DEF InHeap
    <2> QED BY <1>2, <2>2 DEF Free
<1> HIDE DEF f
<1> QED BY <1>6, <1>7, <1>8, <1>9, <1>10, MapReturn

\* A step that touches no frame but the count of one, and moves thread t on.
Moves(t) ==
    /\ UNCHANGED <<heap, ring, masterRead, slaveCur, hand>>
    /\ \A u \in Threads \ {t} : pc'[u] = pc[u]

\* Thread t stays where its frame is.
Stays(t) ==
    /\ Gives(t)' <=> Gives(t)
    /\ pc'[t] \in {"deliver", "placed"} <=> pc[t] \in {"deliver", "placed"}
    /\ pc'[t] \in {"fanout", "process", "drop"} <=> pc[t] \in {"fanout", "process", "drop"}

LEMMA MoveStutters ==
    ASSUME NEW t \in Threads, Moves(t), Stays(t)
    PROVE  UNCHANGED Channel!vars
<1>1. \A e \in Encoders : e \in Threads
    BY DEF Threads
<1>2. Main \in Threads
    BY DEF Threads
<1>3. Filling' = Filling
    BY <1>1, FillingSame DEF Moves, Stays
<1>4. Showing' = Showing
    BY <1>2 DEF Moves, Stays, Showing
<1>5. Returning' = Returning
    BY ReturningSame DEF Moves, Stays, Gives
<1>6. Free' = Free /\ Queues' = Queues
    BY FreeSame, QueuesSame DEF Moves
<1> QED BY <1>3, <1>4, <1>5, <1>6, MapStutter

\* The last reference of deliver_frame_to_stream: the main thread is done.
LEMMA StreamUnrefMaps ==
    ASSUME Inv, StreamUnref
    PROVE  Channel!Next
<1>1. pc[Main] = "fanout" /\ hand[Main] # NoFrame /\ hand[Main] \in Frames /\ Main \in Threads
    BY DEF StreamUnref, Inv, HandInv, TypeOK, FrameOrNone, Threads
<1>2. ref[hand[Main]] = 1
    BY <1>1 DEF Inv, RefInv
<1>3. UNCHANGED <<heap, ring, masterRead, slaveCur, hand>> /\ pc' = [pc EXCEPT ![Main] = "put"]
    BY <1>2 DEF StreamUnref, UnrefDecrement, Goto, heapVars, ringVars
<1>4. pc'[Main] = "put" /\ \A t \in Threads \ {Main} : Same(t)
    BY <1>1, <1>3 DEF Same, Inv, TypeOK
<1>5. Filling' = Filling
    BY <1>4, EncoderThread, FillingSame DEF Same
<1>6. Showing = hand[Main] /\ Showing' = NoFrame
    BY <1>1, <1>4 DEF Showing
<1>7. Returning' = Returning \cup {hand[Main]}
    BY <1>1, <1>3, <1>4 DEF Returning, Same
<1>8. Free' = Free /\ Queues' = Queues
    BY <1>3, FreeSame, QueuesSame
<1> QED BY <1>1, <1>5, <1>6, <1>7, <1>8, MapFinish

\* The steps of an encoder that stand for none of the channel's.
LEMMA EncoderStutters ==
    ASSUME Inv, NEW e \in Encoders, EncoderPoll(e) \/ EncodeFails(e) \/ EncoderUnref(e)
    PROVE  UNCHANGED Channel!vars
<1>1. e \in Threads /\ DOMAIN pc = Threads
    BY EncoderThread DEF Inv, TypeOK
<1>2. CASE EncoderPoll(e) \/ EncodeFails(e)
    <2>1. Moves(e) /\ pc[e] \in {"poll", "alloc"} /\ pc'[e] \in {"poll", "alloc"}
        BY <1>1, <1>2 DEF EncoderPoll, EncodeFails, Goto, Moves, heapVars, ringVars
    <2> QED BY <1>1, <2>1, MoveStutters DEF Stays, Gives
<1>3. CASE EncoderUnref(e)
    <2>1. pc[e] = "unref" /\ hand[e] # NoFrame /\ e # Main
        BY <1>3, EncoderThread DEF EncoderUnref, Inv, HandInv
    <2>2. ref[hand[e]] = 1
        BY <1>1, <2>1 DEF Inv, RefInv
    <2>3. Moves(e) /\ pc'[e] = "put"
        BY <1>1, <1>3, <2>2 DEF EncoderUnref, UnrefDecrement, Goto, Moves, heapVars, ringVars
    <2> QED BY <1>1, <2>1, <2>3, MoveStutters DEF Stays, Gives
<1> QED BY <1>2, <1>3

\* The steps of the main thread that stand for none of the channel's.
LEMMA MainStutters ==
    ASSUME Inv,
           \/ Select \/ EndOfPass \/ (\E e \in Encoders : ExchangerReadByte(e))
           \/ (\E d \in Dests : VisitDest(d)) \/ ProcessFrame \/ ProcessUnref \/ OtherHandler
    PROVE  UNCHANGED Channel!vars
<1>1. Main \in Threads /\ DOMAIN pc = Threads
    BY DEF Inv, TypeOK, Threads
<1>2. CASE Select \/ EndOfPass \/ \E e \in Encoders : ExchangerReadByte(e)
    <2>1. /\ Moves(Main) /\ pc[Main] \in {"select", "dispatch"}
          /\ pc'[Main] \in {"select", "dispatch", "take"}
        BY <1>1, <1>2 DEF Select, EndOfPass, ExchangerReadByte, Goto, Moves, heapVars, ringVars
    <2> QED BY <1>1, <2>1, MoveStutters DEF Stays, Gives
<1>3. CASE ProcessFrame \/ \E d \in Dests : VisitDest(d)
    <2>1. /\ Moves(Main) /\ pc[Main] \in {"fanout", "process", "drop"}
          /\ pc'[Main] \in {"fanout", "process", "drop"}
        BY <1>1, <1>3 DEF VisitDest, ProcessFrame, Goto, Moves, heapVars, ringVars
    <2> QED BY <1>1, <2>1, MoveStutters DEF Stays, Gives
<1>4. CASE ProcessUnref
    <2>1. pc[Main] = "drop" /\ hand[Main] # NoFrame
        BY <1>4 DEF ProcessUnref, Inv, HandInv
    <2>2. ref[hand[Main]] = 2
        BY <1>1, <2>1 DEF Inv, RefInv
    <2>3. Moves(Main) /\ pc'[Main] = "fanout"
        BY <1>1, <1>4, <2>2 DEF ProcessUnref, UnrefDecrement, Goto, Moves, heapVars, ringVars
    <2> QED BY <1>1, <2>1, <2>3, MoveStutters DEF Stays, Gives
<1>5. CASE OtherHandler
    <2>1. Moves(Main) /\ pc' = pc
        BY <1>5 DEF OtherHandler, Moves, heapVars, ringVars
    <2> QED BY <1>1, <2>1, MoveStutters DEF Stays, Gives
<1> QED BY <1>2, <1>3, <1>4, <1>5

\* Every step of the frame path is a step of the channel or changes nothing of it.
LEMMA StepMaps == Inv /\ [Next]_vars => [Channel!Next]_(Channel!vars)
<1> SUFFICES ASSUME Inv, [Next]_vars PROVE Channel!Next \/ UNCHANGED Channel!vars
    OBVIOUS
<1>1. ASSUME NEW e \in Encoders, Encoder(e) PROVE Channel!Next \/ UNCHANGED Channel!vars
    <2>1. CASE UnrefPut(e, "poll")
        BY <2>1, UnrefPutMaps, EncoderThread
    <2> QED BY <1>1, <2>1, EncoderStutters, NewFrameMaps, DeliverDropMaps, DeliverPlaceMaps,
               DeliverAdvanceMaps DEF Encoder
<1>2. CASE MainLoop
    <2>1. CASE UnrefPut(Main, "dispatch")
        <3>1. Main \in Threads /\ Main \notin Encoders
            BY EncodersAssumption DEF Threads
        <3> QED BY <2>1, <3>1, UnrefPutMaps
    <2> QED BY <1>2, <2>1, MainStutters, ExchangerTakeMaps, StreamUnrefMaps DEF MainLoop
<1>3. CASE OtherHandler
    BY <1>3, MainStutters
<1>4. CASE UNCHANGED vars
    <2>1. Moves(Main) /\ Stays(Main) /\ Main \in Threads
        BY <1>4 DEF vars, heapVars, ringVars, Moves, Stays, Gives, Threads
    <2> QED BY <2>1, MoveStutters
<1> QED BY <1>1, <1>2, <1>3, <1>4 DEF Next

\* The start of the program is the start of the channel.
LEMMA StartMaps == Init => Channel!Init
<1> SUFFICES ASSUME Init PROVE Channel!Init
    OBVIOUS
<1>1. Free = Frames
    BY DEF Free, InHeap, Init
<1>2. Filling = [e \in Encoders |-> NoFrame]
    BY EncodersAssumption DEF Filling, Init, Threads
<1>3. Queues = [e \in Encoders |-> <<>>]
    <2>1. ASSUME NEW e \in Encoders PROVE QueueOf(e) = <<>>
        <3>1. TypeOK /\ Queued(e) = 0
            BY InvInit, ExSlotsAssumption DEF Init, Inv, Queued, Distance
        <3>2. QueueOf(e) \in Seq(FrameOrNone) /\ Len(QueueOf(e)) = 0
            BY <3>1, QueueFacts
        <3> QED BY <3>2, EmptySeq
    <2> QED BY <2>1 DEF Queues
<1>4. Showing = NoFrame /\ Returning = {}
    BY EncodersAssumption DEF Showing, Returning, Init, Threads
<1> QED BY <1>1, <1>2, <1>3, <1>4, MapInit

\* The frame path (frame.c, the encoder loops and deliver_frame_to_stream) implements
\* FrameChannel: every exchanger passes its frames on in the order deliver_frame got
\* them, refuses the newest one alone and only when it is full, and new_frame gives out
\* free buffers alone.
THEOREM ChannelImplemented == Spec => ImplementsChannel
<1>1. Init => Channel!Init
    BY StartMaps
<1>2. Inv /\ [Next]_vars => [Channel!Next]_(Channel!vars)
    BY StepMaps
<1> QED BY <1>1, <1>2, Invariance, PTL DEF Spec, ImplementsChannel, Channel!Spec
=============================================================================
