---------------------------- MODULE FrameExchange ----------------------------
(***************************************************************************)
(* The frame path of the RTSP server: encoder threads take buffers from    *)
(* one shared frame heap, fill them and pass them through a per-encoder    *)
(* exchanger (a ring of slots, a mutex and a pipe) to the main thread,     *)
(* which hands each frame to the waiting destinations of the stream and    *)
(* gives the buffer back to the heap.                                      *)
(*   frame.c         heap, reference counts, exchanger                     *)
(*   stream.c        deliver_frame_to_stream, set_waiting                  *)
(*   encoder-jpeg.c, encoder-alaw.c   the encoder threads                  *)
(*   event.c         the fd part of event_loop that calls exchanger_read   *)
(*                                                                         *)
(* Slots of a circular list are numbered from 0 in list order; "next" is   *)
(* the successor modulo the length.  A frame is named by the heap slot it  *)
(* was allocated for.  A critical section that cannot be observed half way *)
(* is one step; deliver_frame is two, because its pipe byte is visible to  *)
(* the main thread before the exchanger's mutex is released.               *)
(***************************************************************************)
EXTENDS Integers, FiniteSets

CONSTANTS
    Encoders,   \* the encoder threads, one stream and one exchanger each
    Main,       \* the thread that runs event_loop
    Dests,      \* the destinations in every stream's dest_list
    NFrames,    \* init_frame_heap's count
    ExSlots     \* new_exchanger's slots, per encoder

ASSUME EncodersAssumption == Main \notin Encoders
ASSUME NFramesAssumption == NFrames \in Nat \ {0}
ASSUME ExSlotsAssumption == ExSlots \in [Encoders -> Nat \ {0}]

Frames == 0 .. NFrames - 1
NoFrame == -1
FrameOrNone == Frames \cup {NoFrame}
Threads == Encoders \cup {Main}
Slots(e) == 0 .. ExSlots[e] - 1

\* The successor of slot i in a circular list of n slots.
SuccUnwrapped(i, n) == i + 1
Succ(i, n) == IF i = n - 1 THEN 0 ELSE i + 1

VARIABLES
    heap,       \* frame_slot.f of every slot of the frame heap
    take,       \* frame_heap_take
    put,        \* frame_heap_put
    heapHeld,   \* frame_heap_mutex is held by a thread that returned with it
    ref,        \* ref_count of every frame
    ring,       \* frame_slot.f of every slot of every exchanger
    slaveCur,   \* slave_cur of every exchanger
    masterRead, \* master_read of every exchanger
    exHeld,     \* the exchanger's mutex is held by its encoder
    pipe,       \* bytes written to the exchanger's pipe and not yet read
    pc,         \* where each thread is
    hand,       \* the frame each thread works on
    ready,      \* exchangers select reported and event_loop has yet to call
    current,    \* the exchanger exchanger_read works on; Main when none
    todo,       \* destinations deliver_frame_to_stream has yet to visit
    waiting,    \* stream_destination.waiting
    running     \* the encoder's running flag

heapVars == <<heap, take, put, heapHeld>>
ringVars == <<ring, slaveCur, masterRead, exHeld>>
loopVars == <<ready, current, todo>>
streamVars == <<waiting, running>>
vars == <<heapVars, ref, ringVars, pipe, pc, hand, loopVars, streamVars>>

EncoderPCs == {"poll", "alloc", "deliver", "placed", "unref", "put"}
MainPCs == {"select", "dispatch", "take", "fanout", "process", "drop", "put"}

\* The program starts here: a full heap, empty exchangers, nobody
\* listening (the configuration then starts the encoders by set_waiting).
Init ==
    /\ heap = [i \in Frames |-> i]
    /\ take = 0 /\ put = 0 /\ heapHeld = FALSE
    /\ ref = [f \in Frames |-> 0]
    /\ ring = [e \in Encoders |-> [i \in Slots(e) |-> NoFrame]]
    /\ slaveCur = [e \in Encoders |-> 0]
    /\ masterRead = [e \in Encoders |-> 0]
    /\ exHeld = [e \in Encoders |-> FALSE]
    /\ pipe = [e \in Encoders |-> 0]
    /\ pc = [t \in Threads |-> IF t = Main THEN "select" ELSE "poll"]
    /\ hand = [t \in Threads |-> NoFrame]
    /\ ready = {} /\ current = Main /\ todo = {}
    /\ waiting = [e \in Encoders |-> {}]
    /\ running = [e \in Encoders |-> FALSE]

-----------------------------------------------------------------------------
(* The frame heap and the reference counts (frame.c).                      *)

Goto(t, label) == pc' = [pc EXCEPT ![t] = label]

\* frame_heap_take moves to the next slot.
AdvanceTakeForgotten == UNCHANGED take
AdvanceTake == take' = Succ(take, NFrames)

\* The take slot no longer holds the frame.
EmptyTakeSlotForgotten == UNCHANGED heap
EmptyTakeSlot == heap' = [heap EXCEPT ![take] = NoFrame]

\* ref_frame.
RefFrameForgotten(f) == UNCHANGED ref
RefFrame(f) == ref' = [ref EXCEPT ![f] = @ + 1]

\* new_frame: the frame in the take slot with one reference, or NULL when the
\* slot is empty; the caller then goes back to its loop.
NewFrame(e) ==
    /\ pc[e] = "alloc"
    /\ ~heapHeld
    /\ IF heap[take] # NoFrame
         THEN /\ hand' = [hand EXCEPT ![e] = heap[take]]
              /\ ref' = [ref EXCEPT ![heap[take]] = 1]
              /\ EmptyTakeSlot
              /\ AdvanceTake
              /\ Goto(e, "deliver")
         ELSE /\ Goto(e, "poll")
              /\ UNCHANGED <<hand, ref, heap, take>>
    /\ UNCHANGED <<put, heapHeld, ringVars, pipe, loopVars, streamVars>>

\* The first half of unref_frame: the decrement, under the frame's mutex.  The
\* thread goes on to the heap when no reference is left, else to "back".
UnrefDecrementLate(t, back) ==
    /\ ref' = [ref EXCEPT ![hand[t]] = @ - 1]
    /\ Goto(t, IF ref[hand[t]] - 1 >= 0 THEN back ELSE "put")
UnrefDecrement(t, back) ==
    /\ ref' = [ref EXCEPT ![hand[t]] = @ - 1]
    /\ Goto(t, IF ref[hand[t]] - 1 > 0 THEN back ELSE "put")

\* The second half of unref_frame, under frame_heap_mutex: the frame goes to
\* the put slot.  A put slot that is not empty is logged ("Ack! There is a
\* frame at frame_heap_put!"), and that branch returns with the mutex held.
UnrefPut(t, back) ==
    /\ pc[t] = "put"
    /\ ~heapHeld
    /\ IF heap[put] # NoFrame
         THEN heapHeld' = TRUE /\ UNCHANGED <<heap, put>>
         ELSE /\ heap' = [heap EXCEPT ![put] = hand[t]]
              /\ put' = Succ(put, NFrames)
              /\ UNCHANGED heapHeld
    /\ hand' = [hand EXCEPT ![t] = NoFrame]
    /\ Goto(t, back)
    /\ UNCHANGED <<take, ref, ringVars, pipe, loopVars, streamVars>>

-----------------------------------------------------------------------------
(* An encoder thread (jpeg_loop, alaw_loop and deliver_frame).             *)

\* The loop found its running flag set, and captures and encodes a picture or
\* a block of samples.
EncoderPoll(e) ==
    /\ pc[e] = "poll"
    /\ running[e]
    /\ Goto(e, "alloc")
    /\ UNCHANGED <<heapVars, ref, ringVars, pipe, hand, loopVars, streamVars>>

\* The capture or the encoder failed, or the result is larger than a frame.
EncodeFails(e) ==
    /\ pc[e] = "alloc"
    /\ Goto(e, "poll")
    /\ UNCHANGED <<heapVars, ref, ringVars, pipe, hand, loopVars, streamVars>>

\* The test deliver_frame makes under the exchanger's mutex: one slot stays free.
ExchangerFullUnchecked(e) == FALSE
ExchangerFullOffByOne(e) == slaveCur[e] = masterRead[e]
ExchangerFull(e) == Succ(slaveCur[e], ExSlots[e]) = masterRead[e]

\* deliver_frame finds the exchanger full: it drops the frame.
DeliverDrop(e) ==
    /\ pc[e] = "deliver"
    /\ ~exHeld[e]
    /\ ExchangerFull(e)
    /\ Goto(e, "unref")
    /\ UNCHANGED <<heapVars, ref, ringVars, pipe, hand, loopVars, streamVars>>

\* deliver_frame up to the write: the mutex is taken, the frame is in its slot
\* and the byte in the pipe.
DeliverPlace(e) ==
    /\ pc[e] = "deliver"
    /\ ~exHeld[e]
    /\ ~ExchangerFull(e)
    /\ exHeld' = [exHeld EXCEPT ![e] = TRUE]
    /\ ring' = [ring EXCEPT ![e][slaveCur[e]] = hand[e]]
    /\ pipe' = [pipe EXCEPT ![e] = @ + 1]
    /\ Goto(e, "placed")
    /\ UNCHANGED <<heapVars, ref, slaveCur, masterRead, hand, loopVars, streamVars>>

\* The rest of deliver_frame: slave_cur moves on and the mutex is released.
DeliverAdvance(e) ==
    /\ pc[e] = "placed"
    /\ slaveCur' = [slaveCur EXCEPT ![e] = Succ(@, ExSlots[e])]
    /\ exHeld' = [exHeld EXCEPT ![e] = FALSE]
    /\ hand' = [hand EXCEPT ![e] = NoFrame]
    /\ Goto(e, "poll")
    /\ UNCHANGED <<heapVars, ref, ring, masterRead, pipe, loopVars, streamVars>>

\* unref_frame of a frame deliver_frame dropped.
EncoderUnref(e) ==
    /\ pc[e] = "unref"
    /\ UnrefDecrement(e, "poll")
    /\ UNCHANGED <<heapVars, ringVars, pipe, hand, loopVars, streamVars>>

Encoder(e) ==
    \/ EncoderPoll(e) \/ EncodeFails(e) \/ NewFrame(e)
    \/ DeliverDrop(e) \/ DeliverPlace(e) \/ DeliverAdvance(e)
    \/ EncoderUnref(e) \/ UnrefPut(e, "poll")

-----------------------------------------------------------------------------
(* The main thread: event_loop, exchanger_read, deliver_frame_to_stream    *)
(* and set_waiting.                                                        *)

\* The running flag after set_waiting turned a stream's waiting destinations from
\* "before" into "after": set_running is called when one starts to wait, or when
\* the last one stops.
RunningAfterIgnoringOthers(e, before, after) ==
    IF after = before THEN running[e] ELSE before \subseteq after
RunningAfter(e, before, after) ==
    IF after # before /\ before \subseteq after THEN TRUE
    ELSE IF after # before /\ after = {} THEN FALSE
    ELSE running[e]

\* set_waiting(dest, on) of every destination in ds (a set of pairs of a stream
\* and a destination of it), one after the other.
SetWaiting(ds, on) ==
    LET after(e) == IF on THEN waiting[e] \cup {d \in Dests : <<e, d>> \in ds}
                          ELSE {d \in waiting[e] : <<e, d>> \notin ds}
    IN  /\ waiting' = [e \in Encoders |-> after(e)]
        /\ running' = [e \in Encoders |-> RunningAfter(e, waiting[e], after(e))]

\* Another event handler (an RTSP request, a lost connection, a timer) starts or
\* stops destinations, between two callbacks of event_loop.
OtherHandler ==
    /\ pc[Main] \in {"select", "dispatch"}
    /\ \E ds \in SUBSET (Encoders \X Dests), on \in BOOLEAN : SetWaiting(ds, on)
    /\ UNCHANGED <<heapVars, ref, ringVars, pipe, pc, hand, loopVars>>

\* select reports every exchanger whose pipe is readable.
Select ==
    /\ pc[Main] = "select"
    /\ \E e \in Encoders : pipe[e] > 0
    /\ ready' = {e \in Encoders : pipe[e] > 0}
    /\ Goto(Main, "dispatch")
    /\ UNCHANGED <<heapVars, ref, ringVars, pipe, hand, current, todo, streamVars>>

\* event_loop calls exchanger_read for a reported exchanger, which reads one byte.
ExchangerReadByte(e) ==
    /\ pc[Main] = "dispatch"
    /\ e \in ready
    /\ pipe' = [pipe EXCEPT ![e] = @ - 1]
    /\ ready' = ready \ {e}
    /\ current' = e
    /\ Goto(Main, "take")
    /\ UNCHANGED <<heapVars, ref, ringVars, hand, todo, streamVars>>

\* Every reported exchanger was called: back to select.
EndOfPass ==
    /\ pc[Main] = "dispatch"
    /\ ready = {}
    /\ Goto(Main, "select")
    /\ UNCHANGED <<heapVars, ref, ringVars, pipe, hand, loopVars, streamVars>>

\* exchanger_read under the mutex: the frame at master_read.  An empty slot is
\* logged ("We lost a frame!") and master_read jumps to slave_cur.
ExchangerTake(e) ==
    /\ pc[Main] = "take"
    /\ current = e
    /\ ~exHeld[e]
    /\ ring' = [ring EXCEPT ![e][masterRead[e]] = NoFrame]
    /\ IF ring[e][masterRead[e]] = NoFrame
         THEN /\ masterRead' = [masterRead EXCEPT ![e] = slaveCur[e]]
              /\ Goto(Main, "dispatch")
              /\ current' = Main
              /\ UNCHANGED <<hand, todo>>
         ELSE /\ masterRead' = [masterRead EXCEPT ![e] = Succ(@, ExSlots[e])]
              /\ hand' = [hand EXCEPT ![Main] = ring[e][masterRead[e]]]
              /\ todo' = Dests
              /\ Goto(Main, "fanout")
              /\ UNCHANGED current
    /\ UNCHANGED <<heapVars, ref, slaveCur, exHeld, pipe, ready, streamVars>>

\* deliver_frame_to_stream at one destination: skipped unless it waits, else it
\* is given a reference of its own.
VisitDest(d) ==
    /\ pc[Main] = "fanout"
    /\ d \in todo
    /\ todo' = todo \ {d}
    /\ IF d \in waiting[current]
         THEN RefFrame(hand[Main]) /\ Goto(Main, "process")
         ELSE UNCHANGED <<ref, pc>>
    /\ UNCHANGED <<heapVars, ringVars, pipe, hand, ready, current, streamVars>>

\* process_frame: the packets are sent.  The first frame of a track, or an
\* endpoint torn down because sending failed, makes destinations stop waiting.
ProcessFrame ==
    /\ pc[Main] = "process"
    /\ \E ds \in SUBSET (Encoders \X Dests) : SetWaiting(ds, FALSE)
    /\ Goto(Main, "drop")
    /\ UNCHANGED <<heapVars, ref, ringVars, pipe, hand, loopVars>>

\* unref_frame at the end of process_frame: the destination's reference.
ProcessUnref ==
    /\ pc[Main] = "drop"
    /\ UnrefDecrement(Main, "fanout")
    /\ UNCHANGED <<heapVars, ringVars, pipe, hand, loopVars, streamVars>>

\* Every destination was visited: deliver_frame_to_stream drops its own reference.
StreamUnref ==
    /\ pc[Main] = "fanout"
    /\ todo = {}
    /\ UnrefDecrement(Main, "dispatch")
    /\ current' = Main
    /\ UNCHANGED <<heapVars, ringVars, pipe, hand, ready, todo, streamVars>>

MainLoop ==
    \/ Select \/ EndOfPass
    \/ \E e \in Encoders : ExchangerReadByte(e) \/ ExchangerTake(e)
    \/ \E d \in Dests : VisitDest(d)
    \/ ProcessFrame \/ ProcessUnref \/ StreamUnref
    \/ UnrefPut(Main, "dispatch")

Next ==
    \/ \E e \in Encoders : Encoder(e)
    \/ MainLoop
    \/ OtherHandler

\* Both kinds of thread keep running: encoders and event_loop are loops without
\* an exit, scheduled by the kernel.
Fairness ==
    /\ \A e \in Encoders : WF_vars(Encoder(e))
    /\ WF_vars(MainLoop)

Spec == Init /\ [][Next]_vars
LiveSpec == Spec /\ Fairness

-----------------------------------------------------------------------------
(* Properties.                                                             *)

TypeOK ==
    /\ heap \in [Frames -> FrameOrNone]
    /\ take \in Frames /\ put \in Frames /\ heapHeld \in BOOLEAN
    /\ ref \in [Frames -> Nat]
    /\ DOMAIN ring = Encoders
    /\ \A e \in Encoders : ring[e] \in [Slots(e) -> FrameOrNone]
    /\ DOMAIN slaveCur = Encoders /\ DOMAIN masterRead = Encoders
    /\ \A e \in Encoders : slaveCur[e] \in Slots(e) /\ masterRead[e] \in Slots(e)
    /\ exHeld \in [Encoders -> BOOLEAN]
    /\ pipe \in [Encoders -> Nat]
    /\ DOMAIN pc = Threads
    /\ \A e \in Encoders : pc[e] \in EncoderPCs
    /\ pc[Main] \in MainPCs
    /\ hand \in [Threads -> FrameOrNone]
    /\ ready \subseteq Encoders /\ current \in Threads /\ todo \subseteq Dests
    /\ waiting \in [Encoders -> SUBSET Dests]
    /\ running \in [Encoders -> BOOLEAN]

\* The number of frames between master_read and slave_cur.
Distance(a, b, n) == IF b >= a THEN b - a ELSE b - a + n
Queued(e) == Distance(masterRead[e], slaveCur[e], ExSlots[e])

InHeap(f) == \E i \in Frames : heap[i] = f
InRing(f) == \E e \in Encoders : \E i \in Slots(e) : ring[e][i] = f
\* A thread holds f; between the two halves of deliver_frame the slot holds it.
InHand(f) == \E t \in Threads : hand[t] = f /\ pc[t] # "placed"

\* unref_frame never finds a frame in the put slot: the branch that logs "Ack!
\* There is a frame at frame_heap_put!" and keeps the heap's mutex is dead code.
PutSlotFree ==
    /\ \A t \in Threads : pc[t] = "put" => heap[put] = NoFrame
    /\ ~heapHeld

\* exchanger_read never logs "We lost a frame!": whenever it has read a byte,
\* the slot at master_read holds a frame.
NoLostFrame ==
    pc[Main] = "take" => ring[current][masterRead[current]] # NoFrame

\* The pipe carries one byte per queued frame, also while a byte was read whose
\* frame was not yet taken or a frame was placed whose slot was not yet passed;
\* so the pipe never fills and deliver_frame never blocks in write with the
\* exchanger's mutex held.
WakeupPerFrame ==
    \A e \in Encoders :
      /\ pipe[e] + (IF pc[Main] = "take" /\ current = e THEN 1 ELSE 0)
           = Queued(e) + (IF pc[e] = "placed" THEN 1 ELSE 0)
      /\ pipe[e] < ExSlots[e]

\* No buffer is leaked: every frame is in the heap, in an exchanger or in the
\* hands of a thread, whatever was dropped on the way.
NoFrameLeaked == \A f \in Frames : InHeap(f) \/ InRing(f) \/ InHand(f)

\* No buffer is in two places: an encoder never fills a frame that is queued, is
\* being sent or is free for another encoder to take.
NoFrameShared ==
    /\ \A i, j \in Frames : heap[i] = heap[j] /\ heap[i] # NoFrame => i = j
    /\ \A e1, e2 \in Encoders : \A i \in Slots(e1), j \in Slots(e2) :
         ring[e1][i] = ring[e2][j] /\ ring[e1][i] # NoFrame => e1 = e2 /\ i = j
    /\ \A t1, t2 \in Threads : hand[t1] = hand[t2] /\ hand[t1] # NoFrame => t1 = t2
    /\ \A f \in Frames : ~(InHeap(f) /\ InRing(f)) /\ ~(InHeap(f) /\ InHand(f))
                         /\ ~(InRing(f) /\ InHand(f))

\* A frame's ref_count is the number of its holders: none in the heap, one on the
\* way, two while a destination processes it.
RefCountsHolders ==
    \A f \in Frames :
      ref[f] = IF InHeap(f) \/ (\E t \in Threads : hand[t] = f /\ pc[t] = "put") THEN 0
               ELSE IF hand[Main] = f /\ pc[Main] \in {"process", "drop"} THEN 2
               ELSE 1

\* An encoder is told to run exactly while a destination of its stream waits.
EncoderRunsIffAwaited ==
    \A e \in Encoders : running[e] <=> waiting[e] # {}

\* Every buffer comes back to the heap again and again: no frame is stuck in an
\* exchanger or with a thread, however encoders and main thread interleave.
EveryFrameReturns == \A f \in Frames : []<>InHeap(f)

-----------------------------------------------------------------------------
(* Refinement: the frame path implements the bounded queue of FrameChannel. *)

\* The queued frames of an exchanger from master_read up to slave_cur.
QueueOf(e) ==
    [k \in 1 .. Queued(e) |->
        ring[e][IF masterRead[e] + k - 1 < ExSlots[e]
                  THEN masterRead[e] + k - 1
                  ELSE masterRead[e] + k - 1 - ExSlots[e]]]

Channel == INSTANCE FrameChannel WITH
    Capacity <- [e \in Encoders |-> ExSlots[e] - 1],
    free <- {f \in Frames : InHeap(f)},
    filling <- [e \in Encoders |->
                  IF pc[e] \in {"deliver", "placed"} THEN hand[e] ELSE NoFrame],
    queue <- [e \in Encoders |-> QueueOf(e)],
    showing <- IF pc[Main] \in {"fanout", "process", "drop"} THEN hand[Main] ELSE NoFrame,
    returning <- {f \in Frames : \E t \in Threads : hand[t] = f /\ pc[t] \in {"unref", "put"}}

\* The detailed frame path implements FrameChannel: frames come out of every
\* exchanger in the order they were delivered, only the newest is refused and
\* only by a full exchanger, and only a free buffer is taken.
ImplementsChannel == Channel!Spec
=============================================================================
