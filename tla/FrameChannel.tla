----------------------------- MODULE FrameChannel -----------------------------
(***************************************************************************)
(* What the frame path promises, without rings, pipes, locks or counts: a  *)
(* fixed pool of buffers, and from every encoder to the main thread a      *)
(* bounded first-in first-out queue that refuses the newest frame when it  *)
(* is full.  A buffer is always in exactly one place.  FrameExchange       *)
(* implements this specification.                                          *)
(***************************************************************************)
EXTENDS Integers, Sequences

CONSTANTS
    Encoders,   \* the senders
    Frames,     \* the buffers
    NoFrame,    \* "no buffer"
    Capacity    \* the most frames each queue holds

VARIABLES
    free,       \* the buffers anybody may take
    filling,    \* the buffer each encoder works on, or NoFrame
    queue,      \* the frames sent and not yet received, oldest first
    showing,    \* the frame the main thread works on, or NoFrame
    returning   \* the buffers given up and on their way to the pool

vars == <<free, filling, queue, showing, returning>>

Init ==
    /\ free = Frames
    /\ filling = [e \in Encoders |-> NoFrame]
    /\ queue = [e \in Encoders |-> <<>>]
    /\ showing = NoFrame
    /\ returning = {}

Acquire(e) ==
    /\ filling[e] = NoFrame
    /\ \E f \in free :
         /\ filling' = [filling EXCEPT ![e] = f]
         /\ free' = free \ {f}
    /\ UNCHANGED <<queue, showing, returning>>

Send(e) ==
    /\ filling[e] # NoFrame
    /\ Len(queue[e]) < Capacity[e]
    /\ queue' = [queue EXCEPT ![e] = Append(@, filling[e])]
    /\ filling' = [filling EXCEPT ![e] = NoFrame]
    /\ UNCHANGED <<free, showing, returning>>

Refuse(e) ==
    /\ filling[e] # NoFrame
    /\ Len(queue[e]) = Capacity[e]
    /\ returning' = returning \cup {filling[e]}
    /\ filling' = [filling EXCEPT ![e] = NoFrame]
    /\ UNCHANGED <<free, queue, showing>>

Receive(e) ==
    /\ showing = NoFrame
    /\ queue[e] # <<>>
    /\ showing' = Head(queue[e])
    /\ queue' = [queue EXCEPT ![e] = Tail(@)]
    /\ UNCHANGED <<free, filling, returning>>

Finish ==
    /\ showing # NoFrame
    /\ returning' = returning \cup {showing}
    /\ showing' = NoFrame
    /\ UNCHANGED <<free, filling, queue>>

Return(f) ==
    /\ f \in returning
    /\ returning' = returning \ {f}
    /\ free' = free \cup {f}
    /\ UNCHANGED <<filling, queue, showing>>

Next ==
    \/ \E e \in Encoders : Acquire(e) \/ Send(e) \/ Refuse(e) \/ Receive(e)
    \/ Finish
    \/ \E f \in returning : Return(f)

Spec == Init /\ [][Next]_vars
=============================================================================
