--------------------------- MODULE MCFrameExchange ---------------------------
(* FrameExchange with one exchanger per encoder of the smallest sizes that    *)
(* wrap around, fill up and contend for the heap.                             *)
EXTENDS FrameExchange

CONSTANTS jpeg, alaw

\* A two-frame video and a one-frame audio exchanger: both fill, both wrap.
MCExSlots == [e \in Encoders |-> IF e = jpeg THEN 3 ELSE 2]
\* One-frame exchangers: a frame is dropped as soon as another is queued.
MCSmallExSlots == [e \in Encoders |-> 2]
=============================================================================
