---------------------------- MODULE MCRtpPackets ----------------------------
(* RtpPackets with small headers: frames of up to four packets, with lengths   *)
(* around every multiple of what a packet takes.                               *)
EXTENDS RtpPackets

MCLens == 0 .. 26
=============================================================================
