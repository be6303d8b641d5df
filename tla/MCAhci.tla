------------------------------- MODULE MCAhci -------------------------------
(***************************************************************************)
(* Instances of Ahci for TLC: two sectors, two buffers and two values are  *)
(* what it takes for a transfer to the wrong place or at the wrong time to *)
(* show; four slots, of which the driver uses one.                         *)
(***************************************************************************)
EXTENDS Ahci

CONSTANTS s1, s2, b1, b2, v1, v2

MCSectors == {s1, s2}
MCBuffers == {b1, b2}
MCValues  == {v1, v2}

OneSector == {s1}
OneBuffer == {b1}
=============================================================================
