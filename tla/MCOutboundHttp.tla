--------------------------- MODULE MCOutboundHttp ---------------------------
(***************************************************************************)
(* Three calls: two that fail open the circuit, the third one was admitted *)
(* before that and comes back after it, or is the probe.                   *)
(***************************************************************************)
EXTENDS OutboundHttp

CONSTANTS c1, c2, c3

MCCall == {c1, c2, c3}
============================================================================
