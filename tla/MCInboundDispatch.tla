------------------------- MODULE MCInboundDispatch -------------------------
(* Bounded instances of InboundDispatch for TLC. *)
EXTENDS InboundDispatch, TLC
=============================================================================
