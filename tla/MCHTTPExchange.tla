--------------------------- MODULE MCHTTPExchange ---------------------------
(* HTTPExchange for TLC: its state space is small as it is. *)
EXTENDS HTTPExchange
=============================================================================
