--------------------------- MODULE MCNetworkGateway ---------------------------
(* The TLC instance of NetworkGateway. *)
EXTENDS NetworkGateway
==============================================================================
