--------------------------- MODULE MCNetworkRejoin ---------------------------
(* NetworkRejoin with four steps of the delay.                              *)
EXTENDS RejoinOutages
=============================================================================
