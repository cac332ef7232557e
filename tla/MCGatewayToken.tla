---------------------------- MODULE MCGatewayToken ----------------------------
(***************************************************************************)
(* GatewayToken for TLC.                                                   *)
(***************************************************************************)
EXTENDS GatewayToken
====
