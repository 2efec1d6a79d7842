---------------------------- MODULE MCGatewayNet ----------------------------
(* GatewayNet for TLC.                                                      *)
EXTENDS GatewayNet
=============================================================================
