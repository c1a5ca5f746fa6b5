--------------------------- MODULE MCGatewayEvents ---------------------------
(* GatewayEvents on a small instance. *)
EXTENDS GatewayEvents
=============================================================================
