-------------------------- MODULE MCGatewaySnapshot --------------------------
(* Two snapshots that are accepted, one with health probes, and one of another *)
(* schema version.                                                             *)
EXTENDS GatewaySnapshot, TLC

CONSTANTS s1, s2, old, h1, h2, l1, l2
=============================================================================
