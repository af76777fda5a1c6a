-------------------------- MODULE MCPriorityManager --------------------------
(* Two UEPs, one of them that of the requests, and the absent one, as model *)
(* values for TLC.                                                          *)
EXTENDS PriorityManager

CONSTANTS none, sensor, requests
=============================================================================
