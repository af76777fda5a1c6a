----------------------------- MODULE MCSchedule -----------------------------
(***************************************************************************)
(* Small sessions for TLC.  The messages of a session are 1 .. n; a tuple  *)
(* gives each its direction, kind and identity.  Three queues stand for    *)
(* the five unpaced ones of the source and a fourth, paced, for the other  *)
(* five, among them 7 (suspected FLOW_MODs) and 8 (suspected PACKET_OUTs). *)
(***************************************************************************)
EXTENDS ScheduleInv

(* The controller adds a flow, changes one, and adds one without           *)
(* instructions: the second shares the cookie of the first, which may be   *)
(* demoted to the paced queue, and the third may be left with it.          *)
FlowDir   == <<"SERVER", "SERVER", "SERVER">>
FlowKind  == <<"FLOW_MOD_ADD", "FLOW_MOD_OTHER", "FLOW_MOD_NO_INST">>
FlowIdent == <<1, 1, 2>>

(* Both directions: the controller asks for statistics and changes a flow  *)
(* whose cookie is the xid of the request; the switch replies.             *)
AskDir   == <<"SERVER", "SERVER", "CLIENT">>
AskKind  == <<"STATS_REQUEST", "FLOW_MOD_OTHER", "STATS_REPLY">>
AskIdent == <<1, 1, 1>>

(* The datapath announces itself and reports a packet.                     *)
AnnounceDir   == <<"CLIENT", "CLIENT">>
AnnounceKind  == <<"FEATURES_REPLY", "PACKET_IN">>
AnnounceIdent == <<0, 0>>
=============================================================================
