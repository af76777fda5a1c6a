---------------------------- MODULE OFPMessages ----------------------------
(***************************************************************************)
(* The OpenFlow messages of one tunnelled session and what getOFPMsgArg    *)
(* (schedule.cpp) derives from a message: the queue it goes to and the     *)
(* identity its completion is reported under.  Payloads are abstracted: a  *)
(* message is a constant with a direction, a kind and an identity (the     *)
(* cookie of a FLOW_MOD, the xid of the others).                           *)
(***************************************************************************)
EXTENDS Integers, FiniteSets

CONSTANTS
  Schedules,           \* the Schedule objects modelled, by name
  Msg,                 \* the messages that may arrive during the session
  Dir, Kind, Ident,    \* direction, kind and cookie/xid of each message
  Idents,              \* the identities in play; 0 is the zero cookie or xid
  queue_num,           \* queues per Schedule: 10 in the source
  FirstPaced,          \* queues from here on have a positive interval: 5
  FLOW_MOD_QUEUE_2_ID, \* where FLOW_MODs of a suspected UEP go: 7
  PO_QUEUE_2_ID,       \* where PACKET_OUTs of a suspected UEP go: 8
  GarbageQids,         \* values an unassigned arg.qid (uint8_t) may hold
  GarbageIdents        \* values an unassigned arg.identify may hold

(* The queue ids that are the same in every instance. *)
IMPORTANT_QUEUE_ID          == 0
LLDP_QUEUE_ID               == 0
MULTI_PART_REQUEST_QUEUE_ID == 0
PI_QUEUE_ID                 == 1
MULTI_PART_REPLY_QUEUE_ID   == 1
FLOW_MOD_QUEUE_1_ID         == 1
PO_QUEUE_1_ID               == 2

Queues == 0 .. queue_num - 1

(* Where "for (i = 0; i < queue_num; ++i)" ends. *)
LastQueue == queue_num - 1

FlowMods == {"FLOW_MOD_ADD", "FLOW_MOD_NO_INST", "FLOW_MOD_OTHER"}
Lldp     == {"PACKET_IN_LLDP", "PACKET_OUT_LLDP"}
Kinds    == FlowMods \cup Lldp \cup
            {"PACKET_IN", "PACKET_OUT", "STATS_REQUEST", "STATS_REPLY",
             "FEATURES_REPLY", "OTHER"}

(* Mutant: a schedule takes itself for the other one. *)
OtherIsSelf(d) == d
Other(d) == IF d = "CLIENT" THEN "SERVER" ELSE "CLIENT"

(* isSWToControl: every schedule but the one named SERVER. *)
SWToControl(d) == d # "SERVER"

ASSUME ConstantsAssumption ==
  /\ Schedules \subseteq {"CLIENT", "SERVER"}
  /\ IsFiniteSet(Msg)
  /\ Idents \subseteq Nat /\ 0 \in Idents
  /\ \A m \in Msg : Dir[m] \in Schedules /\ Kind[m] \in Kinds
                                        /\ Ident[m] \in Idents
  /\ \A m \in Msg : Kind[m] \in {"STATS_REPLY", "FEATURES_REPLY"}
                      => Other(Dir[m]) \in Schedules

ASSUME QueueAssumption ==
  /\ queue_num \in Nat /\ FirstPaced \in 3 .. queue_num
  /\ FLOW_MOD_QUEUE_2_ID \in Queues /\ PO_QUEUE_2_ID \in Queues
  /\ GarbageQids \subseteq 0 .. 255 /\ GarbageIdents \subseteq Idents

(***************************************************************************)
(* The queues getOFPMsgArg may choose.  For a FLOW_MOD that adds a flow    *)
(* and a PACKET_OUT, the choice depends on the UEP statistics, which this  *)
(* module leaves open.  Nothing assigns arg.qid for a FEATURES_REPLY nor   *)
(* for an added flow without instructions: any leftover value is used.     *)
(***************************************************************************)
QueueChoice(m) ==
  CASE Kind[m] = "PACKET_IN"    -> {PI_QUEUE_ID}
    [] Kind[m] = "STATS_REPLY"  -> {MULTI_PART_REPLY_QUEUE_ID}
    [] Kind[m] = "STATS_REQUEST" -> {MULTI_PART_REQUEST_QUEUE_ID}
    [] Kind[m] \in Lldp         -> {LLDP_QUEUE_ID}
    [] Kind[m] = "FLOW_MOD_ADD" -> {FLOW_MOD_QUEUE_1_ID, FLOW_MOD_QUEUE_2_ID}
    [] Kind[m] = "PACKET_OUT"   ->
         {IMPORTANT_QUEUE_ID, PO_QUEUE_1_ID, PO_QUEUE_2_ID}
    [] Kind[m] \in {"FEATURES_REPLY", "FLOW_MOD_NO_INST"} -> GarbageQids
    [] OTHER -> {IMPORTANT_QUEUE_ID}

(* The identity stored in the OFP_Msg; unassigned for the remaining kinds. *)
IdentChoice(m) ==
  IF Kind[m] \in Lldp \cup {"FLOW_MOD_ADD", "FLOW_MOD_OTHER",
                            "STATS_REQUEST", "STATS_REPLY"}
  THEN {Ident[m]}
  ELSE GarbageIdents

(* Kinds whose completion msgNeedNoTime leaves to a response, unless the   *)
(* identity is 0.                                                          *)
Acknowledged == FlowMods \cup {"STATS_REQUEST"}

(* arg.max_wait_time; nothing decrements it after putMessage. *)
MaxWaitTime(m) == IF Kind[m] \in Lldp THEN 0 ELSE 1

(* putMessage overwrites the computed priority with 1. *)
Priority(m) == 1

(* Mutant: equal priorities are replaced, so that a queue becomes a stack. *)
LessOrEqualPriority(m, n) ==
  /\ ~(MaxWaitTime(m) <= 0 /\ MaxWaitTime(n) > 0)
  /\ Priority(m) <= Priority(n)
(* lessPriority(t1, t2): t2 is preferred to t1. *)
LessPriority(m, n) ==
  /\ ~(MaxWaitTime(m) <= 0 /\ MaxWaitTime(n) > 0)
  /\ IF MaxWaitTime(m) <= 0 /\ MaxWaitTime(n) <= 0
     THEN MaxWaitTime(m) > MaxWaitTime(n)
     ELSE Priority(m) < Priority(n)
=============================================================================
