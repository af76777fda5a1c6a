----------------------------- MODULE WireLayout -----------------------------
(***************************************************************************)
(* The C structures of openflow_common.h that the program lays over a      *)
(* message, and the numbers it compares their fields with.  A structure is *)
(* the sequence of its fields; sizes and offsets follow from it by the     *)
(* rules of the ABI, so that they are the compiler's and not the protocol  *)
(* document's.  (The ofp_match and ofp_instruction inside the namespace    *)
(* are other structures, which the program does not use.)                  *)
(***************************************************************************)
EXTENDS Integers, SequencesExt

Field(name, size, align) == [name |-> name, size |-> size, align |-> align]
U8(name)  == Field(name, 1, 1)
U16(name) == Field(name, 2, 2)
U32(name) == Field(name, 4, 4)
U64(name) == Field(name, 8, 8)
(* "field name[n]"; n = 0 marks what follows the structure. *)
Array(field, n) == [field EXCEPT !.size = n * @]

AlignUp(n, align) == ((n + align - 1) \div align) * align
EndOf(struct) ==
  FoldLeft(LAMBDA at, f : AlignUp(at, f.align) + f.size, 0, struct)
Alignment(struct) == Max({1} \cup {struct[i].align : i \in DOMAIN struct})
Sizeof(struct) == AlignUp(EndOf(struct), Alignment(struct))
Offset(struct, name) ==
  LET i == CHOOSE i \in DOMAIN struct : struct[i].name = name
  IN  AlignUp(EndOf(SubSeq(struct, 1, i - 1)), struct[i].align)
Nested(name, struct) == Field(name, Sizeof(struct), Alignment(struct))
(* __attribute__((packed)) *)
Packed(struct) == [i \in DOMAIN struct |-> [struct[i] EXCEPT !.align = 1]]

-----------------------------------------------------------------------------
(* Messages.                                                               *)

ofp_header ==
  <<U8("version"), U8("type"), U16("length"), U32("xid"), Array(U8("body"), 0)>>

ofp_match ==
  <<U16("type"), U16("length"), Array(U8("oxm_fields"), 0), Array(U8("pad"), 4)>>

ofp_match_items ==
  Packed(<<U16("oxm_class"), U8("oxm_field_id"), U8("length"),
           Array(U8("value"), 0)>>)

(* What the program uses behind the header of a FLOW_MOD. *)
ofp13_flow_mod ==
  Packed(<<U64("cookie"), U64("cookie_mask"), U8("table_id"), U8("command"),
           U16("idle_timeout"), U16("hard_timeout"), U16("priority"),
           U32("buffer_id"), U32("out_port"), U32("out_group"), U16("flags"),
           Array(U8("pad"), 2), Array(U8("match"), 0)>>)

(* What the protocol has there. *)
ofp_flow_mod ==
  <<Nested("header", ofp_header), U64("cookie"), U64("cookie_mask"),
    U8("table_id"), U8("command"), U16("idle_timeout"), U16("hard_timeout"),
    U16("priority"), U32("buffer_id"), U32("out_port"), U32("out_group"),
    U16("flags"), Array(U8("pad"), 2), Nested("match", ofp_match)>>

ofp_packet_in ==
  <<Nested("header", ofp_header), U32("buffer_id"), U16("total_len"),
    U8("reason"), U8("table_id"), U64("cookie"), Nested("match", ofp_match)>>

ofp_packet_out ==
  <<Nested("header", ofp_header), U32("buffer_id"), U32("in_port"),
    U16("actions_len"), Array(U8("pad"), 6), Array(U8("actions"), 0)>>

-----------------------------------------------------------------------------
(* Instructions and actions.                                               *)

ofp_instruction == <<U16("type"), U16("len")>>
ofp_action_header == <<U16("type"), U16("len"), Array(U8("pad"), 4)>>

ofp_instruction_goto_table == ofp_instruction \o <<U8("table_id"), Array(U8("pad"), 3)>>
ofp_instruction_write_metadata ==
  ofp_instruction \o
  <<Array(U8("pad"), 4), U64("metadata"), U64("metadata_mask")>>
ofp_instruction_actions ==
  ofp_instruction \o
  <<Array(U8("pad"), 4), Array(Nested("actions", ofp_action_header), 0)>>
ofp_instruction_meter == ofp_instruction \o <<U32("meter_id")>>
ofp_instruction_experimenter ==
  ofp_instruction \o <<U32("experimenter"), Array(U8("body"), 0)>>

(* The first two fields are those of every action. *)
Action2 == SubSeq(ofp_action_header, 1, 2)
ofp_action_output ==
  Action2 \o <<U32("port"), U16("max_len"), Array(U8("pad"), 6)>>
ofp_action_group == Action2 \o <<U32("group_id")>>
ofp_action_set_queue == Action2 \o <<U32("queue_id")>>
ofp_action_mpls_ttl == Action2 \o <<U8("mpls_ttl"), Array(U8("pad"), 3)>>
ofp_action_nw_ttl == Action2 \o <<U8("nw_ttl"), Array(U8("pad"), 3)>>
ofp_action_push == Action2 \o <<U16("ethertype"), Array(U8("pad"), 2)>>
ofp_action_pop_mpls == Action2 \o <<U16("ethertype"), Array(U8("pad"), 2)>>
ofp_action_set_field == Action2 \o <<Array(U8("field"), 4)>>
ofp_action_experimenter_header ==
  Action2 \o <<U32("experimenter"), Array(U8("data"), 0)>>

-----------------------------------------------------------------------------
(* Numbers.                                                                *)

ofp_type ==
  [OFPT_HELLO |-> 0, OFPT_ERROR |-> 1, OFPT_ECHO_REQUEST |-> 2,
   OFPT_ECHO_REPLY |-> 3, OFPT_EXPERIMENTER |-> 4, OFPT_FEATURES_REQUEST |-> 5,
   OFPT_FEATURES_REPLY |-> 6, OFPT_GET_CONFIG_REQUEST |-> 7,
   OFPT_GET_CONFIG_REPLY |-> 8, OFPT_SET_CONFIG |-> 9, OFPT_PACKET_IN |-> 10,
   OFPT_FLOW_REMOVED |-> 11, OFPT_PORT_STATUS |-> 12, OFPT_PACKET_OUT |-> 13,
   OFPT_FLOW_MOD |-> 14, OFPT_GROUP_MOD |-> 15, OFPT_PORT_MOD |-> 16,
   OFPT_TABLE_MOD |-> 17, OFPT_STATS_REQUEST |-> 18, OFPT_STATS__REPLY |-> 19,
   OFPT_BARRIER_REQUEST |-> 20, OFPT_BARRIER_REPLY |-> 21,
   OFPT_QUEUE_GET_CONFIG_REQUEST |-> 22, OFPT_QUEUE_GET_CONFIG_REPLY |-> 23,
   OFPT_ROLE_REQUEST |-> 24, OFPT_ROLE_REPLY |-> 25,
   OFPT_GET_ASYNC_REQUEST |-> 26, OFPT_GET_ASYNC_REPLY |-> 27,
   OFPT_SET_ASYNC |-> 28, OFPT_METER_MOD |-> 29]

ofp_instruction_type ==
  [OFPIT_GOTO_TABLE |-> 1, OFPIT_WRITE_METADATA |-> 2, OFPIT_WRITE_ACTIONS |-> 3,
   OFPIT_APPLY_ACTIONS |-> 4, OFPIT_CLEAR_ACTIONS |-> 5, OFPIT_METER |-> 6,
   OFPIT_EXPERIMENTER |-> 65535]

ofp_action_type ==
  [OFPAT_OUTPUT |-> 0, OFPAT_COPY_TTL_OUT |-> 11, OFPAT_COPY_TTL_IN |-> 12,
   OFPAT_SET_MPLS_TTL |-> 15, OFPAT_DEC_MPLS_TTL |-> 16, OFPAT_PUSH_VLAN |-> 17,
   OFPAT_POP_VLAN |-> 18, OFPAT_PUSH_MPLS |-> 19, OFPAT_POP_MPLS |-> 20,
   OFPAT_SET_QUEUE |-> 21, OFPAT_GROUP |-> 22, OFPAT_SET_NW_TTL |-> 23,
   OFPAT_DEC_NW_TTL |-> 24, OFPAT_SET_FIELD |-> 25, OFPAT_PUSH_PBB |-> 26,
   OFPAT_POP_PBB |-> 27, OFPAT_EXPERIMENTER |-> 65535]

(* ntohs on the little-endian build. *)
ntohs(n) == (n % 256) * 256 + n \div 256

(* The constants the filters are called with; they are compared with       *)
(* fields in network order (schedule.cpp:409, 350).                        *)
filter_inst_type == 1024   \* 0x0400
filter_action_type == 6400 \* 0x1900

(* The structure each action has. *)
ActionStruct(type) ==
  CASE type = ofp_action_type.OFPAT_OUTPUT       -> ofp_action_output
    [] type = ofp_action_type.OFPAT_GROUP        -> ofp_action_group
    [] type = ofp_action_type.OFPAT_SET_QUEUE    -> ofp_action_set_queue
    [] type = ofp_action_type.OFPAT_SET_MPLS_TTL -> ofp_action_mpls_ttl
    [] type = ofp_action_type.OFPAT_SET_NW_TTL   -> ofp_action_nw_ttl
    [] type \in {ofp_action_type.OFPAT_PUSH_VLAN, ofp_action_type.OFPAT_PUSH_MPLS,
                 ofp_action_type.OFPAT_PUSH_PBB} -> ofp_action_push
    [] type = ofp_action_type.OFPAT_POP_MPLS     -> ofp_action_pop_mpls
    [] type = ofp_action_type.OFPAT_SET_FIELD    -> ofp_action_set_field
    [] type = ofp_action_type.OFPAT_EXPERIMENTER -> ofp_action_experimenter_header
    [] OTHER -> ofp_action_header

-----------------------------------------------------------------------------
(* The OFP_ASSERTs of the header; what the rewriting relies on besides:    *)
(* the packed FLOW_MOD ends where the match of the other one begins, and   *)
(* the filters' constants are APPLY_ACTIONS and SET_FIELD.                 *)
ASSUME BuildAssertions ==
  /\ Sizeof(ofp_header) = 8
  /\ Sizeof(ofp_match) = 8
  /\ Sizeof(ofp_packet_in) = 32
  /\ Sizeof(ofp_packet_out) = 24
  /\ Sizeof(ofp_flow_mod) = 56
  /\ Sizeof(ofp_instruction) = 4
  /\ Sizeof(ofp_instruction_write_metadata) = 24
  /\ \A s \in {ofp_instruction_goto_table, ofp_instruction_actions,
               ofp_instruction_meter, ofp_instruction_experimenter} : Sizeof(s) = 8
  /\ \A t \in 0 .. 27 :
       Sizeof(ActionStruct(t)) = IF t = ofp_action_type.OFPAT_OUTPUT THEN 16 ELSE 8

ASSUME RewritingAssumptions ==
  /\ Sizeof(ofp_header) + Sizeof(ofp13_flow_mod) = Offset(ofp_flow_mod, "match")
  /\ ntohs(filter_inst_type) = ofp_instruction_type.OFPIT_APPLY_ACTIONS
  /\ ntohs(filter_action_type) = ofp_action_type.OFPAT_SET_FIELD
=============================================================================
