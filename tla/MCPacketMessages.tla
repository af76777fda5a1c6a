-------------------------- MODULE MCPacketMessages --------------------------
(* Packets for TLC: actions of 8, 16 and 24 bytes, an ordinary SET_FIELD    *)
(* and a tag; matches with and without padding; discovery frames, others,   *)
(* and packets whose frame the switch has kept.                             *)
EXTENDS PacketMessages

ActionOf(type, uep) ==
  [size |-> IF uep THEN 24 ELSE Sizeof(ActionStruct(type)),
   set |-> type = ofp_action_type.OFPAT_SET_FIELD, uep |-> uep]
SomeActions ==
  {ActionOf(ofp_action_type.OFPAT_OUTPUT, FALSE),
   ActionOf(ofp_action_type.OFPAT_GROUP, FALSE),
   ActionOf(ofp_action_type.OFPAT_SET_FIELD, FALSE),
   ActionOf(ofp_action_type.OFPAT_SET_FIELD, TRUE)}

Frames == {[frame |-> 0, lldp |-> FALSE], [frame |-> 60, lldp |-> FALSE],
           [frame |-> 60, lldp |-> TRUE]}

SomePacketOuts ==
  {[actions |-> a, frame |-> f.frame, lldp |-> f.lldp] :
     a \in SeqOf(SomeActions, 2), f \in Frames}
SomePacketIns ==
  {[match |-> l, frame |-> f.frame, lldp |-> f.lldp] :
     l \in {4, 12, 16}, f \in Frames}
SomeOthers == {[length |-> 8], [length |-> 56]}
=============================================================================
