-------------------------- MODULE MCFlowModRewrite --------------------------
(* Flow mods for TLC: items of the sizes of ip_proto, eth_type and in_port, *)
(* the UEP item, output and SET_FIELD actions, a UEP tag and actions that   *)
(* say they have no length; a scratch buffer that the longest overrun.      *)
EXTENDS FlowModRewrite

MatchItemOf(size, uep) == [size |-> size, uep |-> uep]
SomeItems == {MatchItemOf(5, FALSE), MatchItemOf(6, FALSE), MatchItemOf(8, FALSE),
              MatchItemOf(20, TRUE)}

ActionOf(size, set, uep) == [size |-> size, len |-> size, set |-> set, uep |-> uep]
Output == ActionOf(Sizeof(ofp_action_output), FALSE, FALSE)
SetField == ActionOf(16, TRUE, FALSE)
Tag == ActionOf(24, TRUE, TRUE)
NoLength(action) == [action EXCEPT !.len = 0]
Apply(actions) == [apply |-> TRUE, actions |-> actions]
GotoTable == [apply |-> FALSE, actions |-> <<>>]

Applies ==
  {Apply(a) : a \in SeqOf({Output, SetField, Tag}, 2) \cup
                    {<<NoLength(Output)>>, <<Tag, NoLength(Tag)>>,
                     <<Output, NoLength(Output)>>}}
Firsts == {Apply(a) : a \in SeqOf({Output, SetField, Tag}, 1)}
Seconds == {GotoTable, Apply(<<Output>>), Apply(<<Tag>>)}

Flow(items, insts) == [items |-> items, insts |-> insts]
AllFlowMods ==
  {Flow(i, <<>>) : i \in SeqOf(SomeItems, 3)} \cup
  {Flow(i, <<a>>) : i \in SeqOf(SomeItems, 2), a \in Applies \cup {GotoTable}} \cup
  {Flow(i, <<a, b>>) : i \in SeqOf(SomeItems, 2),
                          a \in Firsts \cup {GotoTable}, b \in Seconds}

(* eth_type, vlan_vid and the UEP item: 36 bytes that are padded become 16  *)
(* that are not.                                                           *)
PaddingFlowMods ==
  {Flow(<<MatchItemOf(6, FALSE), MatchItemOf(6, FALSE), MatchItemOf(20, TRUE)>>,
           <<Apply(<<Output>>)>>)}
=============================================================================
