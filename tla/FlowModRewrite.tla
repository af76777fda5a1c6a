--------------------------- MODULE FlowModRewrite ---------------------------
(***************************************************************************)
(* How an added flow loses its UEP tags (do_ofp_flowmod_processed): the    *)
(* match is copied without its UEP items and padded anew, the instruction  *)
(* moves up behind it, and its action list is copied without the tags.     *)
(* Offsets are relative to the match; the bytes before it stay.            *)
(***************************************************************************)
EXTENDS WireBytes, WireLayout

CONSTANTS
  FlowMods,   \* the messages that may come in
  FilterSize  \* bytes of the schedule's scratch buffer: 600 in the source

(* An item of the match, and an action with the length it says it has; set *)
(* tells a SET_FIELD action.                                               *)
Item   == [size : Nat, uep : BOOLEAN]
Action == [size : Nat, len : Nat, set : BOOLEAN, uep : BOOLEAN]
(* A flow mod has its items and its instructions, insts; apply tells an    *)
(* APPLY_ACTIONS instruction from the others, which carry no tags.         *)
Inst == [apply : BOOLEAN, actions : Seq(Action)]
FlowMod == [items : Seq(Item), insts : Seq(Inst)]

(* An item has a value; a tag is a SET_FIELD; actions come in 8 bytes.     *)
(* Nothing checks what an action says of its length: it may be 0.          *)
ASSUME FlowModsAssumption ==
  /\ FlowMods \subseteq FlowMod
  /\ \A f \in FlowMods :
       /\ \A i \in DOMAIN f.items : f.items[i].size > 4
       /\ \A j \in DOMAIN f.insts : \A i \in DOMAIN f.insts[j].actions :
            LET a == f.insts[j].actions[i] IN
            /\ a.size > 0 /\ a.size % 8 = 0 /\ (a.uep => a.set)
            /\ a.len \in {0, a.size}
  /\ FilterSize \in Nat

(* What comes before the match, before the items in it, and before the     *)
(* actions in an instruction.                                              *)
Fixed == Sizeof(ofp_header) + Sizeof(ofp13_flow_mod)
MatchStart == Offset(ofp_match, "oxm_fields")
InstStart == Offset(ofp_instruction_actions, "actions")
ASSUME LayoutAssumption == Fixed \in Nat /\ MatchStart = 4 /\ InstStart = 8

VARIABLES
  flow_mod,       \* the message as the controller sent it
  pc,             \* where do_ofp_flowmod_processed stands
  msg,            \* the message in the reader's buffer, from the match on
  header_length, match_length, inst_length,  \* its length fields
  filter_buf,     \* the schedule's scratch buffer
  new_len,        \* where the instructions begin now
  item, new_item, \* the walk: where it reads in msg, writes in filter_buf
  removed         \* how many bytes it has left out

fields == <<header_length, match_length, inst_length>>
walk == <<item, new_item, removed>>
vars == <<flow_mod, pc, msg, fields, filter_buf, new_len, walk>>

-----------------------------------------------------------------------------
(* A flow mod with the items and actions that are kept.                    *)

ItemName(i) == <<"item", i, 0>>
WireItems(f, Keep(_)) ==
  Wire(Len(f.items), LAMBDA i : Keep(f.items[i]), ItemName,
       LAMBDA i : f.items[i].size)

WireInst(f, j, Keep(_)) ==
  LET inst == f.insts[j] IN
  Bytes(<<"inst", j, 0>>, InstStart) \o
  Wire(Len(inst.actions), LAMBDA i : ~inst.apply \/ Keep(inst.actions[i]),
       LAMBDA i : <<"action", j, i>>, LAMBDA i : inst.actions[i].size)

(* The bytes from the match on and the length fields that go with them.    *)
OnWire(f, KeepItem(_), KeepAction(_)) ==
  LET items == WireItems(f, KeepItem)
      length == MatchStart + Len(items)
      insts == [j \in 1 .. Len(f.insts) |-> WireInst(f, j, KeepAction)]
      body  == Bytes(<<"match", 0, 0>>, MatchStart) \o items \o
               Zeros(Pad(length)) \o FlattenSeq(insts)
  IN  [header |-> Fixed + Len(body), match |-> length,
       inst |-> IF insts = <<>> THEN 0 ELSE Len(insts[1]), body |-> body]

Everything(x) == TRUE
Untagged(x) == ~x.uep
Received(f) == OnWire(f, Everything, Everything)
Expected(f) == OnWire(f, Untagged, Untagged)

-----------------------------------------------------------------------------
(* filter_buf keeps what earlier messages left in it.                      *)
Leftover == <<<<"left", 0, 0>>, 0>>

(* Mutant: the scratch buffer is not cleared. *)
ClearedNot(mem, n) == mem
(* memset(filter_buf, 0, n): what lies behind the n bytes stays. *)
Cleared(mem, n) == [i \in 1 .. FilterSize |-> IF i <= n THEN Zero ELSE mem[i]]

(* n bytes of it are more than it has; what the program does then is       *)
(* undefined, and the model stops there.                                   *)
Overruns(n) == n > FilterSize

(* The old match with its padding; ins points behind it.                   *)
total_length == Padded(MatchStart + Len(WireItems(flow_mod, Everything)))

Init ==
  /\ flow_mod \in FlowMods
  /\ pc = IF Overruns(total_length + 10) THEN "overrun" ELSE "match"
  /\ LET w == Received(flow_mod) IN
     /\ msg = w.body
     /\ header_length = w.header
     /\ match_length = w.match
     /\ inst_length = w.inst
  /\ filter_buf =
       Cleared([i \in 1 .. FilterSize |-> Leftover], total_length + 10)
  /\ new_len = 0
  /\ item = MatchStart /\ new_item = MatchStart /\ removed = 0

(* The element whose header is at offset p of msg. *)
ElementAt(p) == msg[p + 1][1]

(* The item at p; what is left of the padding reads as an empty item.      *)
ItemAt(p) ==
  IF ElementAt(p)[1] = "item" THEN flow_mod.items[ElementAt(p)[2]]
                              ELSE [size |-> 4, uep |-> FALSE]
ActionAt(p) == flow_mod.insts[ElementAt(p)[2]].actions[ElementAt(p)[3]]

(* One round of either walk over an element that says it has len bytes;    *)
(* the element's header is copied whatever it says.                        *)
Walk(len, leaveOut) ==
  /\ item' = item + len
  /\ IF leaveOut
     THEN removed' = removed + len /\ UNCHANGED <<new_item, filter_buf>>
     ELSE /\ filter_buf' = Copied(filter_buf, new_item,
                                  Slice(msg, item, IF len = 0 THEN 4 ELSE len))
          /\ new_item' = new_item + len
          /\ UNCHANGED removed

(* Mutant: the walk goes on to the end of the padding. *)
MatchItemPadding ==
  /\ pc = "match" /\ item < total_length
  /\ Walk(ItemAt(item).size, ItemAt(item).uep)
  /\ UNCHANGED <<flow_mod, pc, msg, fields, new_len>>
(* pack_mathch_except_type: the loop over the items. *)
MatchItem ==
  /\ pc = "match" /\ item < total_length - 4
  /\ Walk(ItemAt(item).size, ItemAt(item).uep)
  /\ UNCHANGED <<flow_mod, pc, msg, fields, new_len>>

(* The bytes the header is told were removed: nothing for the padding that *)
(* goes if the new match needs none.                                       *)
(* Mutant: the paddings are not compared. *)
except_lenPlain(new_match_length) == removed
except_len(new_match_length) ==
  IF Pad(new_match_length) = 0
  THEN removed
  ELSE removed - (Pad(new_match_length) - Pad(match_length))

(* Behind the loop: the lengths, the match and the first instruction.      *)
MatchDone ==
  /\ pc = "match" /\ item >= total_length - 4
  /\ LET new_match_length == match_length - removed
         len   == Padded(new_match_length)
         match == Bytes(<<"match", 0, 0>>, MatchStart) \o
                  Slice(filter_buf, MatchStart, len - MatchStart)
         has_inst == header_length - Fixed - total_length >= 2
         inst  == IF has_inst THEN Slice(msg, total_length, inst_length)
                              ELSE <<>>
     IN  /\ header_length' = header_length - except_len(new_match_length)
         /\ match_length' = new_match_length
         /\ new_len' = len
         /\ msg' = Copied(Copied(msg, 0, match), len, inst)
         /\ pc' = IF ~has_inst THEN "done"
                  ELSE IF Overruns(inst_length + 10) THEN "overrun"
                  ELSE IF flow_mod.insts[1].apply THEN "actions" ELSE "done"
         /\ item' = len + InstStart
         /\ filter_buf' = IF has_inst THEN Cleared(filter_buf, inst_length + 10)
                                      ELSE filter_buf
  /\ new_item' = 0 /\ removed' = 0
  /\ UNCHANGED <<flow_mod, inst_length>>

(* Mutant: an element that is left out is not stepped over. *)
ActionItemStuck ==
  /\ pc = "actions" /\ item < new_len + inst_length
  /\ Walk(IF ActionAt(item).set THEN 0 ELSE ActionAt(item).len, ActionAt(item).set)
  /\ UNCHANGED <<flow_mod, pc, msg, fields, new_len>>
(* copy_valid_action_to_buf: the loop over the first instruction's actions. *)
(* At an action that says it has no length it stays for ever.               *)
ActionItem ==
  /\ pc = "actions" /\ item < new_len + inst_length
  /\ Walk(ActionAt(item).len, ActionAt(item).set)
  /\ UNCHANGED <<flow_mod, pc, msg, fields, new_len>>

(* Mutant: the header keeps the length it had. *)
ActionsDoneHeader ==
  /\ pc = "actions" /\ item >= new_len + inst_length
  /\ inst_length' = inst_length - removed
  /\ msg' = IF removed > 0
            THEN Copied(msg, new_len + InstStart,
                        Slice(filter_buf, 0, inst_length' - 4))
            ELSE msg
  /\ pc' = "done"
  /\ UNCHANGED <<flow_mod, header_length, match_length, filter_buf, new_len, walk>>
(* Behind it: four bytes more are copied back than the list is long.       *)
ActionsDone ==
  /\ pc = "actions" /\ item >= new_len + inst_length
  /\ inst_length' = inst_length - removed
  /\ header_length' = header_length - removed
  /\ msg' = IF removed > 0
            THEN Copied(msg, new_len + InstStart,
                        Slice(filter_buf, 0, inst_length' - 4))
            ELSE msg
  /\ pc' = "done"
  /\ UNCHANGED <<flow_mod, match_length, filter_buf, new_len, walk>>

(* The rewritten message goes to its queue; the reader takes the next.     *)
Done == pc \in {"done", "overrun"} /\ UNCHANGED vars

Next == MatchItem \/ MatchDone \/ ActionItem \/ ActionsDone \/ Done

Spec == Init /\ [][Next]_vars

(* The reader thread runs. *)
FairSpec == Spec /\ WF_vars(Next)

-----------------------------------------------------------------------------
(* The types, and that no walk leaves its list or, with the header of one   *)
(* element more, the scratch buffer.                                        *)
TypeOK ==
  /\ flow_mod \in FlowMods
  /\ pc \in {"match", "actions", "done", "overrun"}
  /\ header_length \in Nat /\ match_length \in Nat /\ inst_length \in Nat
  /\ new_len \in Nat
  /\ item \in Nat /\ new_item \in Nat /\ removed \in Nat
  /\ Len(filter_buf) = FilterSize
  /\ pc = "match" => item <= total_length
  /\ pc = "actions" => item <= new_len + inst_length
  /\ pc \in {"match", "actions"} => new_item + 4 <= FilterSize

(* What the switch is sent. *)
Sent ==
  [header |-> header_length, match |-> match_length, inst |-> inst_length,
   body |-> Slice(msg, 0, header_length - Fixed)]

(***************************************************************************)
(* When the rewriting is right.  The padding: a match that loses its       *)
(* padding must not have had any.  The instructions: there is one at most, *)
(* or nothing moves and nothing was to be removed.  The actions: every     *)
(* SET_FIELD that is applied first is a tag.                               *)
(***************************************************************************)
PaddingFits(f) ==
  Pad(Expected(f).match) = 0 => Pad(Received(f).match) = 0
InstructionsFit(f) ==
  \/ Len(f.insts) <= 1
  \/ /\ Padded(Expected(f).match) = Padded(Received(f).match)
     /\ \A j \in 1 .. Len(f.insts) : f.insts[j].apply =>
          \A i \in 1 .. Len(f.insts[j].actions) : ~f.insts[j].actions[i].uep
OnlyTagsAreSet(f) ==
  f.insts # <<>> /\ f.insts[1].apply =>
    \A i \in 1 .. Len(f.insts[1].actions) :
      f.insts[1].actions[i].set => f.insts[1].actions[i].uep

(* The switch is sent the controller's message without its tags, with all   *)
(* lengths right, exactly if the three conditions hold; otherwise what it   *)
(* is sent differs.                                                         *)
RewriteRightExactlyWhen ==
  pc = "done" =>
    (Sent = Expected(flow_mod) <=>
       /\ PaddingFits(flow_mod)
       /\ InstructionsFit(flow_mod)
       /\ OnlyTagsAreSet(flow_mod))

(* When the walks end: the match and the first instruction, each with ten   *)
(* bytes to spare, fit the scratch buffer, and no action that is applied    *)
(* first says it has no length.                                             *)
Fits(f) ==
  LET w == Received(f) IN
  /\ Padded(w.match) + 10 <= FilterSize
  /\ f.insts # <<>> => w.inst + 10 <= FilterSize
Endless(f) ==
  /\ f.insts # <<>> /\ f.insts[1].apply
  /\ \E i \in 1 .. Len(f.insts[1].actions) : f.insts[1].actions[i].len = 0

(* A message gets through both walks exactly if it fits and has an end; a   *)
(* longer one overruns the scratch buffer (schedule.cpp:495, 527), and one  *)
(* action without a length keeps the reader for ever (schedule.cpp:331).    *)
RewriteEnds ==
  /\ Fits(flow_mod) /\ ~Endless(flow_mod) => <>(pc = "done")
  /\ ~Fits(flow_mod) \/ Endless(flow_mod) => [](pc # "done")

(* What an earlier message left in the scratch buffer never gets into this  *)
(* one, though more is copied back than the walks have written.             *)
NothingLeftOver == \A i \in 1 .. Len(msg) : msg[i] # Leftover

(* "the byte num be removed" (schedule.cpp:310): the header loses as many   *)
(* bytes as the padded match and the instruction.                           *)
LengthIsRight ==
  pc = "done" =>
    Received(flow_mod).header - header_length =
      (total_length - Padded(match_length)) +
      (Received(flow_mod).inst - inst_length)
=============================================================================
