--------------------------- MODULE PacketMessages ---------------------------
(***************************************************************************)
(* What getOFPMsgArg does with PACKET_OUTs and PACKET_INs: a PACKET_OUT    *)
(* loses its UEP tags and its frame moves up behind the actions that are   *)
(* left (do_ofp_packetout_processed); both are classed by the ether type   *)
(* of the frame they carry (do_ofp_packetin_processed).                    *)
(*                                                                         *)
(* Each reader thread keeps one buffer (read_client's and read_server's    *)
(* buf) and never clears it: a message is laid over what the earlier ones  *)
(* left there, and a message without a frame has their bytes behind it, or *)
(* bytes of the thread's stack that nothing has written yet.               *)
(*                                                                         *)
(* An action that says it has no length, and a list that does not fit the  *)
(* scratch buffer, do here what they do to a FLOW_MOD (FlowModRewrite);    *)
(* this module assumes neither.                                            *)
(***************************************************************************)
EXTENDS WireBytes, WireLayout, FiniteSets

CONSTANTS
  PacketOuts,  \* the PACKET_OUTs, PACKET_INs and other messages that may
  PacketIns,   \* come in
  Others,
  BufSize,     \* the size of a reader's buffer: 65539 in the source
  FilterSize,  \* bytes of the schedule's scratch buffer: 600 in the source
  MaxMessages  \* how many messages come in

(* frame: the length of the frame carried, 0 if the switch has buffered it; *)
(* lldp: whether it is a discovery frame; match: the length of the match.   *)
Action    == [size : Nat, set : BOOLEAN, uep : BOOLEAN]
PacketOut == [actions : Seq(Action), frame : Nat, lldp : BOOLEAN]
PacketIn  == [match : Nat, frame : Nat, lldp : BOOLEAN]
Other     == [length : Nat]

ASSUME MessagesAssumption ==
  /\ PacketOuts \subseteq PacketOut /\ PacketIns \subseteq PacketIn
  /\ Others \subseteq Other
  /\ \A m \in PacketOuts : \A i \in DOMAIN m.actions :
       LET a == m.actions[i] IN
       a.size > 0 /\ a.size % 8 = 0 /\ (a.uep => a.set)
  /\ \A m \in PacketIns : m.match >= Offset(ofp_match, "oxm_fields")
  /\ BufSize \in Nat /\ FilterSize \in Nat /\ MaxMessages \in Nat

Directions == {"CLIENT", "SERVER"}
(* An Ethernet header, and where its type is. *)
EthHeader == 14
TypeAt == 12

ActionsAt == Offset(ofp_packet_out, "actions")
MatchAt   == Offset(ofp_packet_in, "match")
FramePad  == 2  \* pad_len, between a PACKET_IN's match and its frame

(* schedule.h:84-93 *)
IMPORTANT_QUEUE_ID == 0
LLDP_QUEUE_ID == 0
PI_QUEUE_ID == 1
PO_QUEUE_1_ID == 2
PO_QUEUE_2_ID == 8

VARIABLES
  buf,            \* the readers' buffers
  header_length,  \* the length fields of the message in hand
  actions_len,
  arg,            \* what getOFPMsgArg returns for it
  last,           \* history: the message in hand, as it was written
  count           \* history: how many messages have come in
vars == <<buf, header_length, actions_len, arg, last, count>>

None == [type |-> ofp_type.OFPT_HELLO]

(* A queue, whether identify is the xid, and max_wait_time. *)
Arg(qid, xid, wait) == [qid |-> qid, xid |-> xid, max_wait_time |-> wait]
LldpArg == Arg(LLDP_QUEUE_ID, TRUE, 0)

Init ==
  /\ buf = [d \in Directions |-> Bytes(<<"stack", 0, 0>>, BufSize)]
  /\ header_length = 0 /\ actions_len = 0
  /\ arg = Arg(IMPORTANT_QUEUE_ID, FALSE, 1)
  /\ last = None
  /\ count = 0

-----------------------------------------------------------------------------
(* On the wire.  Bytes are told apart by the number of their message.      *)

FrameBytes(m, n) == Bytes(<<IF m.lldp THEN "lldp" ELSE "frame", n, 0>>, m.frame)
ActionBytes(m, n, Keep(_)) ==
  Wire(Len(m.actions), LAMBDA i : Keep(m.actions[i]),
       LAMBDA i : <<"action", n, i>>, LAMBDA i : m.actions[i].size)
OutBytes(m, n, Keep(_)) ==
  Bytes(<<"header", n, 0>>, ActionsAt) \o ActionBytes(m, n, Keep) \o FrameBytes(m, n)
InBytes(m, n) ==
  Bytes(<<"header", n, 0>>, MatchAt + m.match) \o Zeros(Pad(m.match) + FramePad)
  \o FrameBytes(m, n)

Everything(a) == TRUE
Untagged(a) == ~a.uep
NotSet(a) == ~a.set

(* What the compiler makes of the structures' fields. *)
ASSUME LayoutAssumption ==
  /\ ActionsAt \in Nat /\ MatchAt \in Nat
  /\ Offset(ofp_match, "oxm_fields") \in Nat
(* A length field has 16 bits, and the buffer is larger than it can say;   *)
(* the scratch buffer is not, and holds the actions that are kept.         *)
ASSUME BufferAssumption ==
  /\ \A n \in 1 .. MaxMessages :
       /\ \A m \in PacketOuts :
            /\ Len(OutBytes(m, n, Everything)) <= BufSize
            /\ Len(ActionBytes(m, n, NotSet)) <= FilterSize
       /\ \A m \in PacketIns : Len(InBytes(m, n)) <= BufSize
  /\ \A m \in Others : m.length <= BufSize

(* Mutant: the rest of the buffer moves. *)
OverlaidShifted(mem, bytes) == bytes \o SubSeq(mem, Len(bytes), Len(mem))
(* read_ofp_msg lays the message over the start of the buffer. *)
Overlaid(mem, bytes) ==
  bytes \o SubSeq(mem, Len(bytes) + 1, Len(mem))

(* "e_type == LLDP_TYPE" for a frame at eth_data, wherever that is: the     *)
(* outcomes.  The type field of a frame tells what the frame is; any other  *)
(* two bytes may have that value, whatever they once belonged to.           *)
LldpOutcomes(mem, eth_data) ==
  LET type == Slice(mem, eth_data + TypeAt, 2)
      frame == type[1][1]
  IN  IF /\ frame[1] \in {"lldp", "frame"}
         /\ \A i \in 1 .. 2 : type[i] = <<frame, TypeAt + i>>
      THEN {frame[1] = "lldp"} ELSE BOOLEAN

-----------------------------------------------------------------------------
(* Mutant: the frame stays where it was. *)
KickedInPlace(mem, original_list, original_data, list) ==
  Copied(mem, ActionsAt, list)
(* The copies back into the message: the list, then the frame behind it.   *)
Kicked(mem, original_list, original_data, list) ==
  Copied(Copied(mem, ActionsAt, list), ActionsAt + Len(list),
         Slice(mem, ActionsAt + original_list, original_data))

(* Mutant: the frame is looked for behind the list as it was. *)
eth_dataOld(original_list, new_list) == ActionsAt + original_list
(* Where the frame begins once the list is filtered. *)
eth_data(original_list, new_list) == ActionsAt + new_list

(* do_ofp_packetout_processed, in the reader of the SERVER direction. *)
DoPacketOut(m) ==
  LET n     == count + 1
      mem   == Overlaid(buf["SERVER"], OutBytes(m, n, Everything))
      length == Len(OutBytes(m, n, Everything))
      original_list == Len(ActionBytes(m, n, Everything))
      original_data == length - original_list - ActionsAt
      list  == ActionBytes(m, n, NotSet)   \* copy_valid_action_to_buf
      filter_len == original_list - Len(list)
      new_mem == IF filter_len > 0
                 THEN Kicked(mem, original_list, original_data, list) ELSE mem
  IN  /\ buf' = [buf EXCEPT !["SERVER"] = new_mem]
      /\ header_length' = length - filter_len
      /\ actions_len' = Len(list)
      /\ \E qid \in IF filter_len > 0 THEN {PO_QUEUE_1_ID, PO_QUEUE_2_ID}
                                      ELSE {IMPORTANT_QUEUE_ID},
            lldp \in LldpOutcomes(new_mem, eth_data(original_list, Len(list))) :
           arg' = IF lldp THEN LldpArg ELSE Arg(qid, FALSE, 1)
      /\ last' = [type |-> ofp_type.OFPT_PACKET_OUT, msg |-> m]

(* Mutant: the match is not padded. *)
getMatchLenthPlain(m) == m.match
getMatchLenth(m) == Padded(m.match)

(* do_ofp_packetin_processed, in the reader of the CLIENT direction. *)
DoPacketIn(m) ==
  LET bytes == InBytes(m, count + 1)
      mem == Overlaid(buf["CLIENT"], bytes)
      frame_at == MatchAt + getMatchLenth(m) + FramePad
  IN  /\ buf' = [buf EXCEPT !["CLIENT"] = mem]
      /\ header_length' = Len(bytes)
      /\ actions_len' = 0
      /\ \E lldp \in LldpOutcomes(mem, frame_at) :
           arg' = IF lldp THEN LldpArg ELSE Arg(PI_QUEUE_ID, FALSE, 1)
      /\ last' = [type |-> ofp_type.OFPT_PACKET_IN, msg |-> m]

(* Any other message: all that matters here is that it covers the buffer's *)
(* start.                                                                  *)
DoOther(d, m) ==
  /\ buf' = [buf EXCEPT ![d] =
               Overlaid(@, Bytes(<<"header", count + 1, 0>>, m.length))]
  /\ header_length' = m.length
  /\ actions_len' = 0
  /\ arg' = Arg(IMPORTANT_QUEUE_ID, FALSE, 1)
  /\ last' = [type |-> ofp_type.OFPT_ECHO_REQUEST, msg |-> m]

Next ==
  /\ count < MaxMessages /\ count' = count + 1
  /\ \/ \E m \in PacketOuts : DoPacketOut(m)
     \/ \E m \in PacketIns : DoPacketIn(m)
     \/ \E d \in Directions, m \in Others : DoOther(d, m)

Spec == Init /\ [][Next]_vars

-----------------------------------------------------------------------------
(* The types, and that a buffer keeps its size and a message fits it.      *)
TypeOK ==
  /\ DOMAIN buf = Directions
  /\ \A d \in Directions : Len(buf[d]) = BufSize
  /\ header_length \in 0 .. BufSize /\ actions_len \in Nat
  /\ arg.qid \in {IMPORTANT_QUEUE_ID, PI_QUEUE_ID, PO_QUEUE_1_ID, PO_QUEUE_2_ID}
  /\ arg.xid \in BOOLEAN /\ arg.max_wait_time \in {0, 1}
  /\ count \in 0 .. MaxMessages

OnlyTagsAreSet(m) ==
  \A i \in DOMAIN m.actions : m.actions[i].set => m.actions[i].uep

(* The switch is sent the PACKET_OUT without its tags and with both lengths *)
(* right, the frame whole behind the actions, exactly if every SET_FIELD    *)
(* is a tag; a PACKET_OUT that sets an ordinary field loses that action     *)
(* (schedule.cpp:350).                                                      *)
PacketOutRightExactlyWhen ==
  last.type = ofp_type.OFPT_PACKET_OUT =>
    LET m == last.msg
        expected == OutBytes(m, count, Untagged)
    IN  (/\ header_length = Len(expected)
         /\ actions_len = Len(ActionBytes(m, count, Untagged))
         /\ Slice(buf["SERVER"], 0, header_length) = expected)
        <=> OnlyTagsAreSet(m)

(* A message that carries a frame is classed by that frame, whatever was    *)
(* filtered before it and whatever the buffer holds: LLDP goes first, under *)
(* its xid, and nothing else does (schedule.cpp:617, 641).  Of one that     *)
(* carries none nothing is said: the bytes behind it class it.              *)
ClassedByFrame ==
  /\ last.type \in {ofp_type.OFPT_PACKET_OUT, ofp_type.OFPT_PACKET_IN}
  /\ last.msg.frame >= EthHeader
  => (arg = LldpArg <=> last.msg.lldp)
=============================================================================
