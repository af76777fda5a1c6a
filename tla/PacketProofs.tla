---------------------------- MODULE PacketProofs ----------------------------
(***************************************************************************)
(* Proofs about PACKET_OUTs and PACKET_INs: for any messages, any numbers  *)
(* of actions and lengths, and any number of messages in either direction. *)
(***************************************************************************)
EXTENDS PacketMessages, WireProofs

(* The bytes a buffer may hold. *)
Tags == {"stack", "zero", "header", "action", "frame", "lldp"}
Octet == (Tags \X Nat \X Nat) \X Nat

LEMMA OctetFacts == Zero \in Octet
BY DEF Octet, Tags, Zero

-----------------------------------------------------------------------------
(* The action lists.                                                       *)

(* The actions of m that are in K, one by one. *)
Elements(m, n, K) ==
  [i \in 1 .. Len(m.actions) |->
     IF i \in K THEN Bytes(<<"action", n, i>>, m.actions[i].size) ELSE <<>>]
List(m, n, K) == FlattenSeq(Elements(m, n, K))

AllOf(m) == 1 .. Len(m.actions)
UntaggedOf(m) == {i \in 1 .. Len(m.actions) : ~m.actions[i].uep}
NotSetOf(m) == {i \in 1 .. Len(m.actions) : ~m.actions[i].set}

LEMMA ListsAre ==
  ASSUME NEW m, NEW n
  PROVE  /\ ActionBytes(m, n, Everything) = List(m, n, AllOf(m))
         /\ ActionBytes(m, n, Untagged) = List(m, n, UntaggedOf(m))
         /\ ActionBytes(m, n, NotSet) = List(m, n, NotSetOf(m))
BY DEF ActionBytes, Wire, List, Elements, AllOf, UntaggedOf, NotSetOf,
       Everything, Untagged, NotSet

(* What is assumed of the actions of a PACKET_OUT. *)
LEMMA ActionFacts ==
  ASSUME NEW m \in PacketOuts
  PROVE  /\ Len(m.actions) \in Nat /\ m.actions \in Seq(Action)
         /\ DOMAIN m.actions = 1 .. Len(m.actions)
         /\ \A i \in 1 .. Len(m.actions) :
              /\ m.actions[i].size \in Nat /\ m.actions[i].size > 0
              /\ m.actions[i].set \in BOOLEAN /\ m.actions[i].uep \in BOOLEAN
              /\ m.actions[i].uep => m.actions[i].set
         /\ m.frame \in Nat /\ m.lldp \in BOOLEAN
<1>1. /\ m \in PacketOut
      /\ \A i \in DOMAIN m.actions :
           m.actions[i].size > 0 /\ (m.actions[i].uep => m.actions[i].set)
  BY MessagesAssumption
<1>2. m.actions \in Seq(Action) /\ m.frame \in Nat /\ m.lldp \in BOOLEAN
  BY <1>1 DEF PacketOut
<1>3. Len(m.actions) \in Nat /\ DOMAIN m.actions = 1 .. Len(m.actions)
  BY <1>2
<1>4. \A i \in 1 .. Len(m.actions) : m.actions[i] \in Action
  BY <1>2
<1>5. \A i \in 1 .. Len(m.actions) :
        /\ m.actions[i].size \in Nat
        /\ m.actions[i].set \in BOOLEAN /\ m.actions[i].uep \in BOOLEAN
  BY <1>4 DEF Action
<1> QED BY <1>1, <1>2, <1>3, <1>5

LEMMA ElementsType ==
  ASSUME NEW m \in PacketOuts, NEW n \in Nat, NEW K
  PROVE  /\ Elements(m, n, K) \in Seq(Seq(Octet))
         /\ Len(Elements(m, n, K)) = Len(m.actions)
         /\ \A i \in 1 .. Len(m.actions) :
              Len(Elements(m, n, K)[i]) = IF i \in K THEN m.actions[i].size ELSE 0
<1>1. \A i \in 1 .. Len(m.actions) :
        /\ Bytes(<<"action", n, i>>, m.actions[i].size) \in Seq(Octet)
        /\ Len(Bytes(<<"action", n, i>>, m.actions[i].size)) = m.actions[i].size
  <2> TAKE i \in 1 .. Len(m.actions)
  <2>1. m.actions[i].size \in Nat /\ i \in Nat
    BY ActionFacts
  <2> DEFINE e == <<"action", n, i>>
             k == m.actions[i].size
             S == Octet
  <2>2. \A j \in 1 .. k : <<e, j>> \in S
    BY <2>1 DEF Octet, Tags
  <2>3. k \in Nat
    BY <2>1
  <2> HIDE DEF e, k, S
  <2>4. Bytes(e, k) \in Seq(S) /\ Len(Bytes(e, k)) = k
    BY <2>2, <2>3, BytesProperties
  <2> QED BY <2>4 DEF e, k, S
<1>2. <<>> \in Seq(Octet) /\ Len(<<>>) = 0
  BY EmptySeq
<1>3. Len(m.actions) \in Nat
  BY ActionFacts
<1>4. /\ Len(Elements(m, n, K)) = Len(m.actions)
      /\ \A i \in 1 .. Len(m.actions) :
           Elements(m, n, K)[i]
             = IF i \in K THEN Bytes(<<"action", n, i>>, m.actions[i].size)
                          ELSE <<>>
  BY <1>3 DEF Elements
<1>5. Elements(m, n, K) \in Seq(Seq(Octet))
  <2>1. \A i \in 1 .. Len(m.actions) :
          (IF i \in K THEN Bytes(<<"action", n, i>>, m.actions[i].size)
                      ELSE <<>>) \in Seq(Octet)
    BY <1>1, <1>2
  <2> QED BY <1>3, <2>1 DEF Elements
<1> QED BY <1>1, <1>2, <1>4, <1>5

LEMMA ListType ==
  ASSUME NEW m \in PacketOuts, NEW n \in Nat, NEW K
  PROVE  List(m, n, K) \in Seq(Octet) /\ Len(List(m, n, K)) \in Nat
<1>1. List(m, n, K) \in Seq(Octet)
  BY ElementsType, FlattenType DEF List
<1> QED BY <1>1

LEMMA ElementsLength ==
  ASSUME NEW m \in PacketOuts, NEW n, NEW K
  PROVE  Len(Elements(m, n, K)) = Len(m.actions)
BY ActionFacts DEF Elements

(* A list with fewer actions is shorter. *)
LEMMA FewerActions ==
  ASSUME NEW m \in PacketOuts, NEW n \in Nat,
         NEW K, NEW J, K \subseteq J, J \subseteq 1 .. Len(m.actions)
  PROVE  /\ Len(List(m, n, K)) <= Len(List(m, n, J))
         /\ K # J => Len(List(m, n, K)) < Len(List(m, n, J))
<1> DEFINE s == Elements(m, n, K)
           t == Elements(m, n, J)
<1>0. TRUE \in BOOLEAN /\ 0 \in Nat
  OBVIOUS
<1>1. /\ s \in Seq(Seq(Octet)) /\ t \in Seq(Seq(Octet))
      /\ Len(s) = Len(m.actions) /\ Len(t) = Len(m.actions)
  <2>1. s \in Seq(Seq(Octet))
    BY <1>0, ElementsType
  <2>2. t \in Seq(Seq(Octet))
    BY <1>0, ElementsType
  <2>3. Len(s) = Len(m.actions)
    BY ElementsLength
  <2>4. Len(t) = Len(m.actions)
    BY ElementsLength
  <2> QED BY <2>1, <2>2, <2>3, <2>4
<1>2. \A i \in 1 .. Len(m.actions) :
        /\ Len(s[i]) = IF i \in K THEN m.actions[i].size ELSE 0
        /\ Len(t[i]) = IF i \in J THEN m.actions[i].size ELSE 0
        /\ m.actions[i].size \in Nat /\ m.actions[i].size > 0
  BY ElementsType, ActionFacts
<1> HIDE DEF s, t
<1>3. \A i \in 1 .. Len(s) : Len(s[i]) <= Len(t[i])
  <2>1. Len(s) = Len(m.actions)
    BY <1>1
  <2>2. \A i \in 1 .. Len(m.actions) : Len(s[i]) <= Len(t[i])
    BY <1>2
  <2> QED BY <2>1, <2>2
<1>4. /\ Len(FlattenSeq(s)) <= Len(FlattenSeq(t))
      /\ (\E i \in 1 .. Len(s) : Len(s[i]) < Len(t[i]))
           => Len(FlattenSeq(s)) < Len(FlattenSeq(t))
  BY <1>1, <1>3, FlattenLonger
<1>5. K # J => \E i \in 1 .. Len(s) : Len(s[i]) < Len(t[i])
  <2> SUFFICES ASSUME K # J PROVE \E i \in 1 .. Len(s) : Len(s[i]) < Len(t[i])
    OBVIOUS
  <2>1. PICK i \in 1 .. Len(m.actions) : i \in J /\ i \notin K
    OBVIOUS
  <2>2. Len(s[i]) = 0 /\ Len(t[i]) > 0
    BY <1>2, <2>1
  <2> QED BY <1>1, <2>2
<1> QED BY <1>4, <1>5 DEF s, t, List

(* The program drops every action that is to set a field, the controller   *)
(* means the tags: the lists are as long only if it sets nothing else.     *)
LEMMA ThreeLists ==
  ASSUME NEW m \in PacketOuts, NEW n \in Nat
  PROVE  LET l == ActionBytes(m, n, Everything)
             u == ActionBytes(m, n, Untagged)
             a == ActionBytes(m, n, NotSet)
         IN  /\ Len(a) \in Nat /\ Len(u) \in Nat /\ Len(l) \in Nat
             /\ a \in Seq(Octet) /\ u \in Seq(Octet) /\ l \in Seq(Octet)
             /\ Len(a) <= Len(u) /\ Len(u) <= Len(l)
             /\ Len(a) = Len(l) => a = l
             /\ Len(a) = Len(u) => OnlyTagsAreSet(m)
             /\ OnlyTagsAreSet(m) => a = u
<1>1. /\ NotSetOf(m) \subseteq UntaggedOf(m) /\ UntaggedOf(m) \subseteq AllOf(m)
      /\ AllOf(m) \subseteq 1 .. Len(m.actions)
  BY ActionFacts DEF NotSetOf, UntaggedOf, AllOf
<1>2. OnlyTagsAreSet(m) <=> NotSetOf(m) = UntaggedOf(m)
  BY ActionFacts DEF OnlyTagsAreSet, NotSetOf, UntaggedOf
<1> DEFINE l == List(m, n, AllOf(m))
           u == List(m, n, UntaggedOf(m))
           a == List(m, n, NotSetOf(m))
<1>3. /\ a \in Seq(Octet) /\ u \in Seq(Octet) /\ l \in Seq(Octet)
      /\ Len(a) \in Nat /\ Len(u) \in Nat /\ Len(l) \in Nat
  BY ListType
<1>4. /\ Len(a) <= Len(u) /\ Len(u) <= Len(l) /\ Len(a) <= Len(l)
      /\ NotSetOf(m) # UntaggedOf(m) => Len(a) < Len(u)
      /\ NotSetOf(m) # AllOf(m) => Len(a) < Len(l)
  BY <1>1, FewerActions
<1>5. Len(a) = Len(l) => a = l
  BY <1>3, <1>4
<1>6. Len(a) = Len(u) => OnlyTagsAreSet(m)
  BY <1>2, <1>3, <1>4
<1>7. OnlyTagsAreSet(m) => a = u
  BY <1>2
<1> HIDE DEF a, u, l
<1> QED BY <1>3, <1>4, <1>5, <1>6, <1>7, ListsAre, Zenon DEF a, u, l

-----------------------------------------------------------------------------
(* The buffers.                                                            *)

(* A message covers its own bytes and leaves the others of the buffer.     *)
LEMMA OverlaidProperties ==
  ASSUME NEW S, NEW mem \in Seq(S), NEW bytes \in Seq(S), Len(bytes) <= Len(mem)
  PROVE  /\ Overlaid(mem, bytes) \in Seq(S)
         /\ Len(Overlaid(mem, bytes)) = Len(mem)
         /\ \A i \in 1 .. Len(bytes) : Overlaid(mem, bytes)[i] = bytes[i]
<1> DEFINE rest == SubSeq(mem, Len(bytes) + 1, Len(mem))
<1>1. Len(bytes) \in Nat /\ Len(mem) \in Nat
  OBVIOUS
<1>2. \A i \in Len(bytes) + 1 .. Len(mem) : mem[i] \in S
  BY <1>1
<1>3. rest \in Seq(S) /\ Len(rest) = Len(mem) - Len(bytes)
  BY <1>1, <1>2, SubSeqProperties
<1> HIDE DEF rest
<1>4. /\ bytes \o rest \in Seq(S) /\ Len(bytes \o rest) = Len(bytes) + Len(rest)
      /\ \A i \in 1 .. Len(bytes) + Len(rest) :
           (bytes \o rest)[i]
             = IF i <= Len(bytes) THEN bytes[i] ELSE rest[i - Len(bytes)]
  BY <1>3, ConcatProperties
<1>5. Overlaid(mem, bytes) = bytes \o rest
  BY DEF Overlaid, rest
<1> QED BY <1>1, <1>3, <1>4, <1>5

LEMMA FrameFacts ==
  ASSUME NEW m, m.frame \in Nat, m.lldp \in BOOLEAN, NEW n \in Nat
  PROVE  /\ FrameBytes(m, n) \in Seq(Octet)
         /\ Len(FrameBytes(m, n)) = m.frame
         /\ \A i \in 1 .. m.frame :
              FrameBytes(m, n)[i]
                = <<<<IF m.lldp THEN "lldp" ELSE "frame", n, 0>>, i>>
<1> DEFINE e == <<IF m.lldp THEN "lldp" ELSE "frame", n, 0>>
           k == m.frame
           S == Octet
<1>1. k \in Nat
  OBVIOUS
<1>2. \A j \in 1 .. k : <<e, j>> \in S
  <2>1. (IF m.lldp THEN "lldp" ELSE "frame") \in Tags
    BY DEF Tags
  <2> QED BY <2>1 DEF Octet
<1>3. FrameBytes(m, n) = Bytes(e, k)
  BY DEF FrameBytes
<1> HIDE DEF e, k, S
<1>4. Bytes(e, k) \in Seq(S) /\ Len(Bytes(e, k)) = k
  BY <1>1, <1>2, BytesProperties
<1>5. \A i \in 1 .. k : Bytes(e, k)[i] = <<e, i>>
  BY <1>1 DEF Bytes
<1> QED BY <1>3, <1>4, <1>5, Zenon DEF e, k, S

LEMMA HeaderFacts ==
  ASSUME NEW k \in Nat, NEW n \in Nat
  PROVE  /\ Bytes(<<"header", n, 0>>, k) \in Seq(Octet)
         /\ Len(Bytes(<<"header", n, 0>>, k)) = k
<1> DEFINE e == <<"header", n, 0>>
           S == Octet
<1>1. \A j \in 1 .. k : <<e, j>> \in S
  BY DEF Octet, Tags
<1> HIDE DEF e, S
<1>2. Bytes(e, k) \in Seq(S) /\ Len(Bytes(e, k)) = k
  BY <1>1, BytesProperties
<1> QED BY <1>2 DEF e, S

(* A frame with an Ethernet header is known by its ether type. *)
LEMMA LldpIsSeen ==
  ASSUME NEW m, m.frame \in Nat, m.lldp \in BOOLEAN, NEW n \in Nat,
         m.frame >= EthHeader,
         NEW mem \in Seq(Octet), NEW at \in Nat,
         at + m.frame <= Len(mem),
         \A j \in 1 .. m.frame : mem[at + j] = FrameBytes(m, n)[j]
  PROVE  \A lldp \in LldpOutcomes(mem, at) : lldp = m.lldp
<1> DEFINE type == Slice(mem, at + TypeAt, 2)
<1> DEFINE from == at + TypeAt
           S == Octet
           len == Len(mem)
<1>0. Zero \in S /\ mem \in Seq(S) /\ len \in Nat
  <2>1. Zero \in S
    BY OctetFacts, Zenon
  <2>2. mem \in Seq(S)
    OBVIOUS
  <2>3. len \in Nat
    BY <2>2, LenProperties, Zenon
  <2> QED BY <2>1, <2>2, <2>3
<1>1. /\ \A i \in 1 .. 2 : TypeAt + i \in 1 .. m.frame
      /\ from \in Nat
      /\ \A i \in 1 .. 2 : from + i \in 1 .. len /\ from + i = at + (TypeAt + i)
  BY <1>0 DEF TypeAt, EthHeader
<1>2. \A i \in 1 .. 2 : type[i] = mem[from + i]
  <2>1. \A i \in 1 .. 2 : from + i \in 1 .. Len(mem)
    BY <1>1
  <2>2. 2 \in Nat
    OBVIOUS
  <2> HIDE DEF from, S
  <2>3. \A i \in 1 .. 2 :
          Slice(mem, from, 2)[i]
            = IF from + i \in 1 .. Len(mem) THEN mem[from + i] ELSE Zero
    BY <1>0, <1>1, <2>2, SliceProperties, Zenon
  <2> QED BY <2>1, <2>3 DEF from
<1>3. \A i \in 1 .. 2 : type[i] = FrameBytes(m, n)[TypeAt + i]
  BY <1>1, <1>2
<1>4. \A i \in 1 .. 2 :
        type[i] = <<<<IF m.lldp THEN "lldp" ELSE "frame", n, 0>>, TypeAt + i>>
  <2>1. \A i \in 1 .. m.frame :
          FrameBytes(m, n)[i] = <<<<IF m.lldp THEN "lldp" ELSE "frame", n, 0>>, i>>
    BY FrameFacts
  <2>2. \A i \in 1 .. 2 : FrameBytes(m, n)[TypeAt + i]
          = <<<<IF m.lldp THEN "lldp" ELSE "frame", n, 0>>, TypeAt + i>>
    BY <1>1, <2>1, Zenon
  <2> QED BY <1>3, <2>2, Zenon
<1> DEFINE frame == <<IF m.lldp THEN "lldp" ELSE "frame", n, 0>>
<1>5. \A i \in 1 .. 2 : type[i] = <<frame, TypeAt + i>>
  BY <1>4
<1>6. LldpOutcomes(mem, at) =
        IF /\ type[1][1][1] \in {"lldp", "frame"}
           /\ \A i \in 1 .. 2 : type[i] = <<type[1][1], TypeAt + i>>
        THEN {type[1][1][1] = "lldp"} ELSE BOOLEAN
  BY DEF LldpOutcomes
<1> HIDE DEF type, frame
<1>7. type[1][1] = frame
  <2>1. 1 \in 1 .. 2
    OBVIOUS
  <2>2. type[1] = <<frame, TypeAt + 1>>
    BY <1>5, <2>1
  <2> QED BY <2>2
<1>8. /\ frame[1] \in {"lldp", "frame"} /\ (frame[1] = "lldp") = m.lldp
  BY DEF frame
<1> QED BY <1>5, <1>6, <1>7, <1>8

-----------------------------------------------------------------------------
(* The rewriting of a PACKET_OUT.                                          *)

(* The list moves into its place and the frame up behind it. *)
LEMMA KickedProperties ==
  ASSUME NEW S, Zero \in S, NEW mem \in Seq(S), NEW list \in Seq(S),
         NEW old \in Nat, NEW data \in Nat, Len(list) <= old,
         ActionsAt + old + data <= Len(mem)
  PROVE  /\ Kicked(mem, old, data, list) \in Seq(S)
         /\ Len(Kicked(mem, old, data, list)) = Len(mem)
         /\ \A i \in 1 .. ActionsAt + Len(list) + data :
              Kicked(mem, old, data, list)[i]
                = IF i <= ActionsAt THEN mem[i]
                  ELSE IF i <= ActionsAt + Len(list) THEN list[i - ActionsAt]
                  ELSE mem[(i - Len(list)) + old]
<1> DEFINE a == Len(list)
           from == ActionsAt + old
           frame == Slice(mem, from, data)
           listed == Copied(mem, ActionsAt, list)
           kicked == Copied(listed, ActionsAt + a, frame)
<1>1. ActionsAt \in Nat /\ a \in Nat /\ Len(mem) \in Nat /\ ActionsAt + old \in Nat
      /\ ActionsAt + a \in Nat
  BY LayoutAssumption
<1>2. /\ frame \in Seq(S) /\ Len(frame) = data
      /\ \A i \in 1 .. data :
           frame[i] = IF from + i \in 1 .. Len(mem) THEN mem[from + i] ELSE Zero
  <2>1. from \in Nat
    BY <1>1
  <2> HIDE DEF from
  <2>21. Slice(mem, from, data) \in Seq(S)
    BY <2>1, SliceType
  <2>22. Len(Slice(mem, from, data)) = data
    BY <2>1, SliceType
  <2>2. /\ Slice(mem, from, data) \in Seq(S)
        /\ Len(Slice(mem, from, data)) = data
    BY <2>21, <2>22
  <2>3. \A i \in 1 .. data :
          Slice(mem, from, data)[i]
            = IF from + i \in 1 .. Len(mem) THEN mem[from + i] ELSE Zero
    BY <1>1, <2>1, SliceAt
  <2> QED BY <2>2, <2>3, Zenon
<1>3. \A i \in 1 .. data : frame[i] = mem[(ActionsAt + old) + i]
  <2>1. \A i \in 1 .. data : from + i \in 1 .. Len(mem)
    BY <1>1
  <2> HIDE DEF frame
  <2> QED BY <1>2, <2>1
<1>4. /\ listed \in Seq(S) /\ Len(listed) = Len(mem)
      /\ \A i \in 1 .. Len(mem) :
           listed[i] = IF i - ActionsAt \in 1 .. a THEN list[i - ActionsAt]
                                                   ELSE mem[i]
  <2>1. listed \in Seq(S)
    BY <1>1, CopiedProperties
  <2>2. Len(listed) = Len(mem)
    BY <1>1, CopiedProperties
  <2>3. \A i \in 1 .. Len(mem) :
          listed[i] = IF i - ActionsAt \in 1 .. a THEN list[i - ActionsAt]
                                                  ELSE mem[i]
    BY <1>1, CopiedProperties
  <2> QED BY <2>1, <2>2, <2>3
<1> HIDE DEF frame, listed
<1>5. /\ kicked \in Seq(S) /\ Len(kicked) = Len(listed)
      /\ \A i \in 1 .. Len(listed) :
           kicked[i] = IF i - (ActionsAt + a) \in 1 .. Len(frame)
                       THEN frame[i - (ActionsAt + a)] ELSE listed[i]
  BY <1>1, <1>2, <1>4, CopiedProperties
<1>6. kicked = Kicked(mem, old, data, list)
  BY DEF Kicked, frame, listed
<1> HIDE DEF kicked, a
<1>7. ASSUME NEW i \in 1 .. ActionsAt + a + data
      PROVE  kicked[i] = IF i <= ActionsAt THEN mem[i]
                         ELSE IF i <= ActionsAt + a THEN list[i - ActionsAt]
                         ELSE mem[(i - a) + old]
  <2>1. i \in 1 .. Len(mem) /\ a <= old
    BY <1>1 DEF a
  <2>2. CASE i <= ActionsAt + a
    <3>1. kicked[i] = listed[i]
      BY <1>1, <1>2, <1>4, <1>5, <2>1, <2>2
    <3>2. listed[i] = IF i - ActionsAt \in 1 .. a THEN list[i - ActionsAt]
                                                  ELSE mem[i]
      BY <1>4, <2>1
    <3>3. i - ActionsAt \in 1 .. a <=> ~(i <= ActionsAt)
      BY <1>1, <2>2
    <3> QED BY <2>2, <3>1, <3>2, <3>3, Zenon
  <2>3. CASE ~(i <= ActionsAt + a)
    <3>1. /\ i - (ActionsAt + a) \in 1 .. data
          /\ (ActionsAt + old) + (i - (ActionsAt + a)) = (i - a) + old
      BY <1>1, <2>1, <2>3
    <3>2. kicked[i] = frame[i - (ActionsAt + a)]
      BY <1>2, <1>4, <1>5, <2>1, <3>1
    <3>3. ~(i <= ActionsAt)
      BY <1>1, <2>3
    <3>4. kicked[i] = mem[(ActionsAt + old) + (i - (ActionsAt + a))]
      BY <1>3, <3>1, <3>2
    <3> QED BY <2>3, <3>1, <3>3, <3>4, Zenon
  <2> QED BY <2>2, <2>3
<1> QED BY <1>4, <1>5, <1>6, <1>7 DEF a

Header(n) == Bytes(<<"header", n, 0>>, ActionsAt)
Arriving(m, n) == OutBytes(m, n, Everything)
OldList(m, n) == ActionBytes(m, n, Everything)
NewList(m, n) == ActionBytes(m, n, NotSet)
Meant(m, n) == OutBytes(m, n, Untagged)
Sent(m, n) == OutBytes(m, n, NotSet)

(* What DoPacketOut makes of the buffer. *)
Rewritten(mem, m, n) ==
  IF Len(OldList(m, n)) - Len(NewList(m, n)) > 0
  THEN Kicked(Overlaid(mem, Arriving(m, n)), Len(OldList(m, n)),
              Len(Arriving(m, n)) - Len(OldList(m, n)) - ActionsAt, NewList(m, n))
  ELSE Overlaid(mem, Arriving(m, n))

(* A PACKET_OUT is its header, a list and its frame. *)
Message(m, n, list) == Header(n) \o list \o FrameBytes(m, n)
LEMMA OutParts ==
  ASSUME NEW m \in PacketOuts, NEW n \in Nat, NEW list \in Seq(Octet)
  PROVE  /\ Message(m, n, list) \in Seq(Octet)
         /\ Len(Message(m, n, list)) = ActionsAt + Len(list) + m.frame
         /\ \A i \in 1 .. ActionsAt + Len(list) + m.frame :
              Message(m, n, list)[i] =
                         IF i <= ActionsAt THEN Header(n)[i]
                         ELSE IF i <= ActionsAt + Len(list) THEN list[i - ActionsAt]
                         ELSE FrameBytes(m, n)[i - (ActionsAt + Len(list))]
<1> DEFINE S == Octet
           f == FrameBytes(m, n)
           h == Header(n)
<1>1. h \in Seq(S) /\ Len(h) = ActionsAt
  BY LayoutAssumption, HeaderFacts DEF Header
<1>2. f \in Seq(S) /\ Len(f) = m.frame
  BY ActionFacts, FrameFacts
<1>3. list \in Seq(S)
  OBVIOUS
<1> HIDE DEF S, f, h
<1>4. /\ h \o list \o f \in Seq(S)
      /\ Len(h \o list \o f) = Len(h) + Len(list) + Len(f)
  <2>1. \A x, y, z \in Seq(S) :
          x \o y \o z \in Seq(S) /\ Len(x \o y \o z) = Len(x) + Len(y) + Len(z)
    BY ThreeParts
  <2> QED BY <1>1, <1>2, <1>3, <2>1, Zenon
<1>5. \A x, y, z \in Seq(S) :
        \A i \in 1 .. Len(x) + Len(y) + Len(z) :
          (x \o y \o z)[i]
            = IF i <= Len(x) THEN x[i]
              ELSE IF i <= Len(x) + Len(y) THEN y[i - Len(x)]
              ELSE z[i - (Len(x) + Len(y))]
  BY ThreeParts
<1>6. \A i \in 1 .. Len(h) + Len(list) + Len(f) :
        (h \o list \o f)[i]
          = IF i <= Len(h) THEN h[i]
            ELSE IF i <= Len(h) + Len(list) THEN list[i - Len(h)]
            ELSE f[i - (Len(h) + Len(list))]
  BY <1>1, <1>2, <1>3, <1>5, Zenon
<1> QED BY <1>1, <1>2, <1>4, <1>6, Zenon DEF S, f, h, Message

(* Whatever lay in the buffer: the message goes out with the actions that  *)
(* set no field, and its frame whole behind them.                          *)
LEMMA RewrittenProperties ==
  ASSUME NEW m \in PacketOuts, NEW n \in Nat, NEW mem \in Seq(Octet),
         Len(Arriving(m, n)) <= Len(mem)
  PROVE  /\ Rewritten(mem, m, n) \in Seq(Octet)
         /\ Len(Rewritten(mem, m, n)) = Len(mem)
         /\ Len(Arriving(m, n)) = ActionsAt + Len(OldList(m, n)) + m.frame
         /\ Len(Sent(m, n)) = ActionsAt + Len(NewList(m, n)) + m.frame
         /\ Len(Sent(m, n)) <= Len(mem)
         /\ Slice(Rewritten(mem, m, n), 0, Len(Sent(m, n))) = Sent(m, n)
         /\ \A i \in 1 .. Len(Sent(m, n)) :
              Rewritten(mem, m, n)[i] = Sent(m, n)[i]
<1> DEFINE S == Octet
           l == OldList(m, n)
           a == NewList(m, n)
           f == FrameBytes(m, n)
           in == Arriving(m, n)
           out == Sent(m, n)
           laid == Overlaid(mem, in)
           new == Rewritten(mem, m, n)
<1>1. /\ l \in Seq(S) /\ a \in Seq(S)
      /\ Len(a) \in Nat /\ Len(l) \in Nat /\ Len(a) <= Len(l)
      /\ Len(a) = Len(l) => a = l
  BY ThreeLists DEF OldList, NewList
<1>2. /\ ActionsAt \in Nat /\ m.frame \in Nat /\ Zero \in S /\ mem \in Seq(S)
      /\ Len(mem) \in Nat /\ Len(in) <= Len(mem)
  BY LayoutAssumption, ActionFacts, OctetFacts
<1>3. in = Message(m, n, l) /\ out = Message(m, n, a)
  BY DEF Arriving, Sent, OutBytes, Header, OldList, NewList, Message
<1> HIDE DEF S, l, a, in, out, f
<1>31. \A list \in Seq(S) :
         /\ Message(m, n, list) \in Seq(S)
         /\ Len(Message(m, n, list)) = ActionsAt + Len(list) + m.frame
  BY OutParts DEF S
<1>32. \A list \in Seq(S) : \A i \in 1 .. ActionsAt + Len(list) + m.frame :
         Message(m, n, list)[i]
           = IF i <= ActionsAt THEN Header(n)[i]
             ELSE IF i <= ActionsAt + Len(list) THEN list[i - ActionsAt]
             ELSE f[i - (ActionsAt + Len(list))]
  BY OutParts DEF S, f
<1>4. /\ in \in Seq(S) /\ Len(in) = ActionsAt + Len(l) + m.frame
      /\ \A i \in 1 .. ActionsAt + Len(l) + m.frame :
           in[i] = IF i <= ActionsAt THEN Header(n)[i]
                   ELSE IF i <= ActionsAt + Len(l) THEN l[i - ActionsAt]
                   ELSE f[i - (ActionsAt + Len(l))]
  BY <1>1, <1>3, <1>31, <1>32, Zenon
<1>5. /\ out \in Seq(S) /\ Len(out) = ActionsAt + Len(a) + m.frame
      /\ \A i \in 1 .. ActionsAt + Len(a) + m.frame :
           out[i] = IF i <= ActionsAt THEN Header(n)[i]
                    ELSE IF i <= ActionsAt + Len(a) THEN a[i - ActionsAt]
                    ELSE f[i - (ActionsAt + Len(a))]
  BY <1>1, <1>3, <1>31, <1>32, Zenon
<1>6. /\ laid \in Seq(S) /\ Len(laid) = Len(mem)
      /\ \A i \in 1 .. Len(in) : laid[i] = in[i]
  <2>1. laid \in Seq(S)
    BY <1>2, <1>4, OverlaidProperties
  <2>2. Len(laid) = Len(mem)
    BY <1>2, <1>4, OverlaidProperties
  <2>3. \A i \in 1 .. Len(in) : laid[i] = in[i]
    BY <1>2, <1>4, OverlaidProperties
  <2> QED BY <2>1, <2>2, <2>3
<1>7. new = IF Len(l) - Len(a) > 0
            THEN Kicked(laid, Len(l), Len(in) - Len(l) - ActionsAt, a) ELSE laid
  BY DEF Rewritten, in, laid, l, a
<1> HIDE DEF laid, new
<1>8. /\ Len(out) \in Nat /\ Len(out) <= Len(in) /\ Len(in) \in Nat
      /\ Len(in) - Len(l) - ActionsAt = m.frame
  BY <1>1, <1>2, <1>4, <1>5, SMTT(30)
<1>9. /\ new \in Seq(S) /\ Len(new) = Len(mem)
      /\ \A i \in 1 .. Len(out) : new[i] = out[i]
  <2>1. CASE Len(l) - Len(a) > 0
    <3>1. new = Kicked(laid, Len(l), m.frame, a)
      BY <1>7, <1>8, <2>1
    <3>2. ActionsAt + Len(l) + m.frame <= Len(laid)
      BY <1>2, <1>4, <1>6
    <3>3. /\ new \in Seq(S) /\ Len(new) = Len(laid)
          /\ \A i \in 1 .. ActionsAt + Len(a) + m.frame :
               new[i] = IF i <= ActionsAt THEN laid[i]
                        ELSE IF i <= ActionsAt + Len(a) THEN a[i - ActionsAt]
                        ELSE laid[(i - Len(a)) + Len(l)]
      BY <1>1, <1>2, <1>6, <3>1, <3>2, KickedProperties
    <3>4. ASSUME NEW i \in 1 .. Len(out) PROVE new[i] = out[i]
      <4>1. i \in 1 .. Len(in) /\ i \in 1 .. ActionsAt + Len(a) + m.frame
        BY <1>5, <1>8
      <4>2. CASE i <= ActionsAt
        <5>1. new[i] = laid[i] /\ laid[i] = in[i]
          BY <1>6, <3>3, <4>1, <4>2
        <5>2. in[i] = Header(n)[i] /\ out[i] = Header(n)[i]
          BY <1>4, <1>5, <4>1, <4>2
        <5> QED BY <5>1, <5>2
      <4>3. CASE ~(i <= ActionsAt) /\ i <= ActionsAt + Len(a)
        <5>1. new[i] = a[i - ActionsAt]
          BY <3>3, <4>1, <4>3
        <5>2. out[i] = a[i - ActionsAt]
          BY <1>5, <4>1, <4>3
        <5> QED BY <5>1, <5>2
      <4>4. CASE ~(i <= ActionsAt) /\ ~(i <= ActionsAt + Len(a))
        <5> DEFINE j == (i - Len(a)) + Len(l)
        <5>1. /\ j \in 1 .. Len(in) /\ ~(j <= ActionsAt)
              /\ ~(j <= ActionsAt + Len(l))
              /\ j - (ActionsAt + Len(l)) = i - (ActionsAt + Len(a))
          BY <1>1, <1>2, <1>4, <4>1, <4>4
        <5>2. new[i] = laid[j]
          BY <3>3, <4>1, <4>4
        <5> HIDE DEF j
        <5>3. laid[j] = f[j - (ActionsAt + Len(l))]
          BY <1>4, <1>6, <5>1
        <5>4. out[i] = f[i - (ActionsAt + Len(a))]
          BY <1>5, <4>1, <4>4
        <5> QED BY <5>1, <5>2, <5>3, <5>4
      <4> QED BY <4>2, <4>3, <4>4
    <3> QED BY <1>6, <3>3, <3>4
  <2>2. CASE ~(Len(l) - Len(a) > 0)
    <3>1. Len(a) = Len(l) /\ new = laid
      BY <1>1, <1>7, <2>2
    <3>2. out = in
      BY <1>1, <1>3, <3>1
    <3> QED BY <1>6, <3>1, <3>2
  <2> QED BY <2>1, <2>2
<1>10. Slice(new, 0, Len(out)) = out
  <2> DEFINE k == Len(out)
             t == Slice(new, 0, k)
  <2>1. \A i \in 1 .. k : 0 + i \in 1 .. Len(new) /\ 0 + i = i
    BY <1>2, <1>8, <1>9
  <2>2. k \in Nat /\ 0 \in Nat
    BY <1>8
  <2>3. t \in Seq(S) /\ Len(t) = k
    BY <1>2, <1>9, <2>2, SliceType
  <2>4. \A i \in 1 .. k :
          t[i] = IF 0 + i \in 1 .. Len(new) THEN new[0 + i] ELSE Zero
    <3> HIDE DEF k
    <3>1. \A from \in Nat : \A i \in 1 .. k :
            Slice(new, from, k)[i]
              = IF from + i \in 1 .. Len(new) THEN new[from + i] ELSE Zero
      <4> TAKE from \in Nat
      <4>1. new \in Seq(S) /\ Zero \in S /\ k \in Nat
        BY <1>2, <1>9, <2>2
      <4> QED BY <4>1, SliceProperties
    <3> QED BY <2>2, <3>1, Zenon
  <2>5. \A i \in 1 .. k : t[i] = out[i]
    BY <1>9, <2>1, <2>4
  <2>6. out \in Seq(S) /\ Len(t) = Len(out) /\ \A i \in 1 .. Len(t) : t[i] = out[i]
    BY <1>5, <2>3, <2>5
  <2>7. t \in Seq(S)
    BY <2>3
  <2> HIDE DEF t, k
  <2>8. t = out
    BY <2>6, <2>7, SeqEqual
  <2> QED BY <2>8 DEF t, k
<1>11. Len(out) <= Len(mem)
  BY <1>2, <1>8
<1> QED BY <1>4, <1>5, <1>9, <1>10, <1>11, Zenon DEF S, l, a, in, out, new

-----------------------------------------------------------------------------
(* The inductive invariant: the buffers keep their size.  What a message   *)
(* is classed as and how it goes out is settled anew by each step, whatever *)
(* the buffers hold.                                                       *)
Buffered == buf \in [Directions -> Seq(Octet)]
IInv == TypeOK /\ Buffered

(* A buffer is replaced by one of the same size. *)
LEMMA BufferStep ==
  ASSUME IInv, NEW d \in Directions, NEW mem \in Seq(Octet), Len(mem) = BufSize,
         buf' = [buf EXCEPT ![d] = mem]
  PROVE  /\ Buffered'
         /\ DOMAIN buf' = Directions
         /\ \A e \in Directions : Len(buf'[e]) = BufSize
         /\ buf'[d] = mem
<1>1. buf \in [Directions -> Seq(Octet)]
  BY DEF IInv, Buffered
<1>2. buf' \in [Directions -> Seq(Octet)] /\ buf'[d] = mem
  BY <1>1
<1>3. ASSUME NEW e \in Directions
      PROVE  Len(buf'[e]) = BufSize
  <2>1. Len(buf[e]) = BufSize
    BY DEF IInv, TypeOK
  <2> QED BY <1>1, <2>1
<1> QED BY <1>2, <1>3 DEF Buffered

LEMMA InitIInv == Init => IInv
<1> SUFFICES ASSUME Init PROVE IInv
  OBVIOUS
<1>1. BufSize \in Nat /\ MaxMessages \in Nat
  BY MessagesAssumption
<1>2. /\ Bytes(<<"stack", 0, 0>>, BufSize) \in Seq(Octet)
      /\ Len(Bytes(<<"stack", 0, 0>>, BufSize)) = BufSize
  <2> DEFINE e == <<"stack", 0, 0>>
  <2>1. \A j \in 1 .. BufSize : <<e, j>> \in Octet
    BY <1>1 DEF Octet, Tags
  <2> HIDE DEF e, Octet
  <2>2. Bytes(e, BufSize) \in Seq(Octet) /\ Len(Bytes(e, BufSize)) = BufSize
    BY <1>1, <2>1, BytesProperties
  <2> QED BY <2>2 DEF e
<1>3. buf = [d \in Directions |-> Bytes(<<"stack", 0, 0>>, BufSize)]
  BY DEF Init
<1> HIDE DEF Bytes, Octet
<1>4. Buffered
  BY <1>2, <1>3 DEF Buffered
<1>5. \A d \in Directions : Len(buf[d]) = BufSize
  BY <1>2, <1>3
<1>6. TypeOK
  BY <1>1, <1>3, <1>5 DEF Init, TypeOK, Arg
<1> QED BY <1>4, <1>6 DEF IInv

(* The arguments tell an LLDP frame from anything else. *)
LEMMA ArgFacts ==
  /\ \A qid : Arg(qid, FALSE, 1) # LldpArg
  /\ LldpArg.qid = LLDP_QUEUE_ID /\ LldpArg.xid = TRUE
  /\ LldpArg.max_wait_time = 0
  /\ \A qid : LET a == Arg(qid, FALSE, 1) IN
              a.qid = qid /\ a.xid = FALSE /\ a.max_wait_time = 1
BY DEF Arg, LldpArg

LEMMA TypesDiffer ==
  /\ ofp_type.OFPT_PACKET_OUT # ofp_type.OFPT_PACKET_IN
  /\ ofp_type.OFPT_ECHO_REQUEST # ofp_type.OFPT_PACKET_IN
  /\ ofp_type.OFPT_ECHO_REQUEST # ofp_type.OFPT_PACKET_OUT
  /\ ofp_type.OFPT_HELLO # ofp_type.OFPT_PACKET_IN
  /\ ofp_type.OFPT_HELLO # ofp_type.OFPT_PACKET_OUT
BY DEF ofp_type

LEMMA DoPacketOutIs ==
  ASSUME NEW m, DoPacketOut(m)
  PROVE  LET n == count + 1
             new == Rewritten(buf["SERVER"], m, n)
         IN  /\ buf' = [buf EXCEPT !["SERVER"] = new]
             /\ header_length' = Len(Arriving(m, n))
                                 - (Len(OldList(m, n)) - Len(NewList(m, n)))
             /\ actions_len' = Len(NewList(m, n))
             /\ \E qid \in {PO_QUEUE_1_ID, PO_QUEUE_2_ID, IMPORTANT_QUEUE_ID} :
                \E lldp \in LldpOutcomes(new, ActionsAt + Len(NewList(m, n))) :
                  arg' = IF lldp THEN LldpArg ELSE Arg(qid, FALSE, 1)
             /\ last' = [type |-> ofp_type.OFPT_PACKET_OUT, msg |-> m]
<1> USE DEF DoPacketOut, Rewritten, Arriving, OldList, NewList
<1>1. buf' = [buf EXCEPT !["SERVER"] = Rewritten(buf["SERVER"], m, count + 1)]
  OBVIOUS
<1>2. \E qid \in {PO_QUEUE_1_ID, PO_QUEUE_2_ID, IMPORTANT_QUEUE_ID} :
      \E lldp \in LldpOutcomes(Rewritten(buf["SERVER"], m, count + 1),
                               ActionsAt + Len(NewList(m, count + 1))) :
        arg' = IF lldp THEN LldpArg ELSE Arg(qid, FALSE, 1)
  BY Zenon DEF eth_data
<1>3. /\ header_length' = Len(Arriving(m, count + 1))
           - (Len(OldList(m, count + 1)) - Len(NewList(m, count + 1)))
      /\ actions_len' = Len(NewList(m, count + 1))
      /\ last' = [type |-> ofp_type.OFPT_PACKET_OUT, msg |-> m]
  OBVIOUS
<1> QED BY <1>1, <1>2, <1>3

LEMMA PacketOutStep ==
  ASSUME IInv, NEW m \in PacketOuts, DoPacketOut(m),
         count < MaxMessages, count' = count + 1
  PROVE  IInv' /\ PacketOutRightExactlyWhen' /\ ClassedByFrame'
<1> DEFINE n == count + 1
           mem == buf["SERVER"]
           S == Octet
           new == Rewritten(mem, m, n)
           l == Len(OldList(m, n))
           a == Len(NewList(m, n))
           u == Len(ActionBytes(m, n, Untagged))
<1>1. /\ count \in Nat /\ n \in Nat /\ n \in 1 .. MaxMessages /\ MaxMessages \in Nat
      /\ BufSize \in Nat /\ ActionsAt \in Nat /\ m.frame \in Nat
      /\ m.lldp \in BOOLEAN
      /\ "SERVER" \in Directions /\ "CLIENT" \in Directions
  BY MessagesAssumption, LayoutAssumption, ActionFacts
     DEF IInv, TypeOK, Directions
<1>2. /\ buf' = [buf EXCEPT !["SERVER"] = new]
      /\ header_length' = Len(Arriving(m, n)) - (l - a)
      /\ actions_len' = a
      /\ \E qid \in {PO_QUEUE_1_ID, PO_QUEUE_2_ID, IMPORTANT_QUEUE_ID} :
         \E lldp \in LldpOutcomes(new, ActionsAt + a) :
           arg' = IF lldp THEN LldpArg ELSE Arg(qid, FALSE, 1)
      /\ last' = [type |-> ofp_type.OFPT_PACKET_OUT, msg |-> m]
  BY DoPacketOutIs
<1>4. /\ mem \in Seq(S) /\ Len(mem) = BufSize
  BY <1>1 DEF IInv, TypeOK, Buffered
<1>5. Len(Arriving(m, n)) <= BufSize
  BY <1>1, BufferAssumption DEF Arriving
<1>6. /\ new \in Seq(S) /\ Len(new) = BufSize
      /\ Len(Arriving(m, n)) = ActionsAt + l + m.frame
      /\ Len(Sent(m, n)) = ActionsAt + a + m.frame
      /\ Len(Sent(m, n)) <= BufSize
      /\ Slice(new, 0, Len(Sent(m, n))) = Sent(m, n)
      /\ \A i \in 1 .. Len(Sent(m, n)) : new[i] = Sent(m, n)[i]
  <2> HIDE DEF mem, n
  <2> QED BY <1>1, <1>4, <1>5, RewrittenProperties
<1>7. /\ l \in Nat /\ a \in Nat /\ u \in Nat /\ a <= l
      /\ a = u => OnlyTagsAreSet(m)
      /\ OnlyTagsAreSet(m) => ActionBytes(m, n, NotSet) = ActionBytes(m, n, Untagged)
  BY <1>1, ThreeLists DEF OldList, NewList
<1>8. header_length' = Len(Sent(m, n)) /\ header_length' \in 0 .. BufSize
  <2>1. Len(Sent(m, n)) \in Nat
    BY <1>1, <1>6, <1>7
  <2> HIDE DEF l, a, n
  <2>2. (ActionsAt + l + m.frame) - (l - a) = ActionsAt + a + m.frame
    BY <1>1, <1>7
  <2>3. header_length' = Len(Sent(m, n))
    BY <1>2, <1>6, <2>2, Zenon
  <2> QED BY <1>1, <1>6, <2>1, <2>3
<1>9. ASSUME \A lldp \in LldpOutcomes(new, ActionsAt + a) : lldp = m.lldp
      PROVE  arg' = LldpArg <=> m.lldp
  <2>1. \E qid \in {PO_QUEUE_1_ID, PO_QUEUE_2_ID, IMPORTANT_QUEUE_ID} :
          arg' = IF m.lldp THEN LldpArg ELSE Arg(qid, FALSE, 1)
    BY <1>2, <1>9
  <2> QED BY <2>1, ArgFacts, Zenon
<1>10. IInv'
  <2>1. /\ Buffered' /\ DOMAIN buf' = Directions
        /\ \A e \in Directions : Len(buf'[e]) = BufSize
    BY <1>1, <1>2, <1>6, BufferStep
  <2>2. /\ arg.qid' \in {IMPORTANT_QUEUE_ID, PI_QUEUE_ID, PO_QUEUE_1_ID,
                         PO_QUEUE_2_ID}
        /\ arg.xid' \in BOOLEAN /\ arg.max_wait_time' \in {0, 1}
    BY <1>2, ArgFacts DEF IMPORTANT_QUEUE_ID, LLDP_QUEUE_ID
  <2>3. count' \in 0 .. MaxMessages /\ actions_len' \in Nat
    BY <1>1, <1>2, <1>7
  <2> QED BY <1>8, <2>1, <2>2, <2>3 DEF IInv, TypeOK
<1>11. buf'["SERVER"] = new
  BY <1>1, <1>2 DEF IInv, Buffered
<1>12. last'.type = ofp_type.OFPT_PACKET_OUT /\ last'.msg = m /\ count' = n
  BY <1>2
<1>13. PacketOutRightExactlyWhen'
  <2>1. ASSUME OnlyTagsAreSet(m)
        PROVE  /\ header_length' = Len(Meant(m, n)) /\ a = u
               /\ Slice(new, 0, header_length') = Meant(m, n)
    <3>1. Sent(m, n) = Meant(m, n) /\ a = u
      BY <1>7, <2>1 DEF Sent, Meant, OutBytes, NewList
    <3> QED BY <1>6, <1>8, <3>1
  <2>2. (/\ header_length' = Len(Meant(m, n)) /\ actions_len' = u
         /\ Slice(buf'["SERVER"], 0, header_length') = Meant(m, n))
        <=> OnlyTagsAreSet(m)
    BY <1>2, <1>7, <1>11, <2>1
  <2> QED BY <1>12, <2>2 DEF PacketOutRightExactlyWhen, Meant
<1>14. ASSUME m.frame >= EthHeader
       PROVE  arg' = LldpArg <=> m.lldp
  <2>1. ASSUME NEW j \in 1 .. m.frame
        PROVE  new[(ActionsAt + a) + j] = FrameBytes(m, n)[j]
    <3> DEFINE i == (ActionsAt + a) + j
               list == NewList(m, n)
    <3>1. list \in Seq(Octet) /\ a = Len(list)
      BY <1>1, ThreeLists DEF NewList
    <3>2. /\ i \in 1 .. ActionsAt + a + m.frame
          /\ ~(i <= ActionsAt) /\ ~(i <= ActionsAt + a)
          /\ i - (ActionsAt + a) = j
      BY <1>1, <1>7
    <3>3. new[i] = Sent(m, n)[i]
      BY <1>6, <3>2
    <3>4. Sent(m, n) = Message(m, n, list)
      BY DEF Sent, OutBytes, Message, Header, NewList
    <3> HIDE DEF i, list, a, new, n
    <3>5. Message(m, n, list)[i] = FrameBytes(m, n)[j]
      BY <1>1, <3>1, <3>2, OutParts
    <3> QED BY <3>3, <3>4, <3>5 DEF i
  <2>2. (ActionsAt + a) + m.frame <= Len(new) /\ ActionsAt + a \in Nat
    BY <1>1, <1>6, <1>7
  <2>3. new \in Seq(Octet)
    BY <1>6
  <2> DEFINE at == ActionsAt + a
  <2> HIDE DEF new, n, at
  <2>4. at \in Nat /\ at + m.frame <= Len(new)
    BY <2>2 DEF at
  <2>5. \A j \in 1 .. m.frame : new[at + j] = FrameBytes(m, n)[j]
    BY <2>1 DEF at
  <2>6. \A lldp \in LldpOutcomes(new, at) : lldp = m.lldp
    BY <1>1, <1>14, <2>3, <2>4, <2>5, LldpIsSeen, Zenon
  <2> QED BY <1>9, <2>6 DEF at
<1>15. ClassedByFrame'
  BY <1>12, <1>14, TypesDiffer DEF ClassedByFrame
<1> QED BY <1>10, <1>13, <1>15

LEMMA PacketInFacts ==
  ASSUME NEW m \in PacketIns, NEW n \in 1 .. MaxMessages
  PROVE  LET at == MatchAt + getMatchLenth(m) + FramePad IN
         /\ m.frame \in Nat /\ m.lldp \in BOOLEAN /\ at \in Nat
         /\ InBytes(m, n) \in Seq(Octet)
         /\ Len(InBytes(m, n)) = at + m.frame
         /\ Len(InBytes(m, n)) <= BufSize
         /\ \A j \in 1 .. m.frame : InBytes(m, n)[at + j] = FrameBytes(m, n)[j]
<1> DEFINE S == Octet
           h == Bytes(<<"header", n, 0>>, MatchAt + m.match)
           z == Zeros(Pad(m.match) + FramePad)
           f == FrameBytes(m, n)
           at == MatchAt + getMatchLenth(m) + FramePad
<1>1. /\ m.match \in Nat /\ m.frame \in Nat /\ m.lldp \in BOOLEAN
      /\ MatchAt \in Nat /\ n \in Nat /\ FramePad \in Nat
      /\ MatchAt + m.match \in Nat
  BY MessagesAssumption, LayoutAssumption DEF PacketIn, FramePad
<1>2. Pad(m.match) \in 0 .. 7 /\ Padded(m.match) = m.match + Pad(m.match)
  BY <1>1, PadType
<1>3. h \in Seq(S) /\ Len(h) = MatchAt + m.match
  BY <1>1, HeaderFacts
<1>4. z \in Seq(S) /\ Len(z) = Pad(m.match) + FramePad
  <2> DEFINE k == Pad(m.match) + FramePad
  <2>1. k \in Nat /\ Zero \in S
    BY <1>1, <1>2, OctetFacts
  <2> HIDE DEF k, S, Zero
  <2> QED BY <2>1, ZerosProperties DEF k
<1>5. f \in Seq(S) /\ Len(f) = m.frame
  BY <1>1, FrameFacts
<1>6. Len(InBytes(m, n)) <= BufSize
  BY BufferAssumption
<1>7. InBytes(m, n) = h \o z \o f
  BY DEF InBytes
<1>8. at = Len(h) + Len(z) /\ at \in Nat
  <2>1. at = MatchAt + (m.match + Pad(m.match)) + FramePad
    BY <1>2 DEF getMatchLenth
  <2> DEFINE k == Pad(m.match)
             w == m.match
  <2>2. k \in Nat /\ w \in Nat
    BY <1>1, <1>2
  <2> HIDE DEF h, z, at, k, w
  <2>3. /\ MatchAt + (w + k) + FramePad = (MatchAt + w) + (k + FramePad)
        /\ MatchAt + (w + k) + FramePad \in Nat
    BY <1>1, <2>2
  <2> QED BY <1>3, <1>4, <2>1, <2>3, Zenon DEF k, w
<1> HIDE DEF S, h, z, f, at
<1>9. \A x, y, w \in Seq(S) :
        x \o y \o w \in Seq(S) /\ Len(x \o y \o w) = Len(x) + Len(y) + Len(w)
  BY ThreeParts
<1>10. \A x, y, w \in Seq(S) : \A i \in 1 .. Len(x) + Len(y) + Len(w) :
         (x \o y \o w)[i]
           = IF i <= Len(x) THEN x[i]
             ELSE IF i <= Len(x) + Len(y) THEN y[i - Len(x)]
             ELSE w[i - (Len(x) + Len(y))]
  BY ThreeParts
<1>11. InBytes(m, n) \in Seq(S) /\ Len(InBytes(m, n)) = at + m.frame
  <2>1. /\ h \o z \o f \in Seq(S)
        /\ Len(h \o z \o f) = Len(h) + Len(z) + Len(f)
    BY <1>3, <1>4, <1>5, <1>9, Zenon
  <2> QED BY <1>5, <1>7, <1>8, <2>1, Zenon
<1>12. ASSUME NEW j \in 1 .. m.frame PROVE InBytes(m, n)[at + j] = f[j]
  <2> DEFINE i == at + j
  <2>0. Len(h) \in Nat /\ Len(z) \in Nat /\ Len(f) = m.frame /\ m.frame \in Nat
    BY <1>1, <1>3, <1>4, <1>5, LenProperties, Zenon
  <2>1. /\ i \in 1 .. Len(h) + Len(z) + Len(f)
        /\ ~(i <= Len(h)) /\ ~(i <= Len(h) + Len(z))
        /\ i - (Len(h) + Len(z)) = j
    <3> DEFINE H == Len(h)
               Z == Len(z)
    <3>1. i = (H + Z) + j /\ H \in Nat /\ Z \in Nat
      BY <1>8, <2>0
    <3> HIDE DEF H, Z, i
    <3>2. /\ i \in 1 .. H + Z + m.frame /\ ~(i <= H) /\ ~(i <= H + Z)
          /\ i - (H + Z) = j
      BY <2>0, <3>1
    <3> QED BY <2>0, <3>2 DEF H, Z
  <2> HIDE DEF i
  <2>2. (h \o z \o f)[i]
           = IF i <= Len(h) THEN h[i]
             ELSE IF i <= Len(h) + Len(z) THEN z[i - Len(h)]
             ELSE f[i - (Len(h) + Len(z))]
    BY <1>3, <1>4, <1>5, <1>10, <2>1, Zenon
  <2>3. (h \o z \o f)[i] = f[j]
    BY <2>1, <2>2, Zenon
  <2> QED BY <1>7, <2>3, Zenon DEF i
<1> QED BY <1>1, <1>6, <1>8, <1>11, <1>12 DEF S, f, at

LEMMA PacketInStep ==
  ASSUME IInv, NEW m \in PacketIns, DoPacketIn(m),
         count < MaxMessages, count' = count + 1
  PROVE  IInv' /\ PacketOutRightExactlyWhen' /\ ClassedByFrame'
<1> DEFINE n == count + 1
           old == buf["CLIENT"]
           S == Octet
           bytes == InBytes(m, n)
           mem == Overlaid(old, bytes)
           at == MatchAt + getMatchLenth(m) + FramePad
<1>1. /\ count \in Nat /\ n \in Nat /\ n \in 1 .. MaxMessages /\ MaxMessages \in Nat
      /\ BufSize \in Nat
      /\ "SERVER" \in Directions /\ "CLIENT" \in Directions
  BY MessagesAssumption DEF IInv, TypeOK, Directions
<1>2. /\ buf' = [buf EXCEPT !["CLIENT"] = mem]
      /\ header_length' = Len(bytes) /\ actions_len' = 0
      /\ \E lldp \in LldpOutcomes(mem, at) :
           arg' = IF lldp THEN LldpArg ELSE Arg(PI_QUEUE_ID, FALSE, 1)
      /\ last' = [type |-> ofp_type.OFPT_PACKET_IN, msg |-> m]
  BY DEF DoPacketIn
<1>4. old \in Seq(S) /\ Len(old) = BufSize
  BY <1>1 DEF IInv, TypeOK, Buffered
<1>5. /\ m.frame \in Nat /\ m.lldp \in BOOLEAN /\ at \in Nat
      /\ bytes \in Seq(S) /\ Len(bytes) = at + m.frame /\ Len(bytes) <= BufSize
      /\ \A j \in 1 .. m.frame : bytes[at + j] = FrameBytes(m, n)[j]
  <2> HIDE DEF n
  <2> QED BY <1>1, PacketInFacts
<1>6. /\ mem \in Seq(S) /\ Len(mem) = BufSize
      /\ \A i \in 1 .. Len(bytes) : mem[i] = bytes[i]
  <2> HIDE DEF S, old, bytes
  <2> QED BY <1>4, <1>5, OverlaidProperties
<1> HIDE DEF mem, bytes, old
<1>7. ASSUME \A lldp \in LldpOutcomes(mem, at) : lldp = m.lldp
      PROVE  arg' = LldpArg <=> m.lldp
  <2>1. arg' = IF m.lldp THEN LldpArg ELSE Arg(PI_QUEUE_ID, FALSE, 1)
    BY <1>2, <1>7
  <2> QED BY <2>1, ArgFacts, Zenon
<1>8. IInv'
  <2>1. /\ Buffered' /\ DOMAIN buf' = Directions
        /\ \A e \in Directions : Len(buf'[e]) = BufSize
    BY <1>1, <1>2, <1>6, BufferStep
  <2>2. /\ arg.qid' \in {IMPORTANT_QUEUE_ID, PI_QUEUE_ID, PO_QUEUE_1_ID,
                         PO_QUEUE_2_ID}
        /\ arg.xid' \in BOOLEAN /\ arg.max_wait_time' \in {0, 1}
    BY <1>2, ArgFacts DEF IMPORTANT_QUEUE_ID, LLDP_QUEUE_ID
  <2>3. /\ count' \in 0 .. MaxMessages /\ actions_len' \in Nat
        /\ header_length' \in 0 .. BufSize
    BY <1>1, <1>2, <1>5
  <2> QED BY <2>1, <2>2, <2>3 DEF IInv, TypeOK
<1>9. last'.type = ofp_type.OFPT_PACKET_IN /\ last'.msg = m
  BY <1>2
<1>10. PacketOutRightExactlyWhen'
  BY <1>9, TypesDiffer DEF PacketOutRightExactlyWhen
<1>11. ASSUME m.frame >= EthHeader
       PROVE  arg' = LldpArg <=> m.lldp
  <2>1. at + m.frame <= Len(mem)
    BY <1>5, <1>6
  <2>2. \A j \in 1 .. m.frame : mem[at + j] = FrameBytes(m, n)[j]
    BY <1>5, <1>6
  <2> HIDE DEF n, at
  <2>3. /\ m.frame \in Nat /\ m.lldp \in BOOLEAN /\ n \in Nat
        /\ mem \in Seq(Octet) /\ at \in Nat
    BY <1>1, <1>5, <1>6
  <2>4. \A lldp \in LldpOutcomes(mem, at) : lldp = m.lldp
    BY <1>11, <2>1, <2>2, <2>3, LldpIsSeen, Zenon
  <2> QED BY <1>7, <2>4
<1>12. ClassedByFrame'
  BY <1>9, <1>11, TypesDiffer DEF ClassedByFrame
<1> QED BY <1>8, <1>10, <1>12

LEMMA OtherStep ==
  ASSUME IInv, NEW d \in Directions, NEW m \in Others, DoOther(d, m),
         count < MaxMessages, count' = count + 1
  PROVE  IInv' /\ PacketOutRightExactlyWhen' /\ ClassedByFrame'
<1> DEFINE n == count + 1
           bytes == Bytes(<<"header", n, 0>>, m.length)
           mem == Overlaid(buf[d], bytes)
<1>1. /\ count \in Nat /\ n \in Nat /\ MaxMessages \in Nat /\ BufSize \in Nat
      /\ m.length \in Nat /\ m.length <= BufSize
      /\ DOMAIN buf = Directions
  BY MessagesAssumption, BufferAssumption DEF IInv, TypeOK, Other
<1>2. /\ buf' = [buf EXCEPT ![d] = mem]
      /\ header_length' = m.length /\ actions_len' = 0
      /\ arg' = Arg(IMPORTANT_QUEUE_ID, FALSE, 1)
      /\ last' = [type |-> ofp_type.OFPT_ECHO_REQUEST, msg |-> m]
  BY <1>1 DEF DoOther
<1>3. bytes \in Seq(Octet) /\ Len(bytes) = m.length
  <2> HIDE DEF n
  <2> QED BY <1>1, HeaderFacts
<1>4. buf[d] \in Seq(Octet) /\ Len(buf[d]) = BufSize
  BY DEF IInv, TypeOK, Buffered
<1>5. mem \in Seq(Octet) /\ Len(mem) = BufSize
  <2> HIDE DEF bytes
  <2> QED BY <1>1, <1>3, <1>4, OverlaidProperties
<1> HIDE DEF mem
<1>6. /\ Buffered' /\ DOMAIN buf' = Directions
      /\ \A e \in Directions : Len(buf'[e]) = BufSize
  BY <1>1, <1>2, <1>5, BufferStep
<1>7. /\ arg.qid' \in {IMPORTANT_QUEUE_ID, PI_QUEUE_ID, PO_QUEUE_1_ID,
                       PO_QUEUE_2_ID}
      /\ arg.xid' \in BOOLEAN /\ arg.max_wait_time' \in {0, 1}
  BY <1>2, ArgFacts DEF IMPORTANT_QUEUE_ID
<1>8. IInv'
  <2>1. /\ count' \in 0 .. MaxMessages /\ actions_len' \in Nat
        /\ header_length' \in 0 .. BufSize
    BY <1>1, <1>2
  <2> QED BY <1>6, <1>7, <2>1 DEF IInv, TypeOK
<1>9. last'.type = ofp_type.OFPT_ECHO_REQUEST
  BY <1>2
<1> QED BY <1>8, <1>9, TypesDiffer DEF PacketOutRightExactlyWhen, ClassedByFrame

-----------------------------------------------------------------------------
Settled == IInv /\ PacketOutRightExactlyWhen /\ ClassedByFrame

LEMMA Invariance == Spec => []Settled
<1>1. Init => Settled
  <2> SUFFICES ASSUME Init PROVE PacketOutRightExactlyWhen /\ ClassedByFrame
    BY InitIInv DEF Settled
  <2>1. last.type = ofp_type.OFPT_HELLO
    BY DEF Init, None
  <2> QED BY <2>1, TypesDiffer DEF PacketOutRightExactlyWhen, ClassedByFrame
<1>2. Settled /\ [Next]_vars => Settled'
  <2> SUFFICES ASSUME Settled, [Next]_vars PROVE Settled'
    OBVIOUS
  <2>1. IInv
    BY DEF Settled
  <2>2. ASSUME NEW m \in PacketOuts, DoPacketOut(m),
               count < MaxMessages, count' = count + 1
        PROVE  Settled'
    BY <2>1, <2>2, PacketOutStep DEF Settled
  <2>3. ASSUME NEW m \in PacketIns, DoPacketIn(m),
               count < MaxMessages, count' = count + 1
        PROVE  Settled'
    BY <2>1, <2>3, PacketInStep DEF Settled
  <2>4. ASSUME NEW d \in Directions, NEW m \in Others, DoOther(d, m),
               count < MaxMessages, count' = count + 1
        PROVE  Settled'
    BY <2>1, <2>4, OtherStep DEF Settled
  <2>5. CASE UNCHANGED vars
    BY <2>5 DEF Settled, IInv, TypeOK, Buffered, PacketOutRightExactlyWhen,
                ClassedByFrame, vars
  <2> QED BY <2>2, <2>3, <2>4, <2>5 DEF Next
<1> QED BY <1>1, <1>2, PTL DEF Spec

(* The types; a message always fits the buffer it is read into, and a       *)
(* rewritten one too.                                                      *)
THEOREM TypeCorrect == Spec => []TypeOK
<1>1. Settled => TypeOK
  BY DEF Settled, IInv
<1> QED BY <1>1, Invariance, PTL

(* Whatever came before it: a PACKET_OUT goes to the switch without its     *)
(* tags and otherwise whole exactly if it sets nothing but tags.           *)
THEOREM PacketOutRight == Spec => []PacketOutRightExactlyWhen
<1>1. Settled => PacketOutRightExactlyWhen
  BY DEF Settled
<1> QED BY <1>1, Invariance, PTL

(* Whatever came before it and whatever the buffer holds: the frame that a  *)
(* message carries decides how it is classed.                              *)
THEOREM ClassedRight == Spec => []ClassedByFrame
<1>1. Settled => ClassedByFrame
  BY DEF Settled
<1> QED BY <1>1, Invariance, PTL
=============================================================================
