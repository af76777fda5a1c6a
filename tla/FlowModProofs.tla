---------------------------- MODULE FlowModProofs ----------------------------
(***************************************************************************)
(* Proofs about FLOW_MODs: for any matches, instructions and actions and a *)
(* scratch buffer of any size, what the two walks and the copies in place  *)
(* leave of a message that they get through.                               *)
(***************************************************************************)
EXTENDS FlowModRewrite, WireProofs

(* The bytes of a flow mod; those in front of its second instruction.      *)
Tags == {"zero", "left", "match", "item", "inst", "action"}
Octet == (Tags \X Nat \X Nat) \X Nat
Second == <<"inst", 2, 0>>
InFront == {o \in Octet : o[1] # Second}

-----------------------------------------------------------------------------
(* Lists of elements.                                                      *)

(* The elements that are in K, one by one. *)
Elements(names, sizes, K) ==
  [i \in 1 .. Len(sizes) |->
     IF i \in K THEN Bytes(names[i], sizes[i]) ELSE <<>>]

(* The elements' bytes are in S. *)
Named(S, names, sizes) ==
  /\ Len(sizes) \in Nat
  /\ \A i \in 1 .. Len(sizes) :
       sizes[i] \in Nat /\ \A b \in 1 .. sizes[i] : <<names[i], b>> \in S

(* The items of f that are in K, and those of the match. *)
ItemNames(f) == [i \in 1 .. Len(f.items) |-> <<"item", i, 0>>]
ItemSizes(f) == [i \in 1 .. Len(f.items) |-> f.items[i].size]
Items(f, K) == Elements(ItemNames(f), ItemSizes(f), K)
ItemBytes(f, K) == FlattenSeq(Items(f, K))
AllItems(f) == 1 .. Len(f.items)
OtherItems(f) == {i \in 1 .. Len(f.items) : ~f.items[i].uep}

(* The actions of an instruction: all of them, those that the controller   *)
(* means the switch to get, and those that the program keeps.              *)
ActionNames(f, j) ==
  [i \in 1 .. Len(f.insts[j].actions) |-> <<"action", j, i>>]
ActionSizes(f, j) ==
  [i \in 1 .. Len(f.insts[j].actions) |-> f.insts[j].actions[i].size]
Actions(f, j, K) == Elements(ActionNames(f, j), ActionSizes(f, j), K)
ActionBytes(f, j, K) == FlattenSeq(Actions(f, j, K))
AllActions(f, j) == 1 .. Len(f.insts[j].actions)
UntaggedActions(f, j) ==
  {i \in AllActions(f, j) : ~f.insts[j].apply \/ ~f.insts[j].actions[i].uep}
KeptActions(f, j) ==
  {i \in AllActions(f, j) : ~f.insts[j].apply \/ ~f.insts[j].actions[i].set}

(* The match with the items in K, and the instruction with the actions.    *)
Match(f, K) ==
  Bytes(<<"match", 0, 0>>, MatchStart) \o ItemBytes(f, K) \o
  Zeros(Pad(MatchStart + Len(ItemBytes(f, K))))
InstBytes(f, j, K) ==
  Bytes(<<"inst", j, 0>>, InstStart) \o ActionBytes(f, j, K)
AllInsts(f) ==
  [j \in 1 .. Len(f.insts) |-> InstBytes(f, j, AllActions(f, j))]
UntaggedInsts(f) ==
  [j \in 1 .. Len(f.insts) |-> InstBytes(f, j, UntaggedActions(f, j))]

OldMatch(f) == Match(f, AllItems(f))
NewMatch(f) == Match(f, OtherItems(f))
FirstKept(f) == InstBytes(f, 1, KeptActions(f, 1))
FirstInst(f) == InstBytes(f, 1, AllActions(f, 1))

LEMMA OctetFacts ==
  /\ Zero \in InFront /\ InFront \subseteq Octet
  /\ Seq(InFront) \subseteq Seq(Octet)
<1>1. Zero \in InFront
  BY DEF InFront, Octet, Tags, Zero, Second
<1>2. InFront \subseteq Octet
  BY DEF InFront
<1>3. Seq(InFront) \subseteq Seq(Octet)
  BY <1>2
<1> QED BY <1>1, <1>2, <1>3

LEMMA ElementsProperties ==
  ASSUME NEW S, NEW names, NEW sizes, Named(S, names, sizes), NEW K
  PROVE  /\ Elements(names, sizes, K) \in Seq(Seq(S))
         /\ Len(Elements(names, sizes, K)) = Len(sizes)
         /\ \A i \in 1 .. Len(sizes) :
              Elements(names, sizes, K)[i]
                = IF i \in K THEN Bytes(names[i], sizes[i]) ELSE <<>>
         /\ \A i \in 1 .. Len(sizes) :
              Len(Elements(names, sizes, K)[i]) = IF i \in K THEN sizes[i] ELSE 0
<1> DEFINE n == Len(sizes)
           s == Elements(names, sizes, K)
           e(i) == IF i \in K THEN Bytes(names[i], sizes[i]) ELSE <<>>
<1>1. ASSUME NEW i \in 1 .. n
      PROVE  e(i) \in Seq(S) /\ Len(e(i)) = IF i \in K THEN sizes[i] ELSE 0
  <2>1. CASE i \in K
    <3> DEFINE nm == names[i]
               sz == sizes[i]
    <3>1. sz \in Nat /\ \A b \in 1 .. sz : <<nm, b>> \in S
      BY DEF Named
    <3> HIDE DEF nm, sz
    <3>2. Bytes(nm, sz) \in Seq(S)
      BY <3>1, BytesProperties
    <3>3. Len(Bytes(nm, sz)) = sz
      BY <3>1 DEF Bytes
    <3> QED BY <2>1, <3>2, <3>3 DEF nm, sz
  <2>2. CASE i \notin K
    BY <2>2, EmptySeq
  <2> QED BY <2>1, <2>2
<1>2. s = [i \in 1 .. n |-> e(i)]
  BY DEF Elements
<1>3. n \in Nat
  BY DEF Named
<1> HIDE DEF s, e, n
<1>4. s \in Seq(Seq(S))
  BY <1>1, <1>2, <1>3
<1>5. Len(s) = n
  BY <1>2, <1>3
<1>6. \A i \in 1 .. n : s[i] = e(i)
  BY <1>2
<1>7. \A i \in 1 .. n : Len(s[i]) = IF i \in K THEN sizes[i] ELSE 0
  BY <1>1, <1>6
<1> QED BY <1>4, <1>5, <1>6, <1>7 DEF s, e, n

LEMMA ElementsType ==
  ASSUME NEW S, NEW names, NEW sizes, Named(S, names, sizes), NEW K
  PROVE  Elements(names, sizes, K) \in Seq(Seq(S))
BY ElementsProperties

LEMMA ElementsLength ==
  ASSUME NEW S, NEW names, NEW sizes, Named(S, names, sizes), NEW K
  PROVE  Len(Elements(names, sizes, K)) = Len(sizes)
BY ElementsProperties

LEMMA ElementSizes ==
  ASSUME NEW S, NEW names, NEW sizes, Named(S, names, sizes), NEW K
  PROVE  \A i \in 1 .. Len(sizes) :
           Len(Elements(names, sizes, K)[i]) = IF i \in K THEN sizes[i] ELSE 0
BY ElementsProperties

(* A list of fewer elements is shorter. *)
LEMMA FewerElements ==
  ASSUME NEW S, NEW names, NEW sizes, Named(S, names, sizes),
         \A i \in 1 .. Len(sizes) : sizes[i] > 0,
         NEW K, NEW J, K \subseteq J, J \subseteq 1 .. Len(sizes)
  PROVE  /\ Len(FlattenSeq(Elements(names, sizes, K)))
              <= Len(FlattenSeq(Elements(names, sizes, J)))
         /\ K # J => Len(FlattenSeq(Elements(names, sizes, K)))
                       < Len(FlattenSeq(Elements(names, sizes, J)))
<1> DEFINE n == Len(sizes)
           s == Elements(names, sizes, K)
           t == Elements(names, sizes, J)
<1>1. s \in Seq(Seq(S)) /\ t \in Seq(Seq(S))
  BY ElementsType
<1>2. Len(s) = n
  BY ElementsLength
<1>20. Len(t) = n
  BY ElementsLength
<1>3. \A i \in 1 .. n : Len(s[i]) = IF i \in K THEN sizes[i] ELSE 0
  BY ElementSizes
<1>4. \A i \in 1 .. n : Len(t[i]) = IF i \in J THEN sizes[i] ELSE 0
  BY ElementSizes
<1>5. \A i \in 1 .. n : sizes[i] \in Nat /\ sizes[i] > 0
  BY DEF Named
<1> HIDE DEF s, t
<1>6. \A i \in 1 .. Len(s) : Len(s[i]) <= Len(t[i])
  BY <1>2, <1>3, <1>4, <1>5
<1>7. K # J => \E i \in 1 .. Len(s) : Len(s[i]) < Len(t[i])
  <2> SUFFICES ASSUME K # J PROVE \E i \in 1 .. Len(s) : Len(s[i]) < Len(t[i])
    OBVIOUS
  <2>1. PICK i \in 1 .. n : i \in J /\ i \notin K
    OBVIOUS
  <2>2. Len(s[i]) = 0 /\ Len(t[i]) > 0
    BY <1>3, <1>4, <1>5, <2>1
  <2> QED BY <1>2, <2>2
<1>8. Len(s) = Len(t)
  BY <1>2, <1>20
<1>9. Len(FlattenSeq(s)) <= Len(FlattenSeq(t))
  BY <1>1, <1>6, <1>8, FlattenLonger
<1>10. (\E i \in 1 .. Len(s) : Len(s[i]) < Len(t[i]))
         => Len(FlattenSeq(s)) < Len(FlattenSeq(t))
  BY <1>1, <1>6, <1>8, FlattenLonger
<1> QED BY <1>7, <1>9, <1>10 DEF s, t

-----------------------------------------------------------------------------
(* The parts of a flow mod.                                                *)

LEMMA FlowModFacts ==
  ASSUME NEW f \in FlowMods
  PROVE  /\ f.items \in Seq(Item) /\ f.insts \in Seq(Inst)
         /\ Len(f.items) \in Nat /\ Len(f.insts) \in Nat
         /\ \A i \in 1 .. Len(f.items) :
              /\ f.items[i].size \in Nat /\ f.items[i].size > 4
              /\ f.items[i].uep \in BOOLEAN
         /\ \A j \in 1 .. Len(f.insts) :
              /\ f.insts[j].apply \in BOOLEAN
              /\ Len(f.insts[j].actions) \in Nat
<1>1. f \in FlowMod
  BY FlowModsAssumption
<1>2. f.items \in Seq(Item) /\ f.insts \in Seq(Inst)
  BY <1>1 DEF FlowMod
<1>3. Len(f.items) \in Nat /\ Len(f.insts) \in Nat
  BY <1>2
<1>4. ASSUME NEW i \in 1 .. Len(f.items)
      PROVE  /\ f.items[i].size \in Nat /\ f.items[i].size > 4
             /\ f.items[i].uep \in BOOLEAN
  <2>1. f.items[i] \in Item /\ i \in DOMAIN f.items
    BY <1>2
  <2>2. f.items[i].size > 4
    BY <2>1, FlowModsAssumption
  <2> QED BY <2>1, <2>2 DEF Item
<1>5. ASSUME NEW j \in 1 .. Len(f.insts)
      PROVE  f.insts[j].apply \in BOOLEAN /\ Len(f.insts[j].actions) \in Nat
  <2>1. f.insts[j] \in Inst
    BY <1>2
  <2>2. f.insts[j].actions \in Seq(Action) /\ f.insts[j].apply \in BOOLEAN
    BY <2>1 DEF Inst
  <2> QED BY <2>2
<1> QED BY <1>2, <1>3, <1>4, <1>5

LEMMA ActionFacts ==
  ASSUME NEW f \in FlowMods, NEW j \in 1 .. Len(f.insts),
         NEW i \in 1 .. Len(f.insts[j].actions)
  PROVE  /\ f.insts[j].actions[i].size \in Nat /\ f.insts[j].actions[i].size > 0
         /\ f.insts[j].actions[i].set \in BOOLEAN
         /\ f.insts[j].actions[i].uep \in BOOLEAN
         /\ f.insts[j].actions[i].uep => f.insts[j].actions[i].set
         /\ f.insts[j].actions[i].len \in {0, f.insts[j].actions[i].size}
<1>1. f.insts[j] \in Inst /\ j \in DOMAIN f.insts
  BY FlowModFacts
<1>2. f.insts[j].actions \in Seq(Action)
  BY <1>1 DEF Inst
<1>3. f.insts[j].actions[i] \in Action /\ i \in DOMAIN f.insts[j].actions
  BY <1>2
<1>4. /\ f.insts[j].actions[i].size > 0
      /\ f.insts[j].actions[i].uep => f.insts[j].actions[i].set
      /\ f.insts[j].actions[i].len \in {0, f.insts[j].actions[i].size}
  BY <1>1, <1>3, FlowModsAssumption
<1> QED BY <1>3, <1>4 DEF Action

LEMMA ItemsNamed ==
  ASSUME NEW f \in FlowMods
  PROVE  /\ Named(InFront, ItemNames(f), ItemSizes(f))
         /\ Len(ItemSizes(f)) = Len(f.items)
         /\ \A i \in 1 .. Len(f.items) : /\ ItemSizes(f)[i] = f.items[i].size
                                         /\ ItemNames(f)[i] = <<"item", i, 0>>
<1>1. Len(f.items) \in Nat
  BY FlowModFacts
<1>2. Len(ItemSizes(f)) = Len(f.items)
  BY <1>1 DEF ItemSizes
<1>3. \A i \in 1 .. Len(f.items) : /\ ItemSizes(f)[i] = f.items[i].size
                                   /\ ItemNames(f)[i] = <<"item", i, 0>>
  BY DEF ItemSizes, ItemNames
<1>4. ASSUME NEW i \in 1 .. Len(f.items)
      PROVE  /\ ItemSizes(f)[i] \in Nat
             /\ \A b \in 1 .. ItemSizes(f)[i] : <<ItemNames(f)[i], b>> \in InFront
  <2>1. ItemSizes(f)[i] \in Nat
    BY <1>3, FlowModFacts
  <2> DEFINE e == <<"item", i, 0>>
             sz == ItemSizes(f)[i]
  <2>2. \A b \in Nat : <<e, b>> \in InFront
    BY DEF InFront, Octet, Tags, Second
  <2>3. ItemNames(f)[i] = e
    BY <1>3
  <2>4. sz \in Nat
    BY <2>1
  <2> HIDE DEF e, sz
  <2>5. \A b \in 1 .. sz : <<e, b>> \in InFront
    BY <2>2, <2>4
  <2>6. \A b \in 1 .. sz : <<ItemNames(f)[i], b>> \in InFront
    BY <2>3, <2>5
  <2> QED BY <2>4, <2>6 DEF sz
<1>5. Named(InFront, ItemNames(f), ItemSizes(f))
  BY <1>1, <1>2, <1>4 DEF Named
<1> QED BY <1>2, <1>3, <1>5

LEMMA ActionsNamed ==
  ASSUME NEW f \in FlowMods, NEW j \in 1 .. Len(f.insts)
  PROVE  /\ Named(InFront, ActionNames(f, j), ActionSizes(f, j))
         /\ Len(ActionSizes(f, j)) = Len(f.insts[j].actions)
         /\ \A i \in 1 .. Len(f.insts[j].actions) :
              /\ ActionSizes(f, j)[i] = f.insts[j].actions[i].size
              /\ ActionNames(f, j)[i] = <<"action", j, i>>
<1>1. Len(f.insts[j].actions) \in Nat
  BY FlowModFacts
<1>2. Len(ActionSizes(f, j)) = Len(f.insts[j].actions)
  BY <1>1 DEF ActionSizes
<1>3. \A i \in 1 .. Len(f.insts[j].actions) :
        /\ ActionSizes(f, j)[i] = f.insts[j].actions[i].size
        /\ ActionNames(f, j)[i] = <<"action", j, i>>
  BY DEF ActionSizes, ActionNames
<1>4. ASSUME NEW i \in 1 .. Len(f.insts[j].actions)
      PROVE  /\ ActionSizes(f, j)[i] \in Nat
             /\ \A b \in 1 .. ActionSizes(f, j)[i] :
                  <<ActionNames(f, j)[i], b>> \in InFront
  <2>1. ActionSizes(f, j)[i] \in Nat
    BY <1>3, ActionFacts
  <2> DEFINE e == <<"action", j, i>>
             sz == ActionSizes(f, j)[i]
  <2>2. \A b \in Nat : <<e, b>> \in InFront
    BY DEF InFront, Octet, Tags, Second
  <2>3. ActionNames(f, j)[i] = e
    BY <1>3
  <2>4. sz \in Nat
    BY <2>1
  <2> HIDE DEF e, sz
  <2>5. \A b \in 1 .. sz : <<e, b>> \in InFront
    BY <2>2, <2>4
  <2>6. \A b \in 1 .. sz : <<ActionNames(f, j)[i], b>> \in InFront
    BY <2>3, <2>5
  <2> QED BY <2>4, <2>6 DEF sz
<1>5. Named(InFront, ActionNames(f, j), ActionSizes(f, j))
  BY <1>1, <1>2, <1>4 DEF Named
<1> QED BY <1>2, <1>3, <1>5

LEMMA ItemBytesType ==
  ASSUME NEW f \in FlowMods, NEW K
  PROVE  /\ Items(f, K) \in Seq(Seq(InFront)) /\ Len(Items(f, K)) = Len(f.items)
         /\ ItemBytes(f, K) \in Seq(InFront) /\ Len(ItemBytes(f, K)) \in Nat
<1>1. Items(f, K) \in Seq(Seq(InFront))
  BY ItemsNamed, ElementsType DEF Items
<1>2. Len(Items(f, K)) = Len(f.items)
  BY ItemsNamed, ElementsLength DEF Items
<1>3. ItemBytes(f, K) \in Seq(InFront)
  BY <1>1, FlattenType DEF ItemBytes
<1> QED BY <1>1, <1>2, <1>3

LEMMA ActionBytesType ==
  ASSUME NEW f \in FlowMods, NEW j \in 1 .. Len(f.insts), NEW K
  PROVE  /\ Actions(f, j, K) \in Seq(Seq(InFront))
         /\ Len(Actions(f, j, K)) = Len(f.insts[j].actions)
         /\ ActionBytes(f, j, K) \in Seq(InFront)
         /\ Len(ActionBytes(f, j, K)) \in Nat
<1>1. Actions(f, j, K) \in Seq(Seq(InFront))
  BY ActionsNamed, ElementsType DEF Actions
<1>2. Len(Actions(f, j, K)) = Len(f.insts[j].actions)
  BY ActionsNamed, ElementsLength DEF Actions
<1>3. ActionBytes(f, j, K) \in Seq(InFront)
  BY <1>1, FlattenType DEF ActionBytes
<1> QED BY <1>1, <1>2, <1>3

LEMMA MatchHeader ==
  /\ Bytes(<<"match", 0, 0>>, 4) \in Seq(InFront)
  /\ Bytes(<<"match", 0, 0>>, 4) \in Seq(Octet)
  /\ Len(Bytes(<<"match", 0, 0>>, 4)) = 4
<1> DEFINE e == <<"match", 0, 0>>
<1>1. \A i \in 1 .. 4 : <<e, i>> \in InFront
  BY DEF InFront, Octet, Tags, Second
<1>2. 4 \in Nat
  OBVIOUS
<1> HIDE DEF e
<1>3. Bytes(e, 4) \in Seq(InFront)
  BY <1>1, <1>2, BytesProperties
<1>4. Len(Bytes(e, 4)) = 4
  BY DEF Bytes
<1> QED BY <1>3, <1>4, OctetFacts DEF e

(* A match is its header, its items and their padding. *)
LEMMA MatchType ==
  ASSUME NEW f \in FlowMods, NEW K
  PROVE  LET n == MatchStart + Len(ItemBytes(f, K)) IN
         /\ n \in Nat /\ Match(f, K) \in Seq(InFront)
         /\ Len(Match(f, K)) = Padded(n) /\ Padded(n) = n + Pad(n)
         /\ Pad(n) \in 0 .. 7
<1> DEFINE n == MatchStart + Len(ItemBytes(f, K))
           h == Bytes(<<"match", 0, 0>>, MatchStart)
           x == ItemBytes(f, K)
           z == Zeros(Pad(n))
<1>1. x \in Seq(InFront) /\ Len(x) \in Nat
  BY ItemBytesType
<1>2. MatchStart \in Nat
  BY LayoutAssumption
<1>3. n \in Nat
  BY <1>1, <1>2
<1> DEFINE p == Pad(n)
<1>4. p \in 0 .. 7 /\ Padded(n) = n + p
  BY <1>3, PadType
<1>5. h \in Seq(InFront) /\ Len(h) = MatchStart
  BY LayoutAssumption, MatchHeader
<1>6. p \in Nat
  BY <1>4
<1> HIDE DEF p
<1>7. Zeros(p) \in Seq(InFront) /\ Len(Zeros(p)) = p
  <2>1. Zeros(p) \in Seq(InFront)
    BY <1>6, OctetFacts, ZerosProperties
  <2>2. Len(Zeros(p)) = p
    BY <1>6 DEF Zeros
  <2> QED BY <2>1, <2>2
<1>8. z = Zeros(p)
  BY DEF p
<1>9. Match(f, K) = h \o x \o z
  BY DEF Match
<1> HIDE DEF h, x, z
<1>10. h \o x \o z \in Seq(InFront)
  BY <1>1, <1>5, <1>7, <1>8
<1>11. Len(h \o x \o z) = Len(h) + Len(x) + Len(z)
  <2>1. z \in Seq(InFront)
    BY <1>7, <1>8
  <2> DEFINE y == h \o x
  <2>2. y \in Seq(InFront) /\ Len(y) = Len(h) + Len(x)
    BY <1>1, <1>5, JoinAt
  <2> HIDE DEF y
  <2>3. Len(y \o z) = Len(y) + Len(z)
    BY <2>1, <2>2, JoinAt
  <2> QED BY <2>2, <2>3 DEF y
<1>12. Len(h \o x \o z) = Padded(n)
  BY <1>1, <1>2, <1>4, <1>5, <1>6, <1>7, <1>8, <1>11 DEF x
<1> QED BY <1>3, <1>4, <1>9, <1>10, <1>12 DEF p

LEMMA InstType ==
  ASSUME NEW f \in FlowMods, NEW j \in 1 .. Len(f.insts), NEW K
  PROVE  /\ InstBytes(f, j, K) \in Seq(Octet)
         /\ j = 1 => InstBytes(f, j, K) \in Seq(InFront)
         /\ Len(InstBytes(f, j, K)) = 8 + Len(ActionBytes(f, j, K))
         /\ Bytes(<<"inst", j, 0>>, InstStart) \in Seq(Octet)
         /\ Len(Bytes(<<"inst", j, 0>>, InstStart)) = 8
<1> DEFINE e == <<"inst", j, 0>>
           h == Bytes(e, 8)
           x == ActionBytes(f, j, K)
<1>1. x \in Seq(InFront) /\ Len(x) \in Nat /\ x \in Seq(Octet)
  BY ActionBytesType, OctetFacts
<1>2. \A i \in 1 .. 8 : <<e, i>> \in Octet
  BY DEF Octet, Tags
<1>3. j = 1 => \A i \in 1 .. 8 : <<e, i>> \in InFront
  BY DEF InFront, Octet, Tags, Second
<1>4. InstBytes(f, j, K) = h \o x
  BY LayoutAssumption DEF InstBytes
<1>50. 8 \in Nat
  OBVIOUS
<1> HIDE DEF e, x
<1>5. h \in Seq(Octet)
  BY <1>2, <1>50, BytesProperties
<1>6. j = 1 => h \in Seq(InFront)
  BY <1>3, <1>50, BytesProperties
<1>7. Len(h) = 8
  BY DEF Bytes
<1> HIDE DEF h
<1>8. h \o x \in Seq(Octet) /\ (j = 1 => h \o x \in Seq(InFront))
  BY <1>1, <1>5, <1>6
<1>9. Len(h \o x) = 8 + Len(x)
  <2>1. \A T : \A u, v \in Seq(T) : Len(u \o v) = Len(u) + Len(v)
    BY JoinAt
  <2>2. Len(h \o x) = Len(h) + Len(x)
    BY <1>1, <1>5, <2>1, ZenonT(20)
  <2> QED BY <1>7, <2>2
<1>10. h = Bytes(<<"inst", j, 0>>, InstStart)
  BY LayoutAssumption DEF h, e
<1> QED BY <1>4, <1>5, <1>7, <1>8, <1>9, <1>10 DEF x

LEMMA InstsType ==
  ASSUME NEW f \in FlowMods
  PROVE  /\ AllInsts(f) \in Seq(Seq(Octet)) /\ UntaggedInsts(f) \in Seq(Seq(Octet))
         /\ Len(AllInsts(f)) = Len(f.insts) /\ Len(UntaggedInsts(f)) = Len(f.insts)
         /\ \A j \in 1 .. Len(f.insts) :
              /\ AllInsts(f)[j] = InstBytes(f, j, AllActions(f, j))
              /\ UntaggedInsts(f)[j] = InstBytes(f, j, UntaggedActions(f, j))
<1> DEFINE n == Len(f.insts)
<1>1. n \in Nat
  BY FlowModFacts
<1>2. \A j \in 1 .. n : /\ InstBytes(f, j, AllActions(f, j)) \in Seq(Octet)
                        /\ InstBytes(f, j, UntaggedActions(f, j)) \in Seq(Octet)
  BY InstType
<1> HIDE DEF n
<1>3. /\ [j \in 1 .. n |-> InstBytes(f, j, AllActions(f, j))] \in Seq(Seq(Octet))
      /\ [j \in 1 .. n |-> InstBytes(f, j, UntaggedActions(f, j))] \in Seq(Seq(Octet))
  BY <1>1, <1>2
<1>4. /\ Len([j \in 1 .. n |-> InstBytes(f, j, AllActions(f, j))]) = n
      /\ Len([j \in 1 .. n |-> InstBytes(f, j, UntaggedActions(f, j))]) = n
  BY <1>1
<1> QED BY <1>1, <1>3, <1>4 DEF AllInsts, UntaggedInsts, n

(* The operators of the program's model, in terms of those above. *)
LEMMA WireItemsBytes ==
  ASSUME NEW f \in FlowMods
  PROVE  /\ WireItems(f, Everything) = ItemBytes(f, AllItems(f))
         /\ WireItems(f, Untagged) = ItemBytes(f, OtherItems(f))
<1> DEFINE n == Len(f.items)
           e(i) == Bytes(<<"item", i, 0>>, f.items[i].size)
<1>1. n \in Nat
  BY FlowModFacts
<1>2. Len(ItemSizes(f)) = n
  BY ItemsNamed
<1>3. \A i \in 1 .. n : Bytes(ItemNames(f)[i], ItemSizes(f)[i]) = e(i)
  BY ItemsNamed
<1>4. ASSUME NEW K
      PROVE  Items(f, K) = [i \in 1 .. n |-> IF i \in K THEN e(i) ELSE <<>>]
  BY <1>2, <1>3 DEF Items, Elements
<1>5. WireItems(f, Everything)
        = FlattenSeq([i \in 1 .. n |-> IF TRUE THEN e(i) ELSE <<>>])
  BY DEF WireItems, Wire, Everything, ItemName
<1>6. WireItems(f, Untagged)
        = FlattenSeq([i \in 1 .. n |-> IF ~f.items[i].uep THEN e(i) ELSE <<>>])
  BY DEF WireItems, Wire, Untagged, ItemName
<1> HIDE DEF e
<1>7. Items(f, AllItems(f)) = [i \in 1 .. n |-> IF TRUE THEN e(i) ELSE <<>>]
  BY <1>4 DEF AllItems
<1>8. Items(f, OtherItems(f))
        = [i \in 1 .. n |-> IF ~f.items[i].uep THEN e(i) ELSE <<>>]
  BY <1>4 DEF OtherItems
<1> QED BY <1>5, <1>6, <1>7, <1>8 DEF ItemBytes

LEMMA WireInstBytes ==
  ASSUME NEW f \in FlowMods, NEW j \in 1 .. Len(f.insts)
  PROVE  /\ WireInst(f, j, Everything) = InstBytes(f, j, AllActions(f, j))
         /\ WireInst(f, j, Untagged) = InstBytes(f, j, UntaggedActions(f, j))
<1> DEFINE n == Len(f.insts[j].actions)
           e(i) == Bytes(<<"action", j, i>>, f.insts[j].actions[i].size)
           h == Bytes(<<"inst", j, 0>>, InstStart)
           c(i) == ~f.insts[j].apply \/ ~f.insts[j].actions[i].uep
<1>1. n \in Nat
  BY FlowModFacts
<1>2. Len(ActionSizes(f, j)) = n
  BY ActionsNamed
<1>3. \A i \in 1 .. n : Bytes(ActionNames(f, j)[i], ActionSizes(f, j)[i]) = e(i)
  BY ActionsNamed
<1>4. ASSUME NEW K
      PROVE  Actions(f, j, K) = [i \in 1 .. n |-> IF i \in K THEN e(i) ELSE <<>>]
  BY <1>2, <1>3 DEF Actions, Elements
<1>5. WireInst(f, j, Everything)
        = h \o FlattenSeq([i \in 1 .. n |-> IF ~f.insts[j].apply \/ TRUE
                                            THEN e(i) ELSE <<>>])
  BY DEF WireInst, Wire, Everything
<1>6. WireInst(f, j, Untagged)
        = h \o FlattenSeq([i \in 1 .. n |-> IF c(i) THEN e(i) ELSE <<>>])
  BY DEF WireInst, Wire, Untagged
<1> HIDE DEF e
<1>7. Actions(f, j, AllActions(f, j))
        = [i \in 1 .. n |-> IF ~f.insts[j].apply \/ TRUE THEN e(i) ELSE <<>>]
  BY <1>4 DEF AllActions
<1>8. \A i \in 1 .. n : i \in UntaggedActions(f, j) <=> c(i)
  BY DEF UntaggedActions, AllActions
<1> HIDE DEF c
<1>9. Actions(f, j, UntaggedActions(f, j))
        = [i \in 1 .. n |-> IF c(i) THEN e(i) ELSE <<>>]
  BY <1>4, <1>8
<1> QED BY <1>5, <1>6, <1>7, <1>9 DEF ActionBytes, InstBytes

LEMMA ReceivedIs ==
  ASSUME NEW f \in FlowMods
  PROVE  LET body == OldMatch(f) \o FlattenSeq(AllInsts(f)) IN
         Received(f) = [header |-> Fixed + Len(body),
                        match |-> MatchStart + Len(ItemBytes(f, AllItems(f))),
                        inst |-> IF f.insts = <<>> THEN 0 ELSE Len(FirstInst(f)),
                        body |-> body]
<1> DEFINE l == MatchStart + Len(ItemBytes(f, AllItems(f)))
           is == AllInsts(f)
<1>1. WireItems(f, Everything) = ItemBytes(f, AllItems(f))
  BY WireItemsBytes
<1>2. [j \in 1 .. Len(f.insts) |-> WireInst(f, j, Everything)] = is
  BY WireInstBytes DEF AllInsts
<1>3. is = <<>> <=> f.insts = <<>>
  BY InstsType, FlowModFacts
<1>4. f.insts # <<>> => is[1] = FirstInst(f)
  <2>1. f.insts # <<>> => 1 \in 1 .. Len(f.insts)
    BY FlowModFacts
  <2> QED BY <2>1, InstsType DEF FirstInst
<1>5. Bytes(<<"match", 0, 0>>, MatchStart) \o ItemBytes(f, AllItems(f)) \o
        Zeros(Pad(l)) = OldMatch(f)
  BY DEF OldMatch, Match
<1> HIDE DEF l, is
<1> DEFINE b == OldMatch(f) \o FlattenSeq(is)
<1>6. Received(f) = [header |-> Fixed + Len(b), match |-> l,
                     inst |-> IF is = <<>> THEN 0 ELSE Len(is[1]), body |-> b]
  <2> DEFINE w == WireItems(f, Everything)
             v == [j \in 1 .. Len(f.insts) |-> WireInst(f, j, Everything)]
             m == Bytes(<<"match", 0, 0>>, MatchStart)
             c(x, n, y) == m \o x \o Zeros(Pad(n)) \o y
  <2>1. Received(f) = [header |-> Fixed + Len(c(w, MatchStart + Len(w), FlattenSeq(v))),
                       match |-> MatchStart + Len(w),
                       inst |-> IF v = <<>> THEN 0 ELSE Len(v[1]),
                       body |-> c(w, MatchStart + Len(w), FlattenSeq(v))]
    BY Zenon DEF Received, OnWire
  <2>2. w = ItemBytes(f, AllItems(f)) /\ v = is
    BY <1>1, <1>2
  <2>3. MatchStart + Len(w) = l
    BY <2>2 DEF l
  <2>4. c(ItemBytes(f, AllItems(f)), l, FlattenSeq(is)) = b
    BY <1>5
  <2> HIDE DEF w, v, c, b
  <2> QED BY <2>1, <2>2, <2>3, <2>4
<1>7. (IF is = <<>> THEN 0 ELSE Len(is[1]))
        = IF f.insts = <<>> THEN 0 ELSE Len(FirstInst(f))
  BY <1>3, <1>4
<1> QED BY <1>6, <1>7 DEF l, is

LEMMA ExpectedIs ==
  ASSUME NEW f \in FlowMods
  PROVE  LET body == NewMatch(f) \o FlattenSeq(UntaggedInsts(f)) IN
         Expected(f) = [header |-> Fixed + Len(body),
                        match |-> MatchStart + Len(ItemBytes(f, OtherItems(f))),
                        inst |-> IF f.insts = <<>> THEN 0
                                 ELSE Len(InstBytes(f, 1, UntaggedActions(f, 1))),
                        body |-> body]
<1> DEFINE l == MatchStart + Len(ItemBytes(f, OtherItems(f)))
           is == UntaggedInsts(f)
<1>1. WireItems(f, Untagged) = ItemBytes(f, OtherItems(f))
  BY WireItemsBytes
<1>2. [j \in 1 .. Len(f.insts) |-> WireInst(f, j, Untagged)] = is
  BY WireInstBytes DEF UntaggedInsts
<1>3. is = <<>> <=> f.insts = <<>>
  BY InstsType, FlowModFacts
<1>4. f.insts # <<>> => is[1] = InstBytes(f, 1, UntaggedActions(f, 1))
  <2>1. f.insts # <<>> => 1 \in 1 .. Len(f.insts)
    BY FlowModFacts
  <2> QED BY <2>1, InstsType
<1>5. Bytes(<<"match", 0, 0>>, MatchStart) \o ItemBytes(f, OtherItems(f)) \o
        Zeros(Pad(l)) = NewMatch(f)
  BY DEF NewMatch, Match
<1> HIDE DEF l, is
<1> DEFINE b == NewMatch(f) \o FlattenSeq(is)
<1>6. Expected(f) = [header |-> Fixed + Len(b), match |-> l,
                     inst |-> IF is = <<>> THEN 0 ELSE Len(is[1]), body |-> b]
  <2> DEFINE w == WireItems(f, Untagged)
             v == [j \in 1 .. Len(f.insts) |-> WireInst(f, j, Untagged)]
             m == Bytes(<<"match", 0, 0>>, MatchStart)
             c(x, n, y) == m \o x \o Zeros(Pad(n)) \o y
  <2>1. Expected(f) = [header |-> Fixed + Len(c(w, MatchStart + Len(w), FlattenSeq(v))),
                       match |-> MatchStart + Len(w),
                       inst |-> IF v = <<>> THEN 0 ELSE Len(v[1]),
                       body |-> c(w, MatchStart + Len(w), FlattenSeq(v))]
    BY Zenon DEF Expected, OnWire
  <2>2. w = ItemBytes(f, OtherItems(f)) /\ v = is
    BY <1>1, <1>2
  <2>3. MatchStart + Len(w) = l
    BY <2>2 DEF l
  <2>4. c(ItemBytes(f, OtherItems(f)), l, FlattenSeq(is)) = b
    BY <1>5
  <2> HIDE DEF w, v, c, b
  <2> QED BY <2>1, <2>2, <2>3, <2>4
<1>7. (IF is = <<>> THEN 0 ELSE Len(is[1]))
        = IF f.insts = <<>> THEN 0 ELSE Len(InstBytes(f, 1, UntaggedActions(f, 1)))
  BY <1>3, <1>4
<1> QED BY <1>6, <1>7 DEF l, is

-----------------------------------------------------------------------------
(* The inductive invariant.                                                *)

(* What the header is not told of, and what leaves the first instruction   *)
(* when only the actions in K are left of it.                              *)
LostPad(f) ==
  IF Pad(MatchStart + Len(ItemBytes(f, OtherItems(f)))) = 0
  THEN Pad(MatchStart + Len(ItemBytes(f, AllItems(f)))) ELSE 0
Gone(f, K) ==
  IF f.insts = <<>> THEN 0 ELSE Len(FirstInst(f)) - Len(InstBytes(f, 1, K))

(* The new message, but for what is behind the first instruction. *)
Rewritten(f, K) ==
  LET first == InstBytes(f, 1, K)
      len   == Len(NewMatch(f))
  IN
  /\ new_len = len
  /\ match_length = MatchStart + Len(ItemBytes(f, OtherItems(f)))
  /\ header_length + Gone(f, K)
       = Fixed + len + LostPad(f) + Len(FlattenSeq(AllInsts(f)))
  /\ inst_length = IF f.insts = <<>> THEN 0 ELSE Len(first)
  /\ msg \in Seq(Octet)
  /\ Holds(msg, 0, NewMatch(f))
  /\ f.insts # <<>> => Holds(msg, len, first)
  /\ len = Len(OldMatch(f)) /\ Gone(f, K) = 0
       => Holds(msg, len, FlattenSeq(AllInsts(f)))
  /\ Len(f.insts) >= 2 /\ (len # Len(OldMatch(f)) \/ Gone(f, K) # 0)
       => /\ len + Len(first) + 1 <= Len(msg)
          /\ msg[len + Len(first) + 1] \in InFront

(* A walk that has read k of the elements, and e bytes of padding, and     *)
(* copied those it keeps into the c bytes that were cleared.               *)
Walked(all, kept, from, to, k, e, c) ==
  /\ item = from + Len(Upto(all, k)) + e
  /\ new_item = to + Len(Upto(kept, k)) + e
  /\ removed + Len(Upto(kept, k)) = Len(Upto(all, k))
  /\ filter_buf \in Seq(Octet) /\ Filled(filter_buf, c, to, Upto(kept, k))

(* A walk that stays at the action behind the first k: it has no length.   *)
Stays(f, all, from, k) ==
  /\ k < Len(f.insts[1].actions) /\ f.insts[1].actions[k + 1].len = 0
  /\ item = from + Len(Upto(all, k)) /\ filter_buf \in Seq(Octet)
  /\ new_item \in Nat /\ new_item <= Len(ActionBytes(f, 1, AllActions(f, 1)))

InMatch(f) ==
  /\ msg = Received(f).body
  /\ header_length = Received(f).header
  /\ match_length = Received(f).match
  /\ inst_length = Received(f).inst
  /\ new_len = 0
  /\ total_length + 10 <= FilterSize
  /\ \E k \in 0 .. Len(f.items), e \in {0, 4} :
       /\ Walked(Items(f, AllItems(f)), Items(f, OtherItems(f)),
                 MatchStart, MatchStart, k, e, Len(OldMatch(f)) + 10)
       /\ e = 4 => k = Len(f.items) /\ Pad(match_length) > 4

InActions(f) ==
  /\ f.insts # <<>> /\ f.insts[1].apply
  /\ Rewritten(f, AllActions(f, 1))
  /\ inst_length + 10 <= FilterSize
  /\ \E k \in 0 .. Len(f.insts[1].actions) :
       \/ Walked(Actions(f, 1, AllActions(f, 1)), Actions(f, 1, KeptActions(f, 1)),
                 Len(NewMatch(f)) + InstStart, 0, k, 0, Len(FirstInst(f)) + 10)
       \/ Stays(f, Actions(f, 1, AllActions(f, 1)), Len(NewMatch(f)) + InstStart, k)

IInv ==
  /\ TypeOK
  /\ pc = "match" => InMatch(flow_mod)
  /\ pc = "actions" => InActions(flow_mod)
  /\ pc = "done" => Rewritten(flow_mod, KeptActions(flow_mod, 1))

-----------------------------------------------------------------------------
(* What comes in.                                                          *)

LEMMA PaddedGrows ==
  ASSUME NEW a \in Nat, NEW b \in Nat, a <= b
  PROVE  Padded(a) <= Padded(b)
BY DEF Padded, Pad

LEMMA MatchLengths ==
  ASSUME NEW f \in FlowMods
  PROVE  LET old == Len(ItemBytes(f, AllItems(f)))
             new == Len(ItemBytes(f, OtherItems(f))) IN
         /\ old \in Nat /\ new \in Nat /\ new <= old
         /\ OldMatch(f) \in Seq(InFront) /\ OldMatch(f) \in Seq(Octet)
         /\ NewMatch(f) \in Seq(InFront) /\ NewMatch(f) \in Seq(Octet)
         /\ Len(OldMatch(f)) = 4 + old + Pad(4 + old) /\ Pad(4 + old) \in 0 .. 7
         /\ Len(NewMatch(f)) = 4 + new + Pad(4 + new) /\ Pad(4 + new) \in 0 .. 7
         /\ Len(NewMatch(f)) <= Len(OldMatch(f))
<1> DEFINE old == Len(ItemBytes(f, AllItems(f)))
           new == Len(ItemBytes(f, OtherItems(f)))
<1>1. MatchStart = 4
  BY LayoutAssumption
<1>2. old \in Nat /\ new \in Nat
  BY ItemBytesType
<1>3. /\ OldMatch(f) \in Seq(InFront) /\ Len(OldMatch(f)) = Padded(4 + old)
      /\ Padded(4 + old) = 4 + old + Pad(4 + old) /\ Pad(4 + old) \in 0 .. 7
  BY <1>1, MatchType DEF OldMatch
<1>4. /\ NewMatch(f) \in Seq(InFront) /\ Len(NewMatch(f)) = Padded(4 + new)
      /\ Padded(4 + new) = 4 + new + Pad(4 + new) /\ Pad(4 + new) \in 0 .. 7
  BY <1>1, MatchType DEF NewMatch
<1>5. OldMatch(f) \in Seq(Octet) /\ NewMatch(f) \in Seq(Octet)
  BY <1>3, <1>4, OctetFacts
<1>6. new <= old
  <2>1. Named(InFront, ItemNames(f), ItemSizes(f))
    BY ItemsNamed
  <2>2. \A i \in 1 .. Len(ItemSizes(f)) : ItemSizes(f)[i] > 0
    BY ItemsNamed, FlowModFacts
  <2>3. OtherItems(f) \subseteq AllItems(f)
    BY DEF OtherItems, AllItems
  <2>4. AllItems(f) \subseteq 1 .. Len(ItemSizes(f))
    BY ItemsNamed DEF AllItems
  <2> QED BY <2>1, <2>2, <2>3, <2>4, FewerElements DEF ItemBytes, Items
<1> HIDE DEF old, new
<1>7. Padded(4 + new) <= Padded(4 + old)
  <2>1. 4 + new \in Nat /\ 4 + old \in Nat /\ 4 + new <= 4 + old
    BY <1>2, <1>6
  <2> QED BY <2>1, PaddedGrows
<1> QED BY <1>2, <1>3, <1>4, <1>5, <1>6, <1>7 DEF old, new

LEMMA InstsLength ==
  ASSUME NEW f \in FlowMods
  PROVE  /\ FlattenSeq(AllInsts(f)) \in Seq(Octet)
         /\ Len(FlattenSeq(AllInsts(f))) \in Nat
         /\ f.insts = <<>> => FlattenSeq(AllInsts(f)) = <<>>
         /\ f.insts # <<>> =>
              /\ 1 \in 1 .. Len(f.insts)
              /\ AllInsts(f)[1] = FirstInst(f)
              /\ FirstInst(f) \in Seq(InFront) /\ FirstInst(f) \in Seq(Octet)
              /\ Len(FirstInst(f)) = 8 + Len(ActionBytes(f, 1, AllActions(f, 1)))
              /\ Len(FirstInst(f)) <= Len(FlattenSeq(AllInsts(f)))
<1> DEFINE s == AllInsts(f)
<1>1. s \in Seq(Seq(Octet)) /\ Len(s) = Len(f.insts)
  BY InstsType
<1>2. Len(f.insts) \in Nat /\ (f.insts # <<>> => Len(f.insts) # 0)
  BY FlowModFacts
<1>3. FlattenSeq(s) \in Seq(Octet)
  BY <1>1, FlattenType
<1>4. ASSUME f.insts = <<>> PROVE FlattenSeq(s) = <<>>
  <2>1. Upto(s, 0) = <<>> /\ Upto(s, Len(s)) = FlattenSeq(s)
    BY <1>1, UptoEnds
  <2>2. Len(s) = 0
    BY <1>1, <1>4
  <2> QED BY <2>1, <2>2
<1>5. ASSUME f.insts # <<>>
      PROVE  /\ 1 \in 1 .. Len(f.insts)
             /\ s[1] = FirstInst(f)
             /\ FirstInst(f) \in Seq(InFront) /\ FirstInst(f) \in Seq(Octet)
             /\ Len(FirstInst(f)) = 8 + Len(ActionBytes(f, 1, AllActions(f, 1)))
             /\ Len(FirstInst(f)) <= Len(FlattenSeq(s))
  <2>1. 1 \in 1 .. Len(f.insts)
    BY <1>2, <1>5
  <2>2. s[1] = FirstInst(f)
    BY <2>1, InstsType DEF FirstInst
  <2>3. /\ FirstInst(f) \in Seq(InFront)
        /\ Len(FirstInst(f)) = 8 + Len(ActionBytes(f, 1, AllActions(f, 1)))
    BY <2>1, InstType DEF FirstInst
  <2>4. Len(FirstInst(f)) <= Len(FlattenSeq(s))
    <3>1. 0 \in Nat /\ 0 + 1 <= Len(s) /\ 0 + 1 = 1
      BY <1>1, <2>1
    <3>2. Upto(s, 0) = <<>>
      BY <1>1, UptoEnds
    <3> HIDE DEF s
    <3>3. Len(Upto(s, 0)) + Len(s[0 + 1]) <= Len(FlattenSeq(s))
      BY <1>1, <3>1, FlattenAt
    <3> QED BY <2>2, <2>3, <3>2, <3>3
  <2> QED BY <2>1, <2>2, <2>3, <2>4, OctetFacts
<1> QED BY <1>3, <1>4, <1>5

(* Where the match, its items, their padding and the instructions are. *)
LEMMA BodyHolds ==
  ASSUME NEW f \in FlowMods
  PROVE  LET body == Received(f).body
             old == Len(ItemBytes(f, AllItems(f))) IN
         /\ body \in Seq(Octet)
         /\ Len(body) = Len(OldMatch(f)) + Len(FlattenSeq(AllInsts(f)))
         /\ Holds(body, 0, OldMatch(f))
         /\ Holds(body, Len(OldMatch(f)), FlattenSeq(AllInsts(f)))
         /\ Holds(body, 4, ItemBytes(f, AllItems(f)))
         /\ Holds(body, 4 + old, Zeros(Pad(4 + old)))
<1> DEFINE m == OldMatch(f)
           s == FlattenSeq(AllInsts(f))
           x == ItemBytes(f, AllItems(f))
           h == Bytes(<<"match", 0, 0>>, MatchStart)
           z == Zeros(Pad(4 + Len(x)))
           body == Received(f).body
<1>1. body = m \o s
  BY ReceivedIs
<1>2. m \in Seq(Octet) /\ s \in Seq(Octet)
  BY MatchLengths, InstsLength
<1>3. x \in Seq(Octet) /\ Len(x) \in Nat
  BY ItemBytesType, OctetFacts
<1>4. MatchStart = 4
  BY LayoutAssumption
<1>5. h \in Seq(Octet) /\ Len(h) = 4
  BY <1>4, MatchHeader
<1>6. z \in Seq(Octet)
  <2>1. 4 + Len(x) \in Nat
    BY <1>3
  <2>2. Pad(4 + Len(x)) \in Nat
    BY <2>1, PadType
  <2>3. Zero \in Octet
    BY OctetFacts
  <2> QED BY <2>2, <2>3, ZerosProperties
<1>7. m = h \o x \o z
  BY <1>4 DEF OldMatch, Match
<1> HIDE DEF m, s, x, h, z
<1>8. m \o s \in Seq(Octet) /\ Len(m \o s) = Len(m) + Len(s)
  BY <1>2, JoinAt
<1>9. Holds(m \o s, 0, m \o s)
  BY <1>8 DEF Holds
<1>10. Holds(m \o s, 0, m) /\ Holds(m \o s, 0 + Len(m), s)
  BY <1>2, <1>8, <1>9, HoldsParts
<1>11. h \o x \in Seq(Octet) /\ Len(h \o x) = 4 + Len(x)
  <2>1. h \o x \in Seq(Octet)
    BY <1>3, <1>5
  <2>2. Len(h \o x) = Len(h) + Len(x)
    BY <1>3, <1>5, JoinAt
  <2> QED BY <1>5, <2>1, <2>2
<1>12. Holds(m \o s, 0, h \o x) /\ Holds(m \o s, 0 + Len(h \o x), z)
  <2> DEFINE y == h \o x
             b == m \o s
  <2>1. Holds(b, 0, y \o z)
    BY <1>7, <1>10
  <2>2. b \in Seq(Octet) /\ y \in Seq(Octet) /\ 0 \in Nat
    BY <1>8, <1>11
  <2> HIDE DEF y, b
  <2>3. Holds(b, 0, y) /\ Holds(b, 0 + Len(y), z)
    BY <1>6, <2>1, <2>2, HoldsParts
  <2> QED BY <2>3 DEF y, b
<1>13. Holds(m \o s, 0 + Len(h), x)
  BY <1>3, <1>5, <1>8, <1>12, HoldsParts
<1>14. Holds(m \o s, 4, x) /\ Holds(m \o s, 4 + Len(x), z)
  BY <1>3, <1>5, <1>11, <1>12, <1>13
<1>15. Holds(m \o s, Len(m), s)
  BY <1>2, <1>10
<1> QED BY <1>1, <1>8, <1>10, <1>14, <1>15 DEF m, s, x, z

-----------------------------------------------------------------------------
(* One round of a walk.                                                    *)

(* It copies an element behind those that were copied before. *)
LEMMA RoundCopies ==
  ASSUME NEW S, Zero \in S, NEW all \in Seq(Seq(S)), NEW kept \in Seq(Seq(S)),
         Len(all) = Len(kept), NEW k \in Nat, k + 1 <= Len(all),
         kept[k + 1] = all[k + 1], NEW from \in Nat, NEW to \in Nat,
         NEW mem \in Seq(S), Holds(mem, from, FlattenSeq(all)),
         NEW buf \in Seq(S), NEW w, Filled(buf, w, to, Upto(kept, k))
  PROVE  LET x == Slice(mem, from + Len(Upto(all, k)), Len(all[k + 1]))
             c == Copied(buf, to + Len(Upto(kept, k)), x) IN
         /\ c \in Seq(S) /\ Len(c) = Len(buf)
         /\ Filled(c, w, to, Upto(kept, k + 1))
<1> DEFINE at == from + Len(Upto(all, k))
           y == all[k + 1]
           p == Upto(kept, k)
           c == Copied(buf, to + Len(p), y)
<1>1. y \in Seq(S) /\ k \in 0 .. Len(kept) /\ k \in 0 .. Len(all)
  BY LenProperties
<1>2. p \in Seq(S) /\ Len(p) \in Nat
  BY <1>1, UptoType
<1>3. Len(Upto(all, k)) \in Nat
  BY <1>1, UptoType
<1>4. at \in Nat
  BY <1>3
<1>5. Holds(mem, at, y)
  BY HoldsList
<1>6. Upto(kept, k + 1) = p \o kept[k + 1]
  BY UptoStep
<1>7. Upto(kept, k + 1) = p \o y
  BY <1>6
<1> HIDE DEF at, y, p
<1>8. Slice(mem, at, Len(y)) = y
  BY <1>1, <1>4, <1>5, HoldsSlice
<1>9. Filled(buf, w, to, p)
  BY DEF p
<1>10. to + Len(p) \in Nat
  BY <1>2
<1>11. c \in Seq(S) /\ Len(c) = Len(buf)
  <2> DEFINE at2 == to + Len(p)
  <2>1. at2 \in Nat
    BY <1>10
  <2> HIDE DEF at2
  <2>2. Copied(buf, at2, y) \in Seq(S)
    BY <1>1, <2>1, CopiedType
  <2>3. Len(Copied(buf, at2, y)) = Len(buf)
    BY <1>1, <2>1, CopiedType
  <2> QED BY <2>2, <2>3 DEF at2
<1>12. Filled(c, w, to, p \o y)
  BY <1>1, <1>2, <1>9, FilledMore
<1> QED BY <1>7, <1>8, <1>11, <1>12 DEF at, y, p

(* A list that begins with no more than k elements. *)
LEMMA RoundSkips ==
  ASSUME NEW S, NEW kept \in Seq(Seq(S)), NEW k \in Nat, k + 1 <= Len(kept),
         kept[k + 1] = <<>>
  PROVE  Upto(kept, k + 1) = Upto(kept, k)
<1>1. k \in 0 .. Len(kept)
  BY LenProperties
<1>2. Upto(kept, k) \in Seq(S)
  BY <1>1, UptoType
<1>3. Upto(kept, k + 1) = Upto(kept, k) \o <<>>
  BY UptoStep
<1> QED BY <1>2, <1>3, ConcatEmptySeq

RoundReady(all, kept, from, to, k, leaveOut, w) ==
  /\ all \in Seq(Seq(Octet)) /\ kept \in Seq(Seq(Octet)) /\ Len(all) = Len(kept)
  /\ k \in Nat /\ k + 1 <= Len(all) /\ from \in Nat /\ to \in Nat
  /\ kept[k + 1] = IF leaveOut THEN <<>> ELSE all[k + 1]
  /\ msg \in Seq(Octet) /\ Holds(msg, from, FlattenSeq(all)) /\ removed \in Nat
  /\ Walked(all, kept, from, to, k, 0, w)
  /\ Len(all[k + 1]) # 0 /\ Walk(Len(all[k + 1]), leaveOut)

LEMMA Round ==
  ASSUME NEW all, NEW kept, NEW from, NEW to, NEW k, NEW leaveOut, NEW w,
         RoundReady(all, kept, from, to, k, leaveOut, w)
  PROVE  /\ Walked(all, kept, from, to, k + 1, 0, w)'
         /\ Len(filter_buf') = Len(filter_buf) /\ removed' \in Nat
         /\ item' = from + Len(Upto(all, k + 1))
<1>0. /\ all \in Seq(Seq(Octet)) /\ kept \in Seq(Seq(Octet)) /\ Len(all) = Len(kept)
      /\ k \in Nat /\ k + 1 <= Len(all) /\ from \in Nat /\ to \in Nat
      /\ kept[k + 1] = IF leaveOut THEN <<>> ELSE all[k + 1]
      /\ msg \in Seq(Octet) /\ Holds(msg, from, FlattenSeq(all)) /\ removed \in Nat
      /\ Walked(all, kept, from, to, k, 0, w)
      /\ Len(all[k + 1]) # 0 /\ Walk(Len(all[k + 1]), leaveOut)
  BY DEF RoundReady
<1> USE <1>0
<1> DEFINE u == Len(Upto(all, k))
           v == Len(Upto(kept, k))
           n == Len(all[k + 1])
           uu == Len(Upto(all, k + 1))
           vv == Len(Upto(kept, k + 1))
<1>1. k \in 0 .. Len(kept) /\ k \in 0 .. Len(all)
  BY LenProperties
<1>2. u \in Nat
  BY <1>1, UptoType
<1>3. v \in Nat
  BY <1>1, UptoType
<1>4. n \in Nat
  <2>1. all[k + 1] \in Seq(Octet)
    BY LenProperties
  <2> QED BY <2>1
<1>5. uu = u + n
  BY FlattenAt
<1>6. item = from + u /\ new_item = to + v /\ removed + v = u
  <2>1. item = from + u + 0 /\ new_item = to + v + 0 /\ removed + v = u
    BY DEF Walked
  <2> QED BY <1>2, <1>3, <2>1
<1>7. filter_buf \in Seq(Octet) /\ Filled(filter_buf, w, to, Upto(kept, k))
  BY DEF Walked
<1>8. item' = item + n
  BY DEF Walk
<1> HIDE DEF u, v, n, uu, vv
<1>9. item' = from + uu
  BY <1>2, <1>4, <1>5, <1>6, <1>8
<1>10. CASE leaveOut
  <2>1. removed' = removed + n /\ new_item' = new_item /\ filter_buf' = filter_buf
    BY <1>10 DEF Walk, n
  <2>2. Upto(kept, k + 1) = Upto(kept, k)
    BY <1>10, RoundSkips
  <2>3. vv = v
    BY <2>2 DEF v, vv
  <2>4. removed' + vv = uu /\ removed' \in Nat
    BY <1>2, <1>3, <1>4, <1>5, <1>6, <2>1, <2>3
  <2>5. new_item' = to + vv + 0
    BY <1>3, <1>6, <2>1, <2>3
  <2>6. item' = from + uu + 0
    BY <1>2, <1>4, <1>5, <1>9
  <2>7. Filled(filter_buf', w, to, Upto(kept, k + 1))
    BY <1>7, <2>1, <2>2
  <2> QED BY <1>7, <1>9, <2>1, <2>4, <2>5, <2>6, <2>7 DEF Walked, uu, vv
<1>11. CASE ~leaveOut
  <2> DEFINE x == Slice(msg, item, n)
             c == Copied(filter_buf, new_item, x)
  <2>1. removed' = removed /\ new_item' = new_item + n /\ filter_buf' = c
    BY <1>11 DEF Walk, n
  <2>2. kept[k + 1] = all[k + 1]
    BY <1>11
  <2>3. vv = v + n
    <3>1. k + 1 <= Len(kept)
      OBVIOUS
    <3>2. vv = v + Len(kept[k + 1])
      BY <3>1, FlattenAt DEF v, vv
    <3> QED BY <2>2, <3>2 DEF n
  <2>4. removed' + vv = uu /\ removed' \in Nat
    BY <1>2, <1>3, <1>4, <1>5, <1>6, <2>1, <2>3
  <2>5. new_item' = to + vv + 0
    <3>1. new_item' = new_item + n /\ new_item = to + v
      BY <1>6, <2>1
    <3> HIDE DEF c, x
    <3> QED BY <1>3, <1>4, <2>3, <3>1
  <2>6. item' = from + uu + 0
    BY <1>2, <1>4, <1>5, <1>9
  <2>7. c = Copied(filter_buf, to + Len(Upto(kept, k)),
                   Slice(msg, from + Len(Upto(all, k)), Len(all[k + 1])))
    BY <1>6 DEF u, v, n
  <2>8. Zero \in Octet
    BY OctetFacts
  <2> DEFINE d == Copied(filter_buf, to + Len(Upto(kept, k)),
                         Slice(msg, from + Len(Upto(all, k)), Len(all[k + 1])))
  <2>10. d \in Seq(Octet) /\ Len(d) = Len(filter_buf)
         /\ Filled(d, w, to, Upto(kept, k + 1))
    BY <1>7, <2>2, <2>8, RoundCopies
  <2> HIDE DEF c, d
  <2>9. c \in Seq(Octet) /\ Len(c) = Len(filter_buf)
        /\ Filled(c, w, to, Upto(kept, k + 1))
    BY <2>7, <2>10 DEF d
  <2> QED BY <1>9, <2>1, <2>4, <2>5, <2>6, <2>9 DEF Walked, uu, vv
<1> QED BY <1>10, <1>11 DEF uu

-----------------------------------------------------------------------------
(* The walk over the match.                                                *)

LEMMA ItemLists ==
  ASSUME NEW f \in FlowMods
  PROVE  LET all  == Items(f, AllItems(f))
             kept == Items(f, OtherItems(f)) IN
         /\ all \in Seq(Seq(Octet)) /\ Len(all) = Len(f.items)
         /\ kept \in Seq(Seq(Octet)) /\ Len(kept) = Len(f.items)
         /\ \A i \in 1 .. Len(f.items) :
              /\ all[i] = Bytes(<<"item", i, 0>>, f.items[i].size)
              /\ Len(all[i]) = f.items[i].size
              /\ kept[i] = IF f.items[i].uep THEN <<>> ELSE all[i]
<1> DEFINE all  == Items(f, AllItems(f))
           kept == Items(f, OtherItems(f))
           n    == Len(f.items)
<1>1. Seq(Seq(InFront)) \subseteq Seq(Seq(Octet))
  BY OctetFacts
<1>2. all \in Seq(Seq(InFront)) /\ Len(all) = n
  BY ItemBytesType
<1>3. kept \in Seq(Seq(InFront)) /\ Len(kept) = n
  BY ItemBytesType
<1>4. Named(InFront, ItemNames(f), ItemSizes(f)) /\ Len(ItemSizes(f)) = n
  BY ItemsNamed
<1>5. ASSUME NEW K, NEW i \in 1 .. n
      PROVE  Items(f, K)[i]
               = IF i \in K THEN Bytes(<<"item", i, 0>>, f.items[i].size) ELSE <<>>
  <2>1. \A l \in 1 .. Len(ItemSizes(f)) :
          Elements(ItemNames(f), ItemSizes(f), K)[l]
            = IF l \in K THEN Bytes(ItemNames(f)[l], ItemSizes(f)[l]) ELSE <<>>
    BY <1>4, ElementsProperties
  <2>2. i \in 1 .. Len(ItemSizes(f))
    BY <1>4
  <2>3. ItemSizes(f)[i] = f.items[i].size /\ ItemNames(f)[i] = <<"item", i, 0>>
    BY ItemsNamed
  <2> QED BY <2>1, <2>2, <2>3 DEF Items
<1>6. ASSUME NEW i \in 1 .. n
      PROVE  /\ all[i] = Bytes(<<"item", i, 0>>, f.items[i].size)
             /\ Len(all[i]) = f.items[i].size
             /\ kept[i] = IF f.items[i].uep THEN <<>> ELSE all[i]
  <2>1. all[i] = Bytes(<<"item", i, 0>>, f.items[i].size)
    BY <1>5 DEF AllItems
  <2>2. f.items[i].size \in Nat
    BY FlowModFacts
  <2>3. Len(Bytes(<<"item", i, 0>>, f.items[i].size)) = f.items[i].size
    BY <2>2 DEF Bytes
  <2>4. kept[i] = IF i \in OtherItems(f)
                  THEN Bytes(<<"item", i, 0>>, f.items[i].size) ELSE <<>>
    BY <1>5
  <2>5. i \in OtherItems(f) <=> ~f.items[i].uep
    BY DEF OtherItems
  <2> QED BY <2>1, <2>3, <2>4, <2>5
<1> QED BY <1>1, <1>2, <1>3, <1>6

LEMMA TotalLength ==
  ASSUME flow_mod \in FlowMods
  PROVE  total_length = Len(OldMatch(flow_mod))
<1>1. WireItems(flow_mod, Everything) = ItemBytes(flow_mod, AllItems(flow_mod))
  BY WireItemsBytes
<1> QED BY <1>1, MatchType DEF total_length, OldMatch

LEMMA LeftoverOctet == Leftover \in Octet
BY DEF Leftover, Octet, Tags

(* What memset leaves: zeros first, the rest as it was. *)
LEMMA ClearedProperties ==
  ASSUME NEW mem \in Seq(Octet), Len(mem) = FilterSize, NEW n \in Nat
  PROVE  /\ Cleared(mem, n) \in Seq(Octet) /\ Len(Cleared(mem, n)) = FilterSize
         /\ FilterSize \in Nat
         /\ \A j \in 1 .. FilterSize : j <= n => Cleared(mem, n)[j] = Zero
<1> DEFINE c == Cleared(mem, n)
<1>1. FilterSize \in Nat /\ Zero \in Octet
  BY FlowModsAssumption, OctetFacts
<1>2. c = [i \in 1 .. FilterSize |-> IF i <= n THEN Zero ELSE mem[i]]
  BY DEF Cleared
<1>3. \A i \in 1 .. FilterSize : mem[i] \in Octet
  BY <1>1
<1>4. \A i \in 1 .. FilterSize : (IF i <= n THEN Zero ELSE mem[i]) \in Octet
  BY <1>1, <1>3
<1> HIDE DEF c
<1>5. c \in Seq(Octet) /\ Len(c) = FilterSize
  BY <1>1, <1>2, <1>4
<1>6. \A j \in 1 .. FilterSize : j <= n => c[j] = Zero
  BY <1>2
<1> QED BY <1>1, <1>5, <1>6 DEF c

LEMMA InitInv ==
  ASSUME Init
  PROVE  IInv
<1> DEFINE f == flow_mod
           m == Len(OldMatch(f))
           all == Items(f, AllItems(f))
           kept == Items(f, OtherItems(f))
<1>1. f \in FlowMods
  BY DEF Init
<1>2. total_length = m /\ m \in Nat
  <2>1. total_length = m
    BY <1>1, TotalLength
  <2>2. OldMatch(f) \in Seq(Octet)
    BY <1>1, MatchLengths
  <2> QED BY <2>1, <2>2
<1>20. m >= 4
  <2>1. /\ Len(ItemBytes(f, AllItems(f))) \in Nat
        /\ Pad(4 + Len(ItemBytes(f, AllItems(f)))) \in 0 .. 7
        /\ m = 4 + Len(ItemBytes(f, AllItems(f))) + Pad(4 + Len(ItemBytes(f, AllItems(f))))
    BY <1>1, MatchLengths
  <2> HIDE DEF f, m
  <2> QED BY <2>1
<1>3. MatchStart = 4 /\ Fixed \in Nat
  BY LayoutAssumption
<1> DEFINE w == m + 10
           left == [i \in 1 .. FilterSize |-> Leftover]
<1>4. w \in Nat /\ total_length + 10 = w /\ filter_buf = Cleared(left, w)
  BY <1>2 DEF Init
<1>5. /\ filter_buf \in Seq(Octet) /\ Len(filter_buf) = FilterSize
      /\ FilterSize \in Nat
      /\ \A j \in 1 .. FilterSize : j <= w => filter_buf[j] = Zero
  <2>1. left \in Seq(Octet) /\ Len(left) = FilterSize
    BY FlowModsAssumption, LeftoverOctet
  <2> HIDE DEF left, w
  <2> QED BY <1>4, <2>1, ClearedProperties
<1>7. Upto(all, 0) = <<>> /\ Upto(kept, 0) = <<>>
  BY <1>1, ItemLists, UptoEnds
<1>8. Len(<<>>) = 0
  OBVIOUS
<1>9. ASSUME w <= FilterSize
      PROVE  Filled(filter_buf, w, MatchStart, <<>>)
  <2> HIDE DEF w
  <2>1. \A j \in 1 .. w : filter_buf[j] = Zero
    BY <1>4, <1>5, <1>9
  <2> QED BY <1>3, <1>4, <1>5, <1>8, <1>9, <2>1 DEF Filled
<1>10. item = 4 /\ new_item = 4 /\ removed = 0 /\ new_len = 0
  BY <1>3 DEF Init
<1>11. ASSUME w <= FilterSize
       PROVE  Walked(all, kept, MatchStart, MatchStart, 0, 0, w)
  <2>1. item = MatchStart + Len(<<>>) + 0 /\ new_item = MatchStart + Len(<<>>) + 0
    BY <1>3, <1>8, <1>10
  <2>2. removed + Len(<<>>) = Len(<<>>)
    BY <1>8, <1>10
  <2> HIDE DEF w
  <2>3. Filled(filter_buf, w, MatchStart, <<>>)
    BY <1>9, <1>11
  <2> QED BY <1>5, <1>7, <2>1, <2>2, <2>3 DEF Walked
<1>12. 0 \in 0 .. Len(f.items)
  BY <1>1, FlowModFacts
<1>13. /\ msg = Received(f).body /\ header_length = Received(f).header
       /\ match_length = Received(f).match /\ inst_length = Received(f).inst
  BY DEF Init
<1>21. pc = IF w > FilterSize THEN "overrun" ELSE "match"
  BY <1>4 DEF Init, Overruns
<1>14. ASSUME pc = "match"
       PROVE  InMatch(f)
  <2>1. w <= FilterSize
    BY <1>4, <1>5, <1>14, <1>21
  <2>2. Walked(all, kept, MatchStart, MatchStart, 0, 0, w)
    BY <1>11, <2>1
  <2> HIDE DEF f
  <2> QED BY <1>4, <1>10, <1>12, <1>13, <2>1, <2>2 DEF InMatch
<1>15. header_length \in Nat /\ match_length \in Nat /\ inst_length \in Nat
  <2> DEFINE b == OldMatch(f) \o FlattenSeq(AllInsts(f))
             l == MatchStart + Len(ItemBytes(f, AllItems(f)))
             d == IF f.insts = <<>> THEN 0 ELSE Len(FirstInst(f))
  <2>1. Received(f) = [header |-> Fixed + Len(b), match |-> l, inst |-> d, body |-> b]
    BY <1>1, ReceivedIs
  <2>2. Len(b) \in Nat
    <3>1. OldMatch(f) \in Seq(Octet) /\ FlattenSeq(AllInsts(f)) \in Seq(Octet)
      BY <1>1, MatchLengths, InstsLength
    <3> QED BY <3>1
  <2>3. l \in Nat
    BY <1>1, <1>3, ItemBytesType
  <2>4. d \in Nat
    <3>1. f.insts # <<>> => FirstInst(f) \in Seq(Octet)
      BY <1>1, InstsLength
    <3> QED BY <3>1
  <2> HIDE DEF b, l, d
  <2> QED BY <1>3, <1>13, <2>1, <2>2, <2>3, <2>4
<1>16. TypeOK
  <2>1. pc \in {"match", "actions", "done", "overrun"} /\ pc # "actions"
    BY <1>21
  <2>2. pc = "match" => w <= FilterSize
    BY <1>4, <1>5, <1>21
  <2> QED BY <1>1, <1>2, <1>20, <1>5, <1>10, <1>15, <2>1, <2>2 DEF TypeOK
<1>22. pc # "actions" /\ pc # "done"
  BY <1>21
<1> QED BY <1>14, <1>16, <1>22 DEF IInv

(* The item that the walk stands at. *)
LEMMA ItemThere ==
  ASSUME NEW f \in FlowMods, flow_mod = f, msg \in Seq(Octet),
         NEW k \in Nat, k + 1 <= Len(f.items),
         Holds(msg, 4, ItemBytes(f, AllItems(f)))
  PROVE  ItemAt(4 + Len(Upto(Items(f, AllItems(f)), k))) = f.items[k + 1]
<1> DEFINE all == Items(f, AllItems(f))
           p == 4 + Len(Upto(all, k))
           e == <<"item", k + 1, 0>>
           s == f.items[k + 1].size
<1>1. all \in Seq(Seq(Octet)) /\ Len(all) = Len(f.items)
  BY ItemLists
<1>2. k + 1 \in 1 .. Len(f.items)
  BY FlowModFacts
<1>3. all[k + 1] = Bytes(e, s) /\ Len(all[k + 1]) = s
  BY <1>2, ItemLists
<1>4. s \in Nat /\ s > 4
  BY <1>2, FlowModFacts
<1>5. Holds(msg, 4, FlattenSeq(all)) /\ 4 \in Nat
  BY DEF ItemBytes
<1> HIDE DEF all, s, e
<1>6. Holds(msg, p, all[k + 1])
  BY <1>1, <1>5, HoldsList
<1>7. Len(Upto(all, k)) \in Nat
  <2>1. k \in 0 .. Len(all)
    BY <1>1, LenProperties
  <2> QED BY <1>1, <2>1, UptoType
<1>8. p \in Nat
  BY <1>7
<1> HIDE DEF p
<1>9. msg[p + 1] = all[k + 1][1]
  BY <1>3, <1>4, <1>6 DEF Holds
<1>10. Bytes(e, s)[1] = <<e, 1>>
  BY <1>4 DEF Bytes
<1>11. msg[p + 1] = <<e, 1>>
  BY <1>3, <1>9, <1>10
<1>12. ElementAt(p) = e
  BY <1>11 DEF ElementAt
<1>13. e[1] = "item" /\ e[2] = k + 1
  BY DEF e
<1> QED BY <1>12, <1>13 DEF ItemAt, p, all

(* What the match's walk does not touch. *)
LEMMA MatchWalked ==
  ASSUME NEW f \in FlowMods, flow_mod = f, IInv, pc = "match",
         UNCHANGED <<flow_mod, pc, msg, fields, new_len>>,
         Len(filter_buf') = Len(filter_buf), removed' \in Nat,
         NEW k \in 0 .. Len(f.items), NEW e \in {0, 4},
         Walked(Items(f, AllItems(f)), Items(f, OtherItems(f)),
                MatchStart, MatchStart, k, e, Len(OldMatch(f)) + 10)',
         e = 4 => k = Len(f.items) /\ Pad(match_length) > 4,
         item' <= total_length
  PROVE  IInv'
<1>1. InMatch(f) /\ TypeOK
  BY DEF IInv
<1>2. total_length' = total_length
  BY DEF total_length
<1>3. /\ msg' = msg /\ header_length' = header_length /\ match_length' = match_length
      /\ inst_length' = inst_length /\ new_len' = new_len /\ pc' = pc
      /\ flow_mod' = flow_mod
  BY DEF fields
<1>4. total_length + 10 <= FilterSize /\ Len(filter_buf) = FilterSize
      /\ FilterSize \in Nat
  BY <1>1, FlowModsAssumption DEF InMatch, TypeOK
<1>5. InMatch(f)'
  BY <1>1, <1>2, <1>3, <1>4 DEF InMatch
<1> DEFINE u == Len(Upto(Items(f, AllItems(f)), k))
           v == Len(Upto(Items(f, OtherItems(f)), k))
<1>6. item' = MatchStart + u + e /\ new_item' = MatchStart + v + e /\ removed' + v = u
  BY DEF Walked
<1>7. u \in Nat
  <2>1. Items(f, AllItems(f)) \in Seq(Seq(Octet)) /\ k \in 0 .. Len(Items(f, AllItems(f)))
    BY ItemLists
  <2> QED BY <2>1, UptoType
<1>8. v \in Nat
  <2>1. /\ Items(f, OtherItems(f)) \in Seq(Seq(Octet))
        /\ k \in 0 .. Len(Items(f, OtherItems(f)))
    BY ItemLists
  <2> QED BY <2>1, UptoType
<1>9. total_length \in Nat
  BY TotalLength, MatchLengths
<1> HIDE DEF u, v
<1>10. item' \in Nat /\ new_item' \in Nat /\ new_item' <= item'
  <2>1. MatchStart = 4
    BY LayoutAssumption
  <2>2. v <= u
    <3>1. removed' + v = u
      BY <1>6
    <3>2. \A a, b, c \in Nat : a + b = c => b <= c
      OBVIOUS
    <3> QED BY <1>7, <1>8, <3>1, <3>2, ZenonT(20)
  <2>3. item' = 4 + u + e /\ new_item' = 4 + v + e
    BY <1>6, <2>1
  <2>4. e \in Nat
    OBVIOUS
  <2>5. item' \in Nat
    BY <1>7, <2>3, <2>4
  <2>6. new_item' \in Nat
    BY <1>8, <2>3, <2>4
  <2> QED BY <1>7, <1>8, <2>2, <2>3, <2>4, <2>5, <2>6
<1>11. new_item' + 4 <= FilterSize
  <2>1. \A a, b, c, d \in Nat : a <= b /\ b <= c /\ c + 10 <= d => a + 4 <= d
    OBVIOUS
  <2>2. item' <= total_length
    OBVIOUS
  <2> QED BY <1>4, <1>9, <1>10, <2>1, <2>2, ZenonT(20)
<1>12. TypeOK'
  BY <1>1, <1>2, <1>3, <1>4, <1>10, <1>11 DEF TypeOK
<1> QED BY <1>3, <1>5, <1>12 DEF IInv

LEMMA MatchItemInv ==
  ASSUME IInv, MatchItem
  PROVE  IInv'
<1>1. PICK f \in FlowMods : flow_mod = f
  BY DEF IInv, TypeOK
<1> DEFINE all == Items(f, AllItems(f))
           kept == Items(f, OtherItems(f))
           n == Len(f.items)
           old == Len(ItemBytes(f, AllItems(f)))
           P == Pad(4 + old)
           c == Len(OldMatch(f)) + 10
<1>2. /\ pc = "match" /\ item < total_length - 4 /\ InMatch(f)
      /\ Walk(ItemAt(item).size, ItemAt(item).uep)
      /\ UNCHANGED <<flow_mod, pc, msg, fields, new_len>> /\ removed \in Nat
  BY <1>1 DEF MatchItem, IInv, TypeOK
<1>3. /\ msg \in Seq(Octet)
      /\ Holds(msg, 4, ItemBytes(f, AllItems(f)))
      /\ Holds(msg, 4 + old, Zeros(P))
  BY <1>2, BodyHolds DEF InMatch
<1>4. MatchStart = 4
  BY LayoutAssumption
<1>5. old \in Nat /\ P \in 0 .. 7 /\ total_length = 4 + old + P
  BY <1>1, TotalLength, MatchLengths
<1>6. /\ all \in Seq(Seq(Octet)) /\ Len(all) = n /\ FlattenSeq(all) = ItemBytes(f, AllItems(f))
      /\ kept \in Seq(Seq(Octet)) /\ Len(kept) = n /\ n \in Nat
  BY ItemLists, FlowModFacts DEF ItemBytes
<1>7. match_length = 4 + old
  BY <1>2, <1>4, ReceivedIs DEF InMatch
<1>8. PICK k \in 0 .. n, e \in {0, 4} :
        /\ Walked(all, kept, MatchStart, MatchStart, k, e, c)
        /\ e = 4 => k = n /\ Pad(match_length) > 4
  BY <1>2 DEF InMatch
<1>9. Len(filter_buf) \in Nat
  BY <1>8 DEF Walked
<1>10. CASE k < n
  <2>1. e = 0
    BY <1>6, <1>8, <1>10
  <2>2. Walked(all, kept, 4, 4, k, 0, c)
    BY <1>4, <1>8, <2>1
  <2>3. k \in Nat /\ k + 1 <= n /\ k + 1 \in 1 .. n /\ k + 1 \in 0 .. n
    BY <1>6, <1>10
  <2>4. item = 4 + Len(Upto(all, k))
    <3>1. Len(Upto(all, k)) \in Nat
      BY <1>6, UptoType
    <3>2. item = 4 + Len(Upto(all, k)) + 0
      BY <2>2 DEF Walked
    <3> QED BY <3>1, <3>2
  <2>5. ItemAt(item) = f.items[k + 1]
    BY <1>1, <1>3, <2>3, <2>4, ItemThere
  <2> DEFINE uep == f.items[k + 1].uep
  <2>6. /\ uep \in BOOLEAN /\ f.items[k + 1].size = Len(all[k + 1])
        /\ kept[k + 1] = IF uep THEN <<>> ELSE all[k + 1]
        /\ Len(all[k + 1]) # 0
    <3>1. /\ f.items[k + 1].size = Len(all[k + 1])
          /\ kept[k + 1] = IF uep THEN <<>> ELSE all[k + 1]
      BY <2>3, ItemLists
    <3>2. /\ uep \in BOOLEAN /\ f.items[k + 1].size \in Nat
          /\ f.items[k + 1].size > 4
      BY <2>3, FlowModFacts
    <3> HIDE DEF uep, all, kept
    <3> QED BY <3>1, <3>2
  <2>7. Walk(Len(all[k + 1]), uep)
    BY <1>2, <2>5, <2>6
  <2>8. Holds(msg, 4, FlattenSeq(all)) /\ 4 \in Nat
    BY <1>3, <1>6
  <2> HIDE DEF all, kept, n, uep, old, P, c
  <2>9. /\ Walked(all, kept, 4, 4, k + 1, 0, c)' /\ Len(filter_buf') = Len(filter_buf)
        /\ removed' \in Nat /\ item' = 4 + Len(Upto(all, k + 1))
    <3>1. Len(all) = Len(kept) /\ k + 1 <= Len(all)
      BY <1>6, <2>3
    <3> DEFINE four == 4
    <3>2. /\ four \in Nat /\ Holds(msg, four, FlattenSeq(all))
          /\ Walked(all, kept, four, four, k, 0, c)
      BY <2>2, <2>8
    <3>3. kept[k + 1] = IF uep THEN <<>> ELSE all[k + 1]
      BY <2>6
    <3> HIDE DEF four
    <3>4. RoundReady(all, kept, four, four, k, uep, c)
      BY <1>2, <1>3, <1>6, <2>3, <2>6, <2>7, <3>1, <3>2, <3>3 DEF RoundReady
    <3>5. /\ Walked(all, kept, four, four, k + 1, 0, c)' /\ Len(filter_buf') = Len(filter_buf)
          /\ removed' \in Nat /\ item' = four + Len(Upto(all, k + 1))
      BY <3>4, Round
    <3> QED BY <3>5 DEF four
  <2>10. item' <= total_length
    <3>1. Len(Upto(all, k + 1)) <= Len(FlattenSeq(all))
      <4>1. k + 1 \in 0 .. Len(all)
        BY <1>6, <2>3
      <4> QED BY <1>6, <4>1, UptoGrows
    <3>2. Len(Upto(all, k + 1)) \in Nat
      <4>1. k + 1 \in 0 .. Len(all)
        BY <1>6, <2>3
      <4> QED BY <1>6, <4>1, UptoType
    <3> DEFINE w == Len(Upto(all, k + 1))
    <3>3. w <= old /\ w \in Nat /\ item' = 4 + w
      BY <1>6, <2>9, <3>1, <3>2 DEF old
    <3> HIDE DEF w
    <3> QED BY <1>5, <3>3
  <2>11. Walked(all, kept, MatchStart, MatchStart, k + 1, 0, c)'
    BY <1>4, <2>9
  <2> QED BY <1>1, <1>2, <2>3, <2>9, <2>10, <2>11, MatchWalked DEF all, kept, n, c
<1>11. CASE k = n
  <2>1. Upto(all, k) = ItemBytes(f, AllItems(f)) /\ Upto(kept, k) = FlattenSeq(kept)
    BY <1>6, <1>11, UptoEnds
  <2> DEFINE q == Upto(kept, k)
  <2>2. q \in Seq(Octet) /\ Len(q) \in Nat
    BY <1>6, <1>11, UptoType
  <2>3. item = 4 + old + e /\ new_item = 4 + Len(q) + e /\ removed + Len(q) = old
    BY <1>4, <1>8, <2>1 DEF Walked
  <2>4. filter_buf \in Seq(Octet) /\ Filled(filter_buf, c, 4, q)
    BY <1>4, <1>8 DEF Walked
  <2> HIDE DEF q, all, kept, n, old, P, c
  <2>5. P > 4 /\ e = 0
    BY <1>2, <1>5, <2>3
  <2>6. item = 4 + old /\ new_item = 4 + Len(q)
    BY <1>5, <2>2, <2>3, <2>5
  <2>7. Len(Zeros(P)) = P /\ \A j \in 1 .. P : Zeros(P)[j] = Zero
    BY <1>5 DEF Zeros
  <2>8. \A j \in 1 .. P : 4 + old + j <= Len(msg) /\ msg[4 + old + j] = Zero
    <3> DEFINE z == Zeros(P)
               at == 4 + old
    <3>1. at + Len(z) <= Len(msg) /\ \A j \in 1 .. Len(z) : msg[at + j] = z[j]
      BY <1>3 DEF Holds
    <3>2. at \in Nat /\ Len(msg) \in Nat /\ P \in Nat
      BY <1>3, <1>5
    <3>3. Len(z) = P /\ \A j \in 1 .. P : z[j] = Zero
      BY <2>7
    <3> HIDE DEF z, at
    <3>4. at + P <= Len(msg) /\ \A j \in 1 .. P : msg[at + j] = Zero
      BY <3>1, <3>3
    <3>5. \A j \in 1 .. P : at + j <= Len(msg)
      BY <3>2, <3>4
    <3> QED BY <3>4, <3>5 DEF at
  <2>9. ElementAt(item)[1] = "zero"
    <3>1. msg[item + 1] = Zero
      BY <1>5, <2>5, <2>6, <2>8
    <3> QED BY <3>1 DEF ElementAt, Zero
  <2>10. ItemAt(item).size = 4 /\ ItemAt(item).uep = FALSE
    BY <2>9 DEF ItemAt
  <2> DEFINE sl == Slice(msg, item, 4)
  <2>11. /\ item' = item + 4 /\ new_item' = new_item + 4 /\ removed' = removed
         /\ filter_buf' = Copied(filter_buf, new_item, sl)
    BY <1>2, <2>10 DEF Walk
  <2>12. sl = Zeros(4)
    <3>1. Zero \in Octet /\ item \in Nat /\ 4 \in Nat
      BY <1>5, <2>6, OctetFacts
    <3>2. sl \in Seq(Octet) /\ Len(sl) = 4
      BY <1>3, <3>1, SliceType
    <3>3. \A i \in 1 .. 4 :
            sl[i] = IF item + i \in 1 .. Len(msg) THEN msg[item + i] ELSE Zero
      BY <1>3, <3>1, SliceAt
    <3>4. \A i \in 1 .. 4 : sl[i] = Zero
      <4> SUFFICES ASSUME NEW i \in 1 .. 4 PROVE sl[i] = Zero
        OBVIOUS
      <4> HIDE DEF sl
      <4>1. i \in 1 .. P
        BY <1>5, <2>5
      <4>2. msg[item + i] = Zero
        BY <2>6, <2>8, <4>1
      <4> QED BY <3>3, <4>2
    <3>5. Zeros(4) = [i \in 1 .. 4 |-> Zero]
      BY DEF Zeros
    <3> HIDE DEF sl
    <3>6. sl = [i \in 1 .. 4 |-> sl[i]]
      BY <3>2
    <3> QED BY <3>4, <3>5, <3>6
  <2>13. /\ Filled(filter_buf', c, 4, q) /\ filter_buf' \in Seq(Octet)
         /\ Len(filter_buf') = Len(filter_buf)
    <3> DEFINE z == Zeros(4)
               at == 4 + Len(q)
    <3>1. filter_buf' = Copied(filter_buf, at, z)
      BY <2>6, <2>11, <2>12
    <3>2. Zero \in Octet /\ 4 \in Nat /\ at \in Nat
      BY <2>2, OctetFacts
    <3>3. z \in Seq(Octet)
      BY <3>2, ZerosProperties
    <3>4. Filled(Copied(filter_buf, 4 + Len(q), Zeros(4)), c, 4, q)
      BY <2>2, <2>4, <3>2, FilledZeros
    <3> HIDE DEF z, at
    <3>5. Copied(filter_buf, at, z) \in Seq(Octet) /\ Len(Copied(filter_buf, at, z)) = Len(filter_buf)
      BY <2>4, <3>2, <3>3, CopiedType
    <3> QED BY <3>1, <3>4, <3>5 DEF z, at
  <2>14. /\ item' = MatchStart + old + 4 /\ new_item' = MatchStart + Len(q) + 4
         /\ removed' + Len(q) = old /\ removed' \in Nat
    BY <1>2, <1>4, <1>5, <2>2, <2>3, <2>6, <2>11
  <2>15. Walked(all, kept, MatchStart, MatchStart, k, 4, c)'
    BY <1>4, <2>1, <2>13, <2>14 DEF Walked, q, old
  <2>16. item' <= total_length
    BY <1>4, <1>5, <2>5, <2>14
  <2>17. Pad(match_length) > 4
    BY <1>7, <2>5 DEF P
  <2>18. 4 \in {0, 4}
    OBVIOUS
  <2> QED BY <1>1, <1>2, <1>11, <2>13, <2>14, <2>15, <2>16, <2>17, <2>18, MatchWalked
          DEF all, kept, n, c
<1> QED BY <1>6, <1>8, <1>10, <1>11

-----------------------------------------------------------------------------
(* Behind the match: the match and the first instruction move up.          *)

LEMMA FirstOfInsts ==
  ASSUME NEW f \in FlowMods, f.insts # <<>>
  PROVE  Holds(FlattenSeq(AllInsts(f)), 0, FirstInst(f))
<1> DEFINE s == AllInsts(f)
           x == FlattenSeq(s)
<1>1. s \in Seq(Seq(Octet)) /\ Len(s) = Len(f.insts)
  BY InstsType
<1>2. x \in Seq(Octet) /\ 1 \in 1 .. Len(f.insts) /\ s[1] = FirstInst(f)
  BY InstsLength
<1>3. 0 \in Nat /\ 0 + 1 <= Len(s) /\ 0 + 1 = 1
  BY <1>1, <1>2
<1>4. Holds(x, 0, FlattenSeq(s))
  BY <1>2 DEF Holds
<1>5. Upto(s, 0) = <<>> /\ Len(<<>>) = 0
  BY <1>1, UptoEnds
<1> HIDE DEF s, x
<1>6. Holds(x, 0 + Len(Upto(s, 0)), s[0 + 1])
  BY <1>1, <1>2, <1>3, <1>4, HoldsList
<1> QED BY <1>2, <1>3, <1>5, <1>6 DEF s, x

LEMMA MovedUp ==
  ASSUME NEW f \in FlowMods
  PROVE  LET body == Received(f).body
             len  == Len(NewMatch(f))
             inst == IF f.insts = <<>> THEN <<>> ELSE FirstInst(f)
             m    == Copied(Copied(body, 0, NewMatch(f)), len, inst)
         IN
         /\ m \in Seq(Octet)
         /\ Holds(m, 0, NewMatch(f))
         /\ f.insts # <<>> => Holds(m, len, FirstInst(f))
         /\ len = Len(OldMatch(f)) => Holds(m, len, FlattenSeq(AllInsts(f)))
         /\ f.insts # <<>> /\ len # Len(OldMatch(f)) =>
              /\ len + Len(FirstInst(f)) + 1 <= Len(m)
              /\ m[len + Len(FirstInst(f)) + 1] \in InFront
<1> DEFINE body == Received(f).body
           new  == NewMatch(f)
           len  == Len(new)
           inst == IF f.insts = <<>> THEN <<>> ELSE FirstInst(f)
           all  == FlattenSeq(AllInsts(f))
           c    == Copied(body, 0, new)
           m    == Copied(c, len, inst)
           total == Len(OldMatch(f))
<1>1. /\ body \in Seq(Octet) /\ Len(body) = total + Len(all)
      /\ Holds(body, 0, OldMatch(f)) /\ Holds(body, total, all)
  BY BodyHolds
<1>2. new \in Seq(Octet) /\ len \in Nat /\ total \in Nat /\ len <= total
  BY MatchLengths
<1>3. all \in Seq(Octet) /\ Len(all) \in Nat
  BY InstsLength
<1>4. inst \in Seq(Octet) /\ Len(inst) \in Nat /\ Len(inst) <= Len(all)
      /\ Holds(all, 0, inst)
  <2>1. CASE f.insts = <<>>
    <3>1. inst = <<>>
      BY <2>1
    <3>2. <<>> \in Seq(Octet) /\ Len(<<>>) = 0
      OBVIOUS
    <3>3. Holds(all, 0, <<>>)
      BY <1>3, <3>2 DEF Holds
    <3> HIDE DEF all, inst
    <3> QED BY <1>3, <3>1, <3>2, <3>3
  <2>2. CASE f.insts # <<>>
    <3>1. inst = FirstInst(f)
      BY <2>2
    <3>2. FirstInst(f) \in Seq(Octet) /\ Len(FirstInst(f)) <= Len(all)
      BY <2>2, InstsLength
    <3>3. Holds(all, 0, FirstInst(f))
      BY <2>2, FirstOfInsts
    <3>4. Len(FirstInst(f)) \in Nat
      BY <3>2
    <3> HIDE DEF all, inst
    <3> QED BY <3>1, <3>2, <3>3, <3>4
  <2> QED BY <2>1, <2>2
<1>5. f.insts # <<>> => inst = FirstInst(f)
  OBVIOUS
<1> HIDE DEF body, new, inst, all
<1>6. c \in Seq(Octet) /\ Len(c) = Len(body)
  BY <1>1, <1>2, CopiedType
<1>7. m \in Seq(Octet) /\ Len(m) = Len(body)
  <2> HIDE DEF c
  <2>1. Copied(c, len, inst) \in Seq(Octet) /\ Len(Copied(c, len, inst)) = Len(c)
    BY <1>2, <1>4, <1>6, CopiedType
  <2> QED BY <1>6, <2>1
<1>8. 0 + Len(new) <= Len(body)
  BY <1>1, <1>2, <1>3
<1>9. Holds(c, 0, new)
  BY <1>1, <1>2, <1>8, HoldsCopied
<1>10. Holds(m, 0, new)
  <2>1. 0 + Len(new) <= len \/ len + Len(inst) <= 0
    BY <1>2
  <2> HIDE DEF c
  <2> QED BY <1>2, <1>4, <1>6, <1>9, <2>1, HoldsBeside
<1>11. Holds(m, len, inst)
  <2>1. len + Len(inst) <= Len(c)
    BY <1>1, <1>2, <1>3, <1>4, <1>6
  <2> HIDE DEF c
  <2> QED BY <1>2, <1>4, <1>6, <2>1, HoldsCopied
<1>12. ASSUME len = total PROVE Holds(m, len, all)
  <2>1. Holds(body, len, all)
    BY <1>1, <1>12
  <2>2. len + Len(all) <= 0 \/ 0 + Len(new) <= len
    BY <1>2
  <2>3. Holds(c, len, all)
    <3> HIDE DEF total
    <3> QED BY <1>1, <1>2, <1>3, <2>1, <2>2, HoldsBeside
  <2> HIDE DEF c, len
  <2> QED BY <1>2, <1>3, <1>4, <1>6, <2>3, HoldsSame
<1>13. ASSUME f.insts # <<>>, len # total
       PROVE  /\ len + Len(FirstInst(f)) + 1 <= Len(m)
              /\ m[len + Len(FirstInst(f)) + 1] \in InFront
  <2> DEFINE x == FirstInst(f)
             i == Len(x)
             j == len + i + 1
  <2>1. x \in Seq(InFront) /\ i \in Nat /\ inst = x
    BY <1>4, <1>5, <1>13, InstsLength
  <2>2. Holds(body, total, inst)
    <3>1. total + Len(inst) <= Len(body)
      BY <1>1, <1>2, <1>3, <1>4
    <3>2. \A l \in 1 .. Len(inst) : body[total + l] = inst[l]
      <4> SUFFICES ASSUME NEW l \in 1 .. Len(inst) PROVE body[total + l] = inst[l]
        OBVIOUS
      <4>1. l \in 1 .. Len(all)
        BY <1>3, <1>4
      <4>2. body[total + l] = all[l]
        BY <1>1, <4>1 DEF Holds
      <4>3. all[0 + l] = inst[l]
        BY <1>4 DEF Holds
      <4> QED BY <4>2, <4>3
    <3> QED BY <3>1, <3>2 DEF Holds
  <2>3. OldMatch(f) \in Seq(InFront)
    BY MatchLengths
  <2> HIDE DEF x, i, c, total, len
  <2>4. i = Len(inst) /\ len < total
    BY <1>2, <1>13, <2>1 DEF i
  <2>5. j \in Nat /\ j >= 1 /\ j <= total + i
    BY <1>2, <2>1, <2>4
  <2>6. j <= Len(body)
    BY <1>1, <1>2, <1>3, <1>4, <2>4, <2>5
  <2>7. j \in 1 .. Len(c) /\ j \in 1 .. Len(body)
    BY <1>1, <1>6, <2>5, <2>6
  <2>8. m[j] = c[j]
    <3>1. \A l \in 1 .. Len(c) :
            Copied(c, len, inst)[l] = IF l - len \in 1 .. Len(inst) THEN inst[l - len] ELSE c[l]
      BY <1>2, <1>4, <1>6, CopiedAt
    <3>2. j - len \notin 1 .. Len(inst)
      BY <1>2, <2>1, <2>4
    <3> HIDE DEF j
    <3> QED BY <2>7, <3>1, <3>2
  <2>9. c[j] = body[j]
    <3>1. \A l \in 1 .. Len(body) :
            Copied(body, 0, new)[l] = IF l - 0 \in 1 .. Len(new) THEN new[l - 0] ELSE body[l]
      BY <1>1, <1>2, CopiedAt
    <3>2. j - 0 \notin 1 .. Len(new)
      BY <1>2, <2>1 DEF len
    <3> HIDE DEF j
    <3> QED BY <2>7, <3>1, <3>2 DEF c
  <2> HIDE DEF j
  <2>10. body[j] \in InFront
    <3>1. CASE j <= total
      <4>1. j \in 1 .. Len(OldMatch(f))
        BY <1>2, <2>5, <3>1 DEF total
      <4>2. body[0 + j] = OldMatch(f)[j]
        BY <1>1, <4>1 DEF Holds
      <4>3. OldMatch(f)[j] \in InFront
        BY <2>3, <4>1
      <4> QED BY <2>5, <4>2, <4>3
    <3>2. CASE j > total
      <4> DEFINE l == j - total
      <4>1. l \in 1 .. i /\ total + l = j
        BY <1>2, <2>1, <2>5, <3>2
      <4> HIDE DEF l
      <4>2. body[total + l] = inst[l]
        BY <2>2, <2>4, <4>1 DEF Holds
      <4>3. x[l] \in InFront
        BY <2>1, <4>1 DEF i
      <4> QED BY <2>1, <4>1, <4>2, <4>3
    <3> QED BY <1>2, <2>5, <3>1, <3>2
  <2>11. j <= Len(m)
    BY <1>7, <2>6
  <2> QED BY <2>8, <2>9, <2>10, <2>11 DEF j, i, x
<1> QED BY <1>5, <1>7, <1>10, <1>11, <1>12, <1>13 DEF body, new, inst, all

(* Behind the match's walk its items have been read, all of them. *)
LEMMA MatchRead ==
  ASSUME NEW f \in FlowMods, flow_mod = f, IInv, pc = "match",
         item >= total_length - 4
  PROVE  /\ removed + Len(ItemBytes(f, OtherItems(f))) = Len(ItemBytes(f, AllItems(f)))
         /\ filter_buf \in Seq(Octet)
         /\ Filled(filter_buf, Len(OldMatch(f)) + 10, 4, ItemBytes(f, OtherItems(f)))
<1> DEFINE all == Items(f, AllItems(f))
           kept == Items(f, OtherItems(f))
           n == Len(f.items)
           old == Len(ItemBytes(f, AllItems(f)))
           c == Len(OldMatch(f)) + 10
<1>1. MatchStart = 4
  BY LayoutAssumption
<1>2. old \in Nat /\ Pad(4 + old) \in 0 .. 7 /\ total_length = 4 + old + Pad(4 + old)
  BY TotalLength, MatchLengths
<1>3. /\ all \in Seq(Seq(Octet)) /\ Len(all) = n /\ FlattenSeq(all) = ItemBytes(f, AllItems(f))
      /\ kept \in Seq(Seq(Octet)) /\ Len(kept) = n /\ n \in Nat
      /\ FlattenSeq(kept) = ItemBytes(f, OtherItems(f))
  BY ItemLists, FlowModFacts DEF ItemBytes
<1>4. PICK k \in 0 .. n, e \in {0, 4} :
        /\ Walked(all, kept, MatchStart, MatchStart, k, e, c)
        /\ e = 4 => k = n /\ Pad(match_length) > 4
  BY DEF IInv, InMatch
<1> HIDE DEF all, kept, n, old, c
<1>5. k = n
  <2> SUFFICES ASSUME k < n PROVE FALSE
    BY <1>3
  <2>1. e = 0
    BY <1>3, <1>4
  <2> DEFINE u == Len(Upto(all, k))
             s == Len(all[k + 1])
  <2>2. u \in Nat
    BY <1>3, UptoType
  <2>3. k \in Nat /\ k + 1 <= Len(all) /\ k + 1 \in 1 .. n
    BY <1>3
  <2>4. u + s <= Len(FlattenSeq(all))
    BY <1>3, <2>3, FlattenAt
  <2>5. s \in Nat /\ s > 4
    <3>1. s = f.items[k + 1].size
      BY <2>3, ItemLists DEF all, n
    <3>2. f.items[k + 1].size \in Nat /\ f.items[k + 1].size > 4
      BY <2>3, FlowModFacts DEF n
    <3> QED BY <3>1, <3>2
  <2>6. item = 4 + u + 0
    BY <1>1, <1>4, <2>1 DEF Walked
  <2> HIDE DEF u, s
  <2>7. u + s <= old
    BY <1>3, <2>4 DEF old
  <2> DEFINE pd == Pad(4 + old)
  <2>8. pd \in 0 .. 7 /\ total_length = 4 + old + pd
    BY <1>2
  <2> HIDE DEF pd
  <2>9. 4 + u < 4 + old + pd - 4
    BY <1>2, <2>2, <2>5, <2>7, <2>8
  <2>10. item = 4 + u
    BY <2>2, <2>6
  <2> QED BY <1>2, <2>2, <2>8, <2>9, <2>10
<1>6. Upto(all, n) = ItemBytes(f, AllItems(f)) /\ Upto(kept, n) = ItemBytes(f, OtherItems(f))
  BY <1>3, UptoEnds
<1>7. Walked(all, kept, MatchStart, MatchStart, n, e, c)
  BY <1>4, <1>5
<1> QED BY <1>1, <1>6, <1>7 DEF Walked, c

LEMMA JoinThree ==
  ASSUME NEW u \in Seq(Octet), NEW v \in Seq(Octet), NEW w \in Seq(Octet)
  PROVE  (u \o v) \o w = u \o (v \o w)
BY ConcatAssociative

(* The match that is written back. *)
LEMMA MatchBuilt ==
  ASSUME NEW f \in FlowMods, NEW mem \in Seq(Octet),
         Filled(mem, Len(OldMatch(f)) + 10, 4, ItemBytes(f, OtherItems(f)))
  PROVE  Bytes(<<"match", 0, 0>>, MatchStart) \o
           Slice(mem, MatchStart, Len(NewMatch(f)) - MatchStart) = NewMatch(f)
<1> DEFINE x == ItemBytes(f, OtherItems(f))
           h == Bytes(<<"match", 0, 0>>, 4)
           p == Pad(4 + Len(x))
           w == Len(OldMatch(f)) + 10
<1>1. MatchStart = 4
  BY LayoutAssumption
<1>2. x \in Seq(Octet) /\ Len(x) \in Nat
  BY ItemBytesType, OctetFacts
<1>3. /\ Len(NewMatch(f)) = 4 + Len(x) + p /\ p \in 0 .. 7
      /\ Len(NewMatch(f)) <= Len(OldMatch(f)) /\ OldMatch(f) \in Seq(Octet)
  BY MatchLengths
<1>4. p \in Nat
  BY <1>3
<1>5. NewMatch(f) = h \o x \o Zeros(p)
  BY <1>1 DEF NewMatch, Match
<1>6. h \in Seq(Octet)
  BY MatchHeader
<1>7. Zeros(p) \in Seq(Octet)
  <2>1. Zero \in Octet
    BY OctetFacts
  <2> HIDE DEF p
  <2> QED BY <1>4, <2>1, ZerosProperties
<1> HIDE DEF x, h, p
<1>8. Slice(mem, 4, Len(x) + p) = x \o Zeros(p)
  <2>1. 4 + Len(x) + p <= w
    <3> DEFINE a == Len(NewMatch(f))
               b == Len(OldMatch(f))
    <3>1. a = 4 + Len(x) + p /\ a <= b /\ b \in Nat /\ w = b + 10
      BY <1>3
    <3> HIDE DEF a, b, w
    <3> QED BY <1>2, <1>4, <3>1
  <2>2. Filled(mem, w, 4, x) /\ Zero \in Octet /\ 4 \in Nat
    BY OctetFacts DEF x
  <2> HIDE DEF w
  <2> QED BY <1>2, <1>4, <2>1, <2>2, FilledSlice
<1>9. Len(NewMatch(f)) - MatchStart = Len(x) + p
  BY <1>1, <1>2, <1>3, <1>4
<1>10. h \o (x \o Zeros(p)) = (h \o x) \o Zeros(p)
  <2> DEFINE z == Zeros(p)
  <2>2. x \in Seq(Octet)
    BY <1>2
  <2>3. z \in Seq(Octet)
    BY <1>7
  <2> HIDE DEF z
  <2>4. (h \o x) \o z = h \o (x \o z)
    BY <1>6, <2>2, <2>3, JoinThree
  <2> QED BY <2>4 DEF z
<1> QED BY <1>1, <1>5, <1>8, <1>9, <1>10 DEF h

(* What a message is taken to carry behind its match. *)
LEMMA HasInst ==
  ASSUME NEW f \in FlowMods
  PROVE  LET total == Len(OldMatch(f)) IN
         /\ Received(f).header = Fixed + (total + Len(FlattenSeq(AllInsts(f))))
         /\ Received(f).header - Fixed - total >= 2 <=> f.insts # <<>>
         /\ Received(f).match = 4 + Len(ItemBytes(f, AllItems(f)))
         /\ Received(f).inst = IF f.insts = <<>> THEN 0 ELSE Len(FirstInst(f))
         /\ Received(f).inst \in Nat
         /\ f.insts # <<>> =>
              /\ Received(f).inst >= 8
              /\ Slice(Received(f).body, total, Received(f).inst) = FirstInst(f)
<1> DEFINE total == Len(OldMatch(f))
           b == OldMatch(f) \o FlattenSeq(AllInsts(f))
           l == MatchStart + Len(ItemBytes(f, AllItems(f)))
           d == IF f.insts = <<>> THEN 0 ELSE Len(FirstInst(f))
           n == Len(FlattenSeq(AllInsts(f)))
<1>1. Received(f) = [header |-> Fixed + Len(b), match |-> l, inst |-> d, body |-> b]
  BY ReceivedIs
<1>2. total \in Nat /\ n \in Nat /\ Fixed \in Nat
  BY MatchLengths, InstsLength, LayoutAssumption
<1>3. Len(b) = total + n /\ b \in Seq(Octet)
  <2>1. OldMatch(f) \in Seq(Octet) /\ FlattenSeq(AllInsts(f)) \in Seq(Octet)
    BY MatchLengths, InstsLength
  <2> QED BY <2>1
<1>4. l = 4 + Len(ItemBytes(f, AllItems(f)))
  BY LayoutAssumption
<1>5. ASSUME f.insts = <<>> PROVE n = 0
  BY <1>5, InstsLength
<1>6. ASSUME f.insts # <<>>
      PROVE  d = Len(FirstInst(f)) /\ d \in Nat /\ d >= 8 /\ d <= n
  <2>1. d = Len(FirstInst(f))
    BY <1>6
  <2>2. /\ Len(FirstInst(f)) = 8 + Len(ActionBytes(f, 1, AllActions(f, 1)))
        /\ Len(FirstInst(f)) <= n /\ 1 \in 1 .. Len(f.insts)
    BY <1>6, InstsLength
  <2>3. Len(ActionBytes(f, 1, AllActions(f, 1))) \in Nat
    BY <2>2, ActionBytesType
  <2> HIDE DEF d, n
  <2> QED BY <2>1, <2>2, <2>3
<1>7. ASSUME f.insts # <<>>
      PROVE  Slice(b, total, d) = FirstInst(f)
  <2>1. FirstInst(f) \in Seq(Octet)
    BY <1>7, InstsLength
  <2>2. Holds(b, total, FlattenSeq(AllInsts(f)))
    <3>1. Holds(Received(f).body, total, FlattenSeq(AllInsts(f)))
      BY BodyHolds
    <3>2. Received(f).body = b
      BY <1>1
    <3> QED BY <3>1, <3>2
  <2>3. Holds(FlattenSeq(AllInsts(f)), 0, FirstInst(f))
    BY <1>7, FirstOfInsts
  <2> DEFINE s == FlattenSeq(AllInsts(f))
             x == FirstInst(f)
  <2>4. Len(x) \in Nat /\ Len(x) <= n /\ Len(s) = n
    BY <1>6, <1>7
  <2> HIDE DEF s, x, n, total, b
  <2>5. Holds(b, total, x)
    <3>1. total + Len(x) <= Len(b)
      BY <1>2, <1>3, <2>4
    <3>2. \A j \in 1 .. Len(x) : b[total + j] = x[j]
      <4> SUFFICES ASSUME NEW j \in 1 .. Len(x) PROVE b[total + j] = x[j]
        OBVIOUS
      <4>1. j \in 1 .. Len(s)
        BY <1>2, <2>4
      <4>2. b[total + j] = s[j]
        BY <2>2, <4>1 DEF Holds, s
      <4>3. s[0 + j] = x[j]
        BY <2>3 DEF Holds, s, x
      <4> QED BY <4>2, <4>3
    <3> QED BY <3>1, <3>2 DEF Holds
  <2>6. Zero \in Octet
    BY OctetFacts
  <2>7. Slice(b, total, Len(x)) = x
    BY <1>2, <1>3, <2>1, <2>5, <2>6, HoldsSlice DEF x
  <2> QED BY <1>6, <1>7, <2>7 DEF x
<1> HIDE DEF b, l, d, n, total
<1>8. Received(f).header = Fixed + (total + n)
  BY <1>1, <1>3
<1>9. Received(f).header - Fixed - total = n
  BY <1>2, <1>8
<1>10. n >= 2 <=> f.insts # <<>>
  BY <1>2, <1>5, <1>6
<1>11. d \in Nat
  BY <1>6 DEF d
<1> QED BY <1>1, <1>4, <1>6, <1>7, <1>8, <1>9, <1>10, <1>11 DEF total, n, d

LEMMA MatchRewritten ==
  ASSUME NEW f \in FlowMods, flow_mod = f, IInv, MatchDone,
         NEW K, f.insts # <<>> => InstBytes(f, 1, K) = FirstInst(f)
  PROVE  /\ Rewritten(f, K)'
         /\ header_length' \in Nat /\ match_length' \in Nat /\ new_len' \in Nat
<1> DEFINE old == Len(ItemBytes(f, AllItems(f)))
           new == Len(ItemBytes(f, OtherItems(f)))
           po == Pad(4 + old)
           pn == Pad(4 + new)
           total == Len(OldMatch(f))
           len == Len(NewMatch(f))
           n == Len(FlattenSeq(AllInsts(f)))
           inst == IF f.insts = <<>> THEN <<>> ELSE FirstInst(f)
           body == Received(f).body
           m == Copied(Copied(body, 0, NewMatch(f)), len, inst)
<1>1. pc = "match" /\ item >= total_length - 4 /\ InMatch(f)
  BY DEF MatchDone, IInv
<1>2. /\ old \in Nat /\ new \in Nat /\ po \in 0 .. 7 /\ pn \in 0 .. 7
      /\ total = 4 + old + po /\ len = 4 + new + pn /\ len <= total
  BY MatchLengths
<1>3. MatchStart = 4 /\ Fixed \in Nat
  BY LayoutAssumption
<1>4. total_length = total
  BY TotalLength
<1>5. /\ removed + new = old /\ filter_buf \in Seq(Octet)
      /\ Filled(filter_buf, Len(OldMatch(f)) + 10, 4, ItemBytes(f, OtherItems(f)))
  BY <1>1, MatchRead
<1>6. /\ msg = body /\ header_length = Received(f).header
      /\ match_length = Received(f).match /\ inst_length = Received(f).inst
  BY <1>1 DEF InMatch
<1>7. removed \in Nat
  BY DEF IInv, TypeOK
<1>8. /\ header_length = Fixed + (total + n)
      /\ header_length - Fixed - total >= 2 <=> f.insts # <<>>
      /\ match_length = 4 + old
      /\ inst_length = IF f.insts = <<>> THEN 0 ELSE Len(FirstInst(f))
      /\ f.insts # <<>> => Slice(body, total, inst_length) = FirstInst(f)
  BY <1>6, HasInst
<1>9. n \in Nat
  BY InstsLength
<1> DEFINE nml == match_length - removed
<1>10. nml = 4 + new
  BY <1>2, <1>5, <1>7, <1>8
<1>11. Padded(nml) = len
  BY <1>2, <1>3, <1>10, MatchType DEF NewMatch
<1>12. Bytes(<<"match", 0, 0>>, MatchStart) \o
         Slice(filter_buf, MatchStart, len - MatchStart) = NewMatch(f)
  BY <1>5, MatchBuilt
<1> DEFINE has == header_length - Fixed - total_length >= 2
<1>13. has <=> f.insts # <<>>
  BY <1>4, <1>8
<1>14. (IF has THEN Slice(msg, total_length, inst_length) ELSE <<>>) = inst
  BY <1>4, <1>6, <1>8, <1>13
<1> HIDE DEF has, nml
<1>15. /\ header_length' = header_length - except_len(nml)
       /\ match_length' = nml
       /\ new_len' = Padded(nml)
       /\ msg' = Copied(Copied(msg, 0, Bytes(<<"match", 0, 0>>, MatchStart) \o
                        Slice(filter_buf, MatchStart, Padded(nml) - MatchStart)),
                        Padded(nml),
                        IF has THEN Slice(msg, total_length, inst_length) ELSE <<>>)
       /\ inst_length' = inst_length /\ flow_mod' = flow_mod
  BY DEF MatchDone, has, nml
<1> HIDE DEF inst, body
<1>16. msg' = m
  BY <1>6, <1>11, <1>12, <1>14, <1>15
<1> HIDE DEF m, len, old, new, po, pn, total, n
<1>17. new_len' = len /\ match_length' = 4 + new
  BY <1>10, <1>11, <1>15
<1>18. LostPad(f) = IF pn = 0 THEN po ELSE 0
  BY <1>3 DEF LostPad, old, new, po, pn
<1>19. except_len(nml) = IF pn = 0 THEN removed ELSE removed - (pn - po)
  BY <1>8, <1>10 DEF except_len, po, pn
<1>20. header_length' = Fixed + len + LostPad(f) + n
  <2>1. header_length' = (Fixed + (total + n)) - (IF pn = 0 THEN removed ELSE removed - (pn - po))
    BY <1>8, <1>15, <1>19
  <2>2. CASE pn = 0
    <3>1. header_length' = (Fixed + (total + n)) - removed /\ LostPad(f) = po
      BY <1>18, <2>1, <2>2
    <3>2. len = 4 + new /\ total = 4 + (removed + new) + po
      BY <1>2, <1>5, <2>2
    <3>3. header_length' = (Fixed + (4 + (removed + new) + po + n)) - removed
      BY <3>1, <3>2
    <3>4. po \in Nat
      BY <1>2
    <3>5. header_length' = Fixed + (4 + new) + po + n
      BY <1>2, <1>3, <1>7, <1>9, <3>3, <3>4
    <3> QED BY <3>1, <3>2, <3>5
  <2>3. CASE pn # 0
    <3>1. header_length' = (Fixed + (total + n)) - (removed - (pn - po)) /\ LostPad(f) = 0
      BY <1>18, <2>1, <2>3
    <3>2. len = 4 + new + pn /\ total = 4 + (removed + new) + po
      BY <1>2, <1>5
    <3>3. header_length'
            = (Fixed + (4 + (removed + new) + po + n)) - (removed - (pn - po))
      BY <3>1, <3>2
    <3>4. po \in Nat /\ pn \in Nat
      BY <1>2
    <3>5. header_length' = Fixed + (4 + new + pn) + 0 + n
      BY <1>2, <1>3, <1>7, <1>9, <3>3, <3>4
    <3> QED BY <3>1, <3>2, <3>5
  <2> QED BY <2>2, <2>3
<1>21. LostPad(f) \in Nat /\ len \in Nat
  BY <1>2, <1>18
<1>22. header_length' \in Nat /\ match_length' \in Nat /\ new_len' \in Nat
  BY <1>2, <1>3, <1>9, <1>17, <1>20, <1>21
<1>23. Gone(f, K) = 0
  <2>1. f.insts # <<>> => Len(FirstInst(f)) \in Nat
    <3>1. f.insts # <<>> => FirstInst(f) \in Seq(Octet)
      BY InstsLength
    <3> QED BY <3>1
  <2> QED BY <2>1 DEF Gone
<1>24. header_length' + Gone(f, K) = Fixed + len + LostPad(f) + n
  BY <1>20, <1>22, <1>23
<1>25. inst_length' = IF f.insts = <<>> THEN 0 ELSE Len(InstBytes(f, 1, K))
  BY <1>8, <1>15
<1>26. /\ m \in Seq(Octet)
       /\ Holds(m, 0, NewMatch(f))
       /\ f.insts # <<>> => Holds(m, len, FirstInst(f))
       /\ len = total => Holds(m, len, FlattenSeq(AllInsts(f)))
       /\ f.insts # <<>> /\ len # total =>
            /\ len + Len(FirstInst(f)) + 1 <= Len(m)
            /\ m[len + Len(FirstInst(f)) + 1] \in InFront
  BY MovedUp DEF m, len, total, body, inst
<1>27. f.insts # <<>> => Holds(msg', len, InstBytes(f, 1, K))
  BY <1>16, <1>26
<1>28. Len(f.insts) >= 2 /\ (len # total \/ Gone(f, K) # 0) =>
         /\ len + Len(InstBytes(f, 1, K)) + 1 <= Len(msg')
         /\ msg'[len + Len(InstBytes(f, 1, K)) + 1] \in InFront
  <2>1. Len(f.insts) >= 2 => f.insts # <<>>
    BY FlowModFacts
  <2> QED BY <1>16, <1>23, <1>26, <2>1
<1>29. Rewritten(f, K)'
  BY <1>3, <1>16, <1>17, <1>24, <1>25, <1>26, <1>27, <1>28
     DEF Rewritten, len, new, total, n
<1> QED BY <1>22, <1>29

-----------------------------------------------------------------------------
(* The walk over the first instruction's actions.                          *)

LEMMA ActionLists ==
  ASSUME NEW f \in FlowMods, f.insts # <<>>, f.insts[1].apply
  PROVE  LET all  == Actions(f, 1, AllActions(f, 1))
             kept == Actions(f, 1, KeptActions(f, 1))
             n    == Len(f.insts[1].actions) IN
         /\ n \in Nat
         /\ all \in Seq(Seq(Octet)) /\ Len(all) = n
         /\ kept \in Seq(Seq(Octet)) /\ Len(kept) = n
         /\ \A i \in 1 .. n :
              /\ all[i] = Bytes(<<"action", 1, i>>, f.insts[1].actions[i].size)
              /\ Len(all[i]) = f.insts[1].actions[i].size
              /\ kept[i] = IF f.insts[1].actions[i].set THEN <<>> ELSE all[i]
<1> DEFINE all  == Actions(f, 1, AllActions(f, 1))
           kept == Actions(f, 1, KeptActions(f, 1))
           n    == Len(f.insts[1].actions)
           names == ActionNames(f, 1)
           sizes == ActionSizes(f, 1)
<1>0. 1 \in 1 .. Len(f.insts)
  BY FlowModFacts
<1>1. Seq(Seq(InFront)) \subseteq Seq(Seq(Octet))
  BY OctetFacts
<1>2. all \in Seq(Seq(InFront)) /\ Len(all) = n
  BY <1>0, ActionBytesType
<1>3. kept \in Seq(Seq(InFront)) /\ Len(kept) = n
  BY <1>0, ActionBytesType
<1>4. Named(InFront, names, sizes) /\ Len(sizes) = n
  BY <1>0, ActionsNamed
<1>5. n \in Nat
  BY <1>0, FlowModFacts
<1>6. ASSUME NEW K, NEW i \in 1 .. n
      PROVE  Actions(f, 1, K)[i]
               = IF i \in K THEN Bytes(<<"action", 1, i>>, f.insts[1].actions[i].size)
                            ELSE <<>>
  <2>1. \A l \in 1 .. Len(sizes) :
          Elements(names, sizes, K)[l]
            = IF l \in K THEN Bytes(names[l], sizes[l]) ELSE <<>>
    BY <1>4, ElementsProperties
  <2>2. i \in 1 .. Len(sizes)
    BY <1>4
  <2>3. sizes[i] = f.insts[1].actions[i].size /\ names[i] = <<"action", 1, i>>
    BY <1>0, ActionsNamed
  <2> QED BY <2>1, <2>2, <2>3 DEF Actions
<1>7. ASSUME NEW i \in 1 .. n
      PROVE  /\ all[i] = Bytes(<<"action", 1, i>>, f.insts[1].actions[i].size)
             /\ Len(all[i]) = f.insts[1].actions[i].size
             /\ kept[i] = IF f.insts[1].actions[i].set THEN <<>> ELSE all[i]
  <2>1. all[i] = Bytes(<<"action", 1, i>>, f.insts[1].actions[i].size)
    BY <1>6 DEF AllActions
  <2>2. f.insts[1].actions[i].size \in Nat
    BY <1>0, ActionFacts
  <2>3. Len(Bytes(<<"action", 1, i>>, f.insts[1].actions[i].size))
          = f.insts[1].actions[i].size
    BY <2>2 DEF Bytes
  <2>4. kept[i] = IF i \in KeptActions(f, 1)
                  THEN Bytes(<<"action", 1, i>>, f.insts[1].actions[i].size) ELSE <<>>
    BY <1>6
  <2>5. i \in KeptActions(f, 1) <=> ~f.insts[1].actions[i].set
    BY DEF KeptActions, AllActions
  <2> QED BY <2>1, <2>3, <2>4, <2>5
<1> QED BY <1>1, <1>2, <1>3, <1>5, <1>7

(* Without an apply nothing leaves the first instruction. *)
LEMMA NothingLeaves ==
  ASSUME NEW f \in FlowMods, f.insts # <<>>, ~f.insts[1].apply
  PROVE  InstBytes(f, 1, KeptActions(f, 1)) = FirstInst(f)
<1>1. KeptActions(f, 1) = AllActions(f, 1)
  BY DEF KeptActions
<1> QED BY <1>1 DEF FirstInst

LEMMA MatchDoneInv ==
  ASSUME IInv, MatchDone
  PROVE  IInv'
<1>1. PICK f \in FlowMods : flow_mod = f
  BY DEF IInv, TypeOK
<1> DEFINE len == Len(NewMatch(f))
           all  == Actions(f, 1, AllActions(f, 1))
           kept == Actions(f, 1, KeptActions(f, 1))
           c == inst_length + 10
<1>2. /\ flow_mod' = flow_mod /\ inst_length' = inst_length
      /\ new_item' = 0 /\ removed' = 0 /\ pc = "match"
  BY DEF MatchDone
<1>3. /\ header_length = Received(f).header /\ inst_length = Received(f).inst
      /\ total_length = Len(OldMatch(f))
  BY <1>1, <1>2, TotalLength DEF IInv, InMatch
<1>4. header_length - Fixed - total_length >= 2 <=> f.insts # <<>>
  BY <1>3, HasInst
<1>5. inst_length \in Nat /\ (f.insts # <<>> => inst_length >= 8)
  BY <1>3, HasInst
<1>6. /\ pc' = IF f.insts = <<>> THEN "done"
               ELSE IF c > FilterSize THEN "overrun"
               ELSE IF f.insts[1].apply THEN "actions" ELSE "done"
      /\ filter_buf' = IF f.insts = <<>> THEN filter_buf ELSE Cleared(filter_buf, c)
  BY <1>1, <1>4 DEF MatchDone, Overruns
<1>7. ASSUME NEW K, f.insts # <<>> => InstBytes(f, 1, K) = FirstInst(f)
      PROVE  /\ Rewritten(f, K)'
             /\ header_length' \in Nat /\ match_length' \in Nat /\ new_len' \in Nat
  BY <1>1, <1>7, MatchRewritten
<1>8. /\ Rewritten(f, AllActions(f, 1))'
      /\ header_length' \in Nat /\ match_length' \in Nat /\ new_len' \in Nat
  BY <1>7 DEF FirstInst
<1>9. new_len' = len /\ item' = new_len' + InstStart
  BY <1>8 DEF Rewritten, MatchDone
<1>10. InstStart = 8
  BY LayoutAssumption
<1>11. /\ Len(filter_buf') = FilterSize /\ FilterSize \in Nat
       /\ f.insts # <<>> =>
            /\ filter_buf' \in Seq(Octet)
            /\ \A j \in 1 .. FilterSize : j <= c => filter_buf'[j] = Zero
  <2>1. c \in Nat
    BY <1>5
  <2>2. filter_buf \in Seq(Octet) /\ Len(filter_buf) = FilterSize
    BY <1>1, <1>2 DEF IInv, TypeOK, InMatch, Walked
  <2> HIDE DEF c
  <2>3. /\ Cleared(filter_buf, c) \in Seq(Octet)
        /\ Len(Cleared(filter_buf, c)) = FilterSize
        /\ \A j \in 1 .. FilterSize : j <= c => Cleared(filter_buf, c)[j] = Zero
    BY <2>1, <2>2, ClearedProperties
  <2> QED BY <1>6, <2>2, <2>3, FlowModsAssumption
<1>12. item' \in Nat
  BY <1>8, <1>9, <1>10
<1>13. (pc = "actions" => item <= new_len + inst_length)'
  <2> SUFFICES ASSUME pc' = "actions" PROVE item' <= new_len' + inst_length'
    OBVIOUS
  <2>1. f.insts # <<>>
    BY <1>6
  <2> QED BY <1>2, <1>5, <1>8, <1>9, <1>10, <2>1
<1>14. TypeOK'
  <2>1. /\ flow_mod' \in FlowMods /\ pc' # "match"
        /\ pc' \in {"match", "actions", "done", "overrun"}
    BY <1>1, <1>2, <1>6
  <2>2. /\ new_item' \in Nat /\ removed' \in Nat
        /\ pc' = "actions" => new_item' + 4 <= FilterSize
    BY <1>2, <1>5, <1>6, <1>11
  <2> QED BY <1>2, <1>5, <1>8, <1>11, <1>12, <1>13, <2>1, <2>2 DEF TypeOK
<1>15. (pc = "actions" => InActions(flow_mod))'
  <2> SUFFICES ASSUME pc' = "actions" PROVE InActions(f)'
    BY <1>1, <1>2
  <2>1. f.insts # <<>> /\ f.insts[1].apply
    BY <1>6
  <2>2. /\ all \in Seq(Seq(Octet)) /\ kept \in Seq(Seq(Octet))
        /\ Len(f.insts[1].actions) \in Nat
    BY <2>1, ActionLists
  <2>3. Upto(all, 0) = <<>> /\ Upto(kept, 0) = <<>>
    BY <2>2, UptoEnds
  <2>4. Len(<<>>) = 0
    OBVIOUS
  <2>10. c <= FilterSize /\ c \in Nat
    BY <1>5, <1>6, <1>11
  <2>5. Filled(filter_buf', c, 0, <<>>)
    <3> HIDE DEF c
    <3>1. \A j \in 1 .. c : filter_buf'[j] = Zero
      BY <1>11, <2>1, <2>10
    <3> QED BY <1>11, <2>4, <2>10, <3>1 DEF Filled
  <2>6. item' = len + InstStart + Len(<<>>) + 0
    BY <1>8, <1>9, <1>10, <2>4
  <2>7. new_item' = 0 + Len(<<>>) + 0 /\ removed' + Len(<<>>) = Len(<<>>)
    BY <1>2, <2>4
  <2>11. c = Len(FirstInst(f)) + 10
    BY <1>3, <2>1, HasInst
  <2>12. Filled(filter_buf', Len(FirstInst(f)) + 10, 0, <<>>)
    BY <2>5, <2>11
  <2>8. Walked(all, kept, len + InstStart, 0, 0, 0, Len(FirstInst(f)) + 10)'
    BY <1>11, <2>1, <2>3, <2>6, <2>7, <2>12 DEF Walked
  <2>9. 0 \in 0 .. Len(f.insts[1].actions)
    BY <2>2
  <2> QED BY <1>2, <1>8, <2>1, <2>8, <2>9, <2>10 DEF InActions
<1>16. (pc = "done" => Rewritten(flow_mod, KeptActions(flow_mod, 1)))'
  <2> SUFFICES ASSUME pc' = "done" PROVE Rewritten(f, KeptActions(f, 1))'
    BY <1>1, <1>2
  <2>1. f.insts # <<>> => ~f.insts[1].apply
    BY <1>6
  <2>2. f.insts # <<>> => InstBytes(f, 1, KeptActions(f, 1)) = FirstInst(f)
    BY <2>1, NothingLeaves
  <2> QED BY <1>7, <2>2
<1>17. pc' # "match"
  BY <1>6
<1> QED BY <1>14, <1>15, <1>16, <1>17 DEF IInv

(* Where the actions of the first instruction are. *)
LEMMA ActionsHeld ==
  ASSUME NEW f \in FlowMods, f.insts # <<>>, NEW mem \in Seq(Octet), NEW at \in Nat, NEW K
  PROVE  Holds(mem, at, InstBytes(f, 1, K)) <=>
           /\ Holds(mem, at, Bytes(<<"inst", 1, 0>>, InstStart))
           /\ Holds(mem, at + 8, ActionBytes(f, 1, K))
<1> DEFINE h == Bytes(<<"inst", 1, 0>>, InstStart)
           x == ActionBytes(f, 1, K)
<1>1. 1 \in 1 .. Len(f.insts)
  BY InstsLength
<1>2. h \in Seq(Octet) /\ Len(h) = 8
  BY <1>1, InstType
<1>3. x \in Seq(Octet)
  BY <1>1, ActionBytesType, OctetFacts
<1>4. InstBytes(f, 1, K) = h \o x
  BY DEF InstBytes
<1> HIDE DEF h, x
<1>5. Holds(mem, at, h \o x) <=> Holds(mem, at, h) /\ Holds(mem, at + Len(h), x)
  BY <1>2, <1>3, HoldsParts
<1> QED BY <1>2, <1>4, <1>5 DEF h, x

(* The lengths of the instruction and of its actions. *)
LEMMA ActionLengths ==
  ASSUME NEW f \in FlowMods, f.insts # <<>>
  PROVE  LET all  == Len(ActionBytes(f, 1, AllActions(f, 1)))
             kept == Len(ActionBytes(f, 1, KeptActions(f, 1))) IN
         /\ all \in Nat /\ kept \in Nat /\ kept <= all
         /\ ActionBytes(f, 1, KeptActions(f, 1)) \in Seq(Octet)
         /\ Len(FirstInst(f)) = 8 + all
         /\ Len(InstBytes(f, 1, KeptActions(f, 1))) = 8 + kept
         /\ kept = all => InstBytes(f, 1, KeptActions(f, 1)) = FirstInst(f)
<1> DEFINE all  == Len(ActionBytes(f, 1, AllActions(f, 1)))
           kept == Len(ActionBytes(f, 1, KeptActions(f, 1)))
<1>1. 1 \in 1 .. Len(f.insts)
  BY InstsLength
<1>2. /\ all \in Nat /\ kept \in Nat
      /\ ActionBytes(f, 1, KeptActions(f, 1)) \in Seq(Octet)
  BY <1>1, ActionBytesType, OctetFacts
<1>3. Len(FirstInst(f)) = 8 + all
  BY <1>1, InstType DEF FirstInst
<1>4. Len(InstBytes(f, 1, KeptActions(f, 1))) = 8 + kept
  BY <1>1, InstType
<1>5. kept <= all /\ (KeptActions(f, 1) # AllActions(f, 1) => kept < all)
  <2>1. Named(InFront, ActionNames(f, 1), ActionSizes(f, 1))
    BY <1>1, ActionsNamed
  <2>2. \A i \in 1 .. Len(ActionSizes(f, 1)) : ActionSizes(f, 1)[i] > 0
    <3> SUFFICES ASSUME NEW i \in 1 .. Len(ActionSizes(f, 1))
                 PROVE  ActionSizes(f, 1)[i] > 0
      OBVIOUS
    <3>1. i \in 1 .. Len(f.insts[1].actions)
      BY <1>1, ActionsNamed
    <3>2. ActionSizes(f, 1)[i] = f.insts[1].actions[i].size
      BY <1>1, <3>1, ActionsNamed
    <3>3. f.insts[1].actions[i].size > 0
      BY <1>1, <3>1, ActionFacts
    <3> QED BY <3>2, <3>3
  <2>3. KeptActions(f, 1) \subseteq AllActions(f, 1)
    BY DEF KeptActions
  <2>4. AllActions(f, 1) \subseteq 1 .. Len(ActionSizes(f, 1))
    BY <1>1, ActionsNamed DEF AllActions
  <2> QED BY <2>1, <2>2, <2>3, <2>4, FewerElements DEF ActionBytes, Actions
<1>6. kept = all => InstBytes(f, 1, KeptActions(f, 1)) = FirstInst(f)
  <2> HIDE DEF all, kept
  <2>1. kept = all => KeptActions(f, 1) = AllActions(f, 1)
    BY <1>2, <1>5
  <2> QED BY <2>1 DEF FirstInst
<1> HIDE DEF all, kept
<1> QED BY <1>2, <1>3, <1>4, <1>5, <1>6 DEF all, kept

(* The action that the walk stands at. *)
LEMMA ActionThere ==
  ASSUME NEW f \in FlowMods, flow_mod = f, msg \in Seq(Octet),
         f.insts # <<>>, f.insts[1].apply, NEW at \in Nat,
         NEW k \in Nat, k + 1 <= Len(f.insts[1].actions),
         Holds(msg, at, ActionBytes(f, 1, AllActions(f, 1)))
  PROVE  ActionAt(at + Len(Upto(Actions(f, 1, AllActions(f, 1)), k)))
           = f.insts[1].actions[k + 1]
<1> DEFINE all == Actions(f, 1, AllActions(f, 1))
           p == at + Len(Upto(all, k))
           e == <<"action", 1, k + 1>>
           n == Len(f.insts[1].actions)
           s == f.insts[1].actions[k + 1].size
<1>1. all \in Seq(Seq(Octet)) /\ Len(all) = n /\ n \in Nat
  BY ActionLists
<1>2. k + 1 \in 1 .. n
  BY <1>1
<1>3. all[k + 1] = Bytes(e, s) /\ Len(all[k + 1]) = s
  BY <1>2, ActionLists
<1>4. s \in Nat /\ s > 0
  BY <1>2, InstsLength, ActionFacts
<1>5. Holds(msg, at, FlattenSeq(all))
  BY DEF ActionBytes
<1> HIDE DEF all, s, e, n
<1>6. Holds(msg, p, all[k + 1])
  <2>1. k + 1 <= Len(all)
    BY <1>1, <1>2
  <2> QED BY <1>1, <1>5, <2>1, HoldsList
<1>7. Len(Upto(all, k)) \in Nat
  <2>1. k \in 0 .. Len(all)
    BY <1>1, <1>2
  <2> QED BY <1>1, <2>1, UptoType
<1>8. p \in Nat
  BY <1>7
<1> HIDE DEF p
<1>9. msg[p + 1] = all[k + 1][1]
  BY <1>3, <1>4, <1>6 DEF Holds
<1>10. Bytes(e, s)[1] = <<e, 1>>
  BY <1>4 DEF Bytes
<1>11. msg[p + 1] = <<e, 1>>
  BY <1>3, <1>9, <1>10
<1>12. ElementAt(p) = e
  BY <1>11 DEF ElementAt
<1>13. e[2] = 1 /\ e[3] = k + 1
  BY DEF e
<1> QED BY <1>12, <1>13 DEF ActionAt, p, all

(* At an action without a length the walk stays. *)
LEMMA StaysInv ==
  ASSUME IInv, ActionItem, NEW f \in FlowMods, flow_mod = f,
         NEW k \in 0 .. Len(f.insts[1].actions), k < Len(f.insts[1].actions),
         f.insts[1].actions[k + 1].len = 0, ActionAt(item).len = 0,
         item = Len(NewMatch(f)) + InstStart
                  + Len(Upto(Actions(f, 1, AllActions(f, 1)), k)),
         filter_buf \in Seq(Octet),
         new_item \in Nat, new_item <= Len(ActionBytes(f, 1, AllActions(f, 1)))
  PROVE  IInv'
<1> DEFINE size == Len(ActionBytes(f, 1, AllActions(f, 1)))
<1>1. /\ pc = "actions" /\ InActions(f) /\ TypeOK
      /\ Walk(0, ActionAt(item).set)
      /\ UNCHANGED <<flow_mod, pc, msg, fields, new_len>>
  BY DEF ActionItem, IInv
<1>2. f.insts # <<>> /\ f.insts[1].apply /\ Rewritten(f, AllActions(f, 1))
      /\ inst_length + 10 <= FilterSize
  BY <1>1 DEF InActions
<1>3. /\ item \in Nat /\ new_item \in Nat /\ removed \in Nat
      /\ Len(filter_buf) = FilterSize /\ FilterSize \in Nat /\ inst_length \in Nat
  BY <1>1, FlowModsAssumption DEF TypeOK
<1>4. /\ msg \in Seq(Octet) /\ inst_length = 8 + size /\ size \in Nat
  BY <1>2, ActionLengths DEF Rewritten, FirstInst
<1>5. item' = item /\ new_item' = new_item /\ removed' = removed
  BY <1>1, <1>3 DEF Walk
<1>6. filter_buf' \in Seq(Octet) /\ Len(filter_buf') = FilterSize
  <2>1. CASE filter_buf' = filter_buf
    BY <1>3, <2>1
  <2>2. CASE filter_buf' = Copied(filter_buf, new_item, Slice(msg, item, 4))
    <3> DEFINE x == Slice(msg, item, 4)
               four == 4
    <3>1. Zero \in Octet /\ four \in Nat
      BY OctetFacts
    <3> HIDE DEF four
    <3>2. Slice(msg, item, four) \in Seq(Octet)
      BY <1>3, <1>4, <3>1, SliceType
    <3>3. x \in Seq(Octet)
      BY <3>2 DEF four
    <3> HIDE DEF x
    <3>4. /\ Copied(filter_buf, new_item, x) \in Seq(Octet)
          /\ Len(Copied(filter_buf, new_item, x)) = Len(filter_buf)
      BY <1>3, <3>3, CopiedType
    <3> QED BY <1>3, <2>2, <3>4 DEF x
  <2> QED BY <1>1, <2>1, <2>2 DEF Walk
<1>7. /\ pc' = pc /\ flow_mod' = flow_mod /\ msg' = msg /\ new_len' = new_len
      /\ header_length' = header_length /\ match_length' = match_length
      /\ inst_length' = inst_length
  BY <1>1 DEF fields
<1>8. new_item' + 4 <= FilterSize
  <2>1. new_item <= size
    OBVIOUS
  <2> HIDE DEF size
  <2> QED BY <1>2, <1>3, <1>4, <1>5, <2>1
<1>9. TypeOK'
  <2>1. pc' # "match"
    BY <1>1, <1>7
  <2> QED BY <1>1, <1>3, <1>5, <1>6, <1>7, <1>8, <2>1 DEF TypeOK
<1>10. Rewritten(f, AllActions(f, 1))'
  BY <1>2, <1>7 DEF Rewritten
<1>11. Stays(f, Actions(f, 1, AllActions(f, 1)), Len(NewMatch(f)) + InstStart, k)'
  BY <1>5, <1>6 DEF Stays
<1>12. InActions(f)'
  BY <1>2, <1>7, <1>10, <1>11 DEF InActions
<1> QED BY <1>1, <1>7, <1>9, <1>12 DEF IInv

LEMMA ActionItemInv ==
  ASSUME IInv, ActionItem
  PROVE  IInv'
<1>1. PICK f \in FlowMods : flow_mod = f
  BY DEF IInv, TypeOK
<1> DEFINE all  == Actions(f, 1, AllActions(f, 1))
           kept == Actions(f, 1, KeptActions(f, 1))
           n    == Len(f.insts[1].actions)
           len  == Len(NewMatch(f))
           from == len + 8
           size == Len(ActionBytes(f, 1, AllActions(f, 1)))
           c    == Len(FirstInst(f)) + 10
<1>2. /\ pc = "actions" /\ item < new_len + inst_length /\ InActions(f) /\ TypeOK
      /\ Walk(ActionAt(item).len, ActionAt(item).set)
      /\ UNCHANGED <<flow_mod, pc, msg, fields, new_len>>
  BY <1>1 DEF ActionItem, IInv
<1>3. f.insts # <<>> /\ f.insts[1].apply /\ Rewritten(f, AllActions(f, 1))
      /\ inst_length + 10 <= FilterSize
  BY <1>2 DEF InActions
<1>4. /\ msg \in Seq(Octet) /\ new_len = len /\ inst_length = Len(FirstInst(f))
      /\ Holds(msg, len, FirstInst(f))
  BY <1>3 DEF Rewritten, FirstInst
<1>5. len \in Nat /\ size \in Nat /\ inst_length = 8 + size
  BY <1>3, <1>4, ActionLengths, MatchLengths
<1>6. /\ n \in Nat /\ all \in Seq(Seq(Octet)) /\ Len(all) = n
      /\ kept \in Seq(Seq(Octet)) /\ Len(kept) = n
  BY <1>3, ActionLists
<1>7. FlattenSeq(all) = ActionBytes(f, 1, AllActions(f, 1))
  BY DEF ActionBytes
<1>8. Holds(msg, from, FlattenSeq(all)) /\ from \in Nat
  BY <1>3, <1>4, <1>5, <1>7, ActionsHeld DEF FirstInst
<1>9. InstStart = 8
  BY LayoutAssumption
<1>10. PICK k \in 0 .. n : \/ Walked(all, kept, from, 0, k, 0, c)
                            \/ Stays(f, all, from, k)
  <2>1. \E k \in 0 .. n : \/ Walked(all, kept, len + InstStart, 0, k, 0, c)
                          \/ Stays(f, all, len + InstStart, k)
    BY <1>2 DEF InActions
  <2> QED BY <1>9, <2>1
<1> DEFINE u == Len(Upto(all, k))
<1>11. u \in Nat /\ item = from + u
  <2>1. u \in Nat
    BY <1>6, UptoType
  <2>2. item = from + u + 0 \/ item = from + u
    BY <1>10 DEF Walked, Stays
  <2> HIDE DEF u, from
  <2> QED BY <1>8, <2>1, <2>2
<1>12. k < n
  <2> SUFFICES ASSUME k = n PROVE FALSE
    BY <1>6
  <2>1. u = size
    BY <1>6, <1>7, UptoEnds
  <2> HIDE DEF u, size, len
  <2> QED BY <1>2, <1>4, <1>5, <1>11, <2>1
<1>13. k \in Nat /\ k + 1 <= n /\ k + 1 \in 1 .. n /\ k + 1 \in 0 .. n
  BY <1>6, <1>12
<1> DEFINE a == f.insts[1].actions[k + 1]
           set == a.set
<1>14. ActionAt(item) = a
  <2> HIDE DEF from
  <2> QED BY <1>1, <1>3, <1>4, <1>7, <1>8, <1>11, <1>13, ActionThere
<1>15. /\ set \in BOOLEAN /\ a.size = Len(all[k + 1]) /\ a.size # 0
       /\ kept[k + 1] = IF set THEN <<>> ELSE all[k + 1]
       /\ a.len \in {0, a.size}
  <2>1. /\ a.size = Len(all[k + 1])
        /\ kept[k + 1] = IF set THEN <<>> ELSE all[k + 1]
    BY <1>3, <1>13, ActionLists
  <2>2. /\ set \in BOOLEAN /\ a.size \in Nat /\ a.size > 0
        /\ a.len \in {0, a.size}
    BY <1>3, <1>13, InstsLength, ActionFacts
  <2> HIDE DEF a, all, kept
  <2> QED BY <2>1, <2>2
<1>17. removed \in Nat
  BY <1>2 DEF TypeOK
<1>28. CASE a.len = 0
  <2>1. filter_buf \in Seq(Octet) /\ new_item \in Nat
    BY <1>2, <1>10 DEF Walked, Stays, TypeOK
  <2>2. new_item <= size
    <3>1. CASE Walked(all, kept, from, 0, k, 0, c)
      <4> DEFINE v == Len(Upto(kept, k))
      <4>1. v \in Nat
        BY <1>6, UptoType
      <4>2. new_item = 0 + v + 0 /\ removed + v = u
        BY <3>1 DEF Walked
      <4>3. u <= size
        <5>1. k \in 0 .. Len(all)
          BY <1>6
        <5> HIDE DEF all
        <5> QED BY <1>6, <1>7, <5>1, UptoGrows
      <4> HIDE DEF u, v, size
      <4>4. new_item = v
        BY <4>1, <4>2
      <4>5. v <= u
        <5>1. \A a1, b1, c1 \in Nat : a1 + b1 = c1 => b1 <= c1
          OBVIOUS
        <5> QED BY <1>11, <1>17, <4>1, <4>2, <5>1, ZenonT(20)
      <4> QED BY <1>5, <1>11, <4>1, <4>3, <4>4, <4>5
    <3>2. CASE Stays(f, all, from, k)
      BY <3>2 DEF Stays
    <3> QED BY <1>10, <3>1, <3>2
  <2>3. item = len + InstStart + u
    BY <1>9, <1>11
  <2> QED BY <1>1, <1>12, <1>14, <1>28, <2>1, <2>2, <2>3, StaysInv
<1>29. ASSUME a.len # 0
       PROVE  IInv'
  <2>15. Len(all[k + 1]) # 0
    BY <1>15
  <2>16. Walk(Len(all[k + 1]), set)
    BY <1>2, <1>14, <1>15, <1>29
  <2>17. Walked(all, kept, from, 0, k, 0, c)
    BY <1>10, <1>29 DEF Stays
  <2> HIDE DEF all, kept, n, from, a, set, size, u, len, c
  <2>18. /\ Walked(all, kept, from, 0, k + 1, 0, c)' /\ Len(filter_buf') = Len(filter_buf)
         /\ removed' \in Nat /\ item' = from + Len(Upto(all, k + 1))
    <3>1. Len(all) = Len(kept) /\ k + 1 <= Len(all)
      BY <1>6, <1>13
    <3>2. kept[k + 1] = IF set THEN <<>> ELSE all[k + 1]
      BY <1>15
    <3> DEFINE to == 0
    <3>4. to \in Nat /\ Walked(all, kept, from, to, k, 0, c)
      BY <2>17
    <3>5. k \in Nat /\ msg \in Seq(Octet)
      BY <1>4, <1>13
    <3> HIDE DEF to
    <3>6. /\ Walked(all, kept, from, to, k + 1, 0, c)' /\ Len(filter_buf') = Len(filter_buf)
          /\ removed' \in Nat /\ item' = from + Len(Upto(all, k + 1))
      <4>1. RoundReady(all, kept, from, to, k, set, c)
        BY <1>6, <1>8, <1>17, <2>15, <2>16, <3>1, <3>2, <3>4, <3>5 DEF RoundReady
      <4> QED BY <4>1, Round
    <3> QED BY <3>6 DEF to
  <2> DEFINE w == Len(Upto(all, k + 1))
             v == Len(Upto(kept, k + 1))
  <2>19. w \in Nat /\ w <= size
    <3>1. k + 1 \in 0 .. Len(all)
      BY <1>6, <1>13
    <3>2. w <= Len(FlattenSeq(all))
      BY <1>6, <3>1, UptoGrows
    <3>3. w \in Nat
      BY <1>6, <3>1, UptoType
    <3> QED BY <1>7, <3>2, <3>3 DEF size
  <2>20. v \in Nat
    <3>1. k + 1 \in 0 .. Len(kept)
      BY <1>6, <1>13
    <3> QED BY <1>6, <3>1, UptoType
  <2>21. item' = from + w /\ new_item' = 0 + v + 0 /\ removed' + v = w
    BY <2>18 DEF Walked
  <2>22. /\ pc' = pc /\ flow_mod' = flow_mod /\ msg' = msg /\ new_len' = new_len
         /\ header_length' = header_length /\ match_length' = match_length
         /\ inst_length' = inst_length
    BY <1>2 DEF fields
  <2> HIDE DEF w, v
  <2>23. item' \in Nat /\ item' <= new_len' + inst_length'
    <3>1. from = len + 8
      BY DEF from
    <3> QED BY <1>4, <1>5, <1>8, <2>19, <2>21, <2>22, <3>1
  <2>24. new_item' \in Nat /\ new_item' + 4 <= FilterSize
    <3>1. new_item' = v
      BY <2>20, <2>21
    <3>2. v <= w
      <4>1. removed' + v = w /\ removed' \in Nat
        BY <2>18, <2>21
      <4>2. \A a1, b1, c1 \in Nat : a1 + b1 = c1 => b1 <= c1
        OBVIOUS
      <4> QED BY <2>19, <2>20, <4>1, <4>2, ZenonT(20)
    <3>3. 8 + size + 10 <= FilterSize /\ FilterSize \in Nat
      BY <1>3, <1>5, FlowModsAssumption
    <3> QED BY <1>5, <2>19, <2>20, <3>1, <3>2, <3>3
  <2>25. TypeOK'
    <3>1. pc' # "match"
      BY <1>2, <2>22
    <3> QED BY <1>2, <2>18, <2>22, <2>23, <2>24, <3>1 DEF TypeOK
  <2>26. Rewritten(f, AllActions(f, 1))'
    BY <1>3, <2>22 DEF Rewritten
  <2>27. InActions(f)'
    <3>1. Walked(all, kept, len + InstStart, 0, k + 1, 0, c)'
      BY <1>9, <2>18 DEF from
    <3>2. inst_length' + 10 <= FilterSize
      BY <1>3, <2>22
    <3> QED BY <1>3, <1>13, <2>26, <3>1, <3>2
            DEF InActions, all, kept, n, len, c
  <2> QED BY <1>1, <1>2, <2>22, <2>25, <2>27 DEF IInv
<1> QED BY <1>28, <1>29

(* Behind the actions' walk they have been read, all of them. *)
LEMMA ActionsRead ==
  ASSUME NEW f \in FlowMods, flow_mod = f, IInv, pc = "actions",
         item >= new_len + inst_length
  PROVE  /\ removed + Len(ActionBytes(f, 1, KeptActions(f, 1)))
              = Len(ActionBytes(f, 1, AllActions(f, 1)))
         /\ filter_buf \in Seq(Octet)
         /\ Filled(filter_buf, Len(FirstInst(f)) + 10, 0,
                   ActionBytes(f, 1, KeptActions(f, 1)))
<1> DEFINE all  == Actions(f, 1, AllActions(f, 1))
           kept == Actions(f, 1, KeptActions(f, 1))
           n    == Len(f.insts[1].actions)
           len  == Len(NewMatch(f))
           size == Len(ActionBytes(f, 1, AllActions(f, 1)))
           c    == Len(FirstInst(f)) + 10
<1>1. InActions(f)
  BY DEF IInv
<1>2. f.insts # <<>> /\ f.insts[1].apply /\ Rewritten(f, AllActions(f, 1))
  BY <1>1 DEF InActions
<1>3. new_len = len /\ inst_length = Len(FirstInst(f))
  BY <1>2 DEF Rewritten, FirstInst
<1>4. len \in Nat /\ size \in Nat /\ inst_length = 8 + size
  BY <1>2, <1>3, ActionLengths, MatchLengths
<1>5. /\ n \in Nat /\ all \in Seq(Seq(Octet)) /\ Len(all) = n
      /\ kept \in Seq(Seq(Octet)) /\ Len(kept) = n
  BY <1>2, ActionLists
<1>6. /\ FlattenSeq(all) = ActionBytes(f, 1, AllActions(f, 1))
      /\ FlattenSeq(kept) = ActionBytes(f, 1, KeptActions(f, 1))
  BY DEF ActionBytes
<1>7. InstStart = 8
  BY LayoutAssumption
<1>8. PICK k \in 0 .. n : \/ Walked(all, kept, len + 8, 0, k, 0, c)
                           \/ Stays(f, all, len + 8, k)
  <2>1. \E k \in 0 .. n : \/ Walked(all, kept, len + InstStart, 0, k, 0, c)
                          \/ Stays(f, all, len + InstStart, k)
    BY <1>1 DEF InActions
  <2> QED BY <1>7, <2>1
<1>9. k = n
  <2> SUFFICES ASSUME k < n PROVE FALSE
    BY <1>5
  <2> DEFINE u == Len(Upto(all, k))
             s == Len(all[k + 1])
  <2>1. k \in Nat /\ k + 1 <= Len(all) /\ k + 1 \in 1 .. n
    BY <1>5
  <2>2. u \in Nat
    BY <1>5, UptoType
  <2>3. u + s <= Len(FlattenSeq(all))
    <3> HIDE DEF all, kept, n, size
    <3> QED BY <1>5, <2>1, FlattenAt
  <2>4. s \in Nat /\ s > 0
    <3>1. s = f.insts[1].actions[k + 1].size
      BY <1>2, <2>1, ActionLists
    <3>2. f.insts[1].actions[k + 1].size \in Nat /\ f.insts[1].actions[k + 1].size > 0
      BY <1>2, <2>1, InstsLength, ActionFacts
    <3> QED BY <3>1, <3>2
  <2>9. item = len + 8 + u + 0 \/ item = len + 8 + u
    BY <1>8 DEF Walked, Stays
  <2>5. item = len + 8 + u
    <3> HIDE DEF len, u
    <3> QED BY <1>4, <2>2, <2>9
  <2>6. u + s <= size
    BY <1>6, <2>3
  <2> HIDE DEF u, s, size, len
  <2>8. item >= len + (8 + size)
    BY <1>3, <1>4
  <2> QED BY <1>4, <2>2, <2>4, <2>5, <2>6, <2>8
<1>10. /\ Upto(all, n) = ActionBytes(f, 1, AllActions(f, 1))
       /\ Upto(kept, n) = ActionBytes(f, 1, KeptActions(f, 1))
  BY <1>5, <1>6, UptoEnds
<1>11. Walked(all, kept, len + 8, 0, n, 0, c)
  BY <1>5, <1>8, <1>9 DEF Stays
<1> HIDE DEF all, kept, n, len, c
<1> QED BY <1>10, <1>11 DEF Walked, c

LEMMA ZerosBehind ==
  ASSUME NEW x \in Seq(Octet)
  PROVE  /\ Len(x \o Zeros(4)) = Len(x) + 4
         /\ (x \o Zeros(4))[Len(x) + 1] = Zero
         /\ \A i \in 1 .. Len(x) : (x \o Zeros(4))[i] = x[i]
<1> DEFINE z == Zeros(4)
<1>1. z \in Seq(Octet)
  <2>1. Zero \in Octet /\ 4 \in Nat
    BY OctetFacts
  <2> QED BY <2>1, ZerosProperties
<1>2. Len(z) = 4 /\ z[1] = Zero
  BY DEF Zeros
<1> HIDE DEF z
<1>3. Len(x \o z) = Len(x) + Len(z)
  BY <1>1, JoinAt
<1>4. \A i \in 1 .. Len(x) : (x \o z)[i] = x[i]
  BY <1>1, JoinAt
<1>5. \A i \in 1 .. Len(z) : (x \o z)[Len(x) + i] = z[i]
  BY <1>1, JoinAt
<1> DEFINE y == x \o z
<1>6. y[Len(x) + 1] = Zero
  <2>1. \A i \in 1 .. Len(z) : y[Len(x) + i] = z[i]
    BY <1>5
  <2> HIDE DEF y
  <2>2. 1 \in 1 .. Len(z)
    BY <1>2
  <2> QED BY <1>2, <2>1, <2>2
<1> QED BY <1>2, <1>3, <1>4, <1>6 DEF z

(* The first instruction with its kept actions, and zeros behind them.     *)
LEMMA ListWritten ==
  ASSUME NEW f \in FlowMods, f.insts # <<>>, NEW mem \in Seq(Octet),
         NEW len \in Nat, Holds(mem, len, FirstInst(f)),
         NEW buf \in Seq(Octet),
         Filled(buf, Len(FirstInst(f)) + 10, 0, ActionBytes(f, 1, KeptActions(f, 1))),
         Len(ActionBytes(f, 1, KeptActions(f, 1)))
           < Len(ActionBytes(f, 1, AllActions(f, 1)))
  PROVE  LET q == Len(ActionBytes(f, 1, KeptActions(f, 1)))
             m == Copied(mem, len + 8, Slice(buf, 0, q + 4)) IN
         /\ m \in Seq(Octet)
         /\ Holds(m, len, FirstKept(f))
         /\ \A at \in Nat : \A part \in Seq(Octet) :
              Holds(mem, at, part) /\ at + Len(part) <= len => Holds(m, at, part)
         /\ len + Len(FirstKept(f)) + 1 <= Len(m)
         /\ m[len + Len(FirstKept(f)) + 1] \in InFront
<1> DEFINE x == ActionBytes(f, 1, KeptActions(f, 1))
           y == ActionBytes(f, 1, AllActions(f, 1))
           h == Bytes(<<"inst", 1, 0>>, InstStart)
           q == Len(x)
           p == Len(y)
           b == Slice(buf, 0, q + 4)
           m == Copied(mem, len + 8, b)
<1>1. /\ p \in Nat /\ q \in Nat /\ x \in Seq(Octet)
      /\ Len(FirstInst(f)) = 8 + p /\ Len(FirstKept(f)) = 8 + q
  BY ActionLengths DEF FirstKept
<1>2. h \in Seq(Octet) /\ Len(h) = 8
  BY InstsLength, InstType
<1>3. Holds(mem, len, h) /\ Holds(mem, len + 8, y)
  BY ActionsHeld DEF FirstInst
<1>4. Zero \in Octet /\ Zero \in InFront
  BY OctetFacts
<1>5. q < p /\ Filled(buf, 8 + p + 10, 0, x)
  BY <1>1
<1> DEFINE z == Zeros(4)
<1>6. z \in Seq(Octet) /\ Len(z) = 4 /\ z[1] = Zero
  <2>1. 4 \in Nat
    OBVIOUS
  <2>2. z \in Seq(Octet)
    BY <1>4, <2>1, ZerosProperties
  <2>3. Len(z) = 4 /\ z[1] = Zero
    BY DEF Zeros
  <2> QED BY <2>2, <2>3
<1> HIDE DEF x, y, h, q, p, z, b, m
<1>7. b = x \o z
  <2> DEFINE at == 0
             n == 4
             w == 8 + p + 10
  <2>2. at + Len(x) + n <= w
    BY <1>1, <1>5 DEF q
  <2>3. Filled(buf, w, at, x) /\ at \in Nat /\ n \in Nat
    BY <1>5
  <2> HIDE DEF at, n, w
  <2>4. Slice(buf, at, Len(x) + n) = x \o Zeros(n)
    BY <1>1, <1>4, <2>2, <2>3, FilledSlice
  <2> QED BY <2>4 DEF b, q, z, at, n
<1>8. /\ b \in Seq(Octet) /\ Len(b) = q + 4
      /\ \A i \in 1 .. q : b[i] = x[i]
      /\ b[q + 1] = Zero
  <2>1. b \in Seq(Octet)
    BY <1>1, <1>6, <1>7
  <2>2. /\ Len(x \o z) = q + 4 /\ (x \o z)[q + 1] = Zero
        /\ \A i \in 1 .. q : (x \o z)[i] = x[i]
    BY <1>1, ZerosBehind DEF q, z
  <2> QED BY <1>7, <2>1, <2>2
<1> DEFINE to == len + 8
<1>9. to \in Nat
  OBVIOUS
<1>10. m = Copied(mem, to, b)
  BY DEF m
<1>11. Len(mem) \in Nat /\ to + p <= Len(mem)
  BY <1>3 DEF Holds, p
<1> HIDE DEF to
<1>12. m \in Seq(Octet) /\ Len(m) = Len(mem)
  BY <1>8, <1>9, <1>10, CopiedType
<1>13. \A i \in 1 .. Len(mem) :
         m[i] = IF i - to \in 1 .. Len(b) THEN b[i - to] ELSE mem[i]
  <2>1. b \in Seq(Octet)
    BY <1>8
  <2>2. \A i \in 1 .. Len(mem) :
          Copied(mem, to, b)[i]
            = IF i - to \in 1 .. Len(b) THEN b[i - to] ELSE mem[i]
    BY <1>9, <2>1, CopiedAt, Zenon
  <2> QED BY <1>10, <2>2
<1>14. \A i \in 1 .. q + 1 : to + i \in 1 .. Len(mem) /\ m[to + i] = b[i]
  <2> SUFFICES ASSUME NEW i \in 1 .. q + 1
               PROVE  to + i \in 1 .. Len(mem) /\ m[to + i] = b[i]
    OBVIOUS
  <2>1. to + i \in 1 .. Len(mem)
    BY <1>1, <1>5, <1>9, <1>11
  <2>2. i \in 1 .. Len(b)
    <3>1. Len(b) = q + 4 /\ q \in Nat
      BY <1>1, <1>8
    <3> QED BY <3>1
  <2>3. (to + i) - to = i
    BY <1>9
  <2> QED BY <1>13, <2>1, <2>2, <2>3
<1>15. Holds(m, to, x)
  <2>1. to + q <= Len(m)
    <3>1. \A a, c, d, e \in Nat : c < d /\ a + d <= e => a + c <= e
      OBVIOUS
    <3>2. to + q <= Len(mem)
      BY <1>1, <1>5, <1>9, <1>11, <3>1, ZenonT(20)
    <3> QED BY <1>12, <3>2
  <2>2. \A i \in 1 .. q : m[to + i] = x[i]
    <3> SUFFICES ASSUME NEW i \in 1 .. q PROVE m[to + i] = x[i]
      OBVIOUS
    <3>1. i \in 1 .. q + 1
      BY <1>1
    <3> QED BY <1>8, <1>14, <3>1
  <2> QED BY <2>1, <2>2 DEF Holds, q
<1>16. ASSUME NEW at \in Nat, NEW part \in Seq(Octet), Holds(mem, at, part),
              at + Len(part) <= to
       PROVE  Holds(m, at, part)
  BY <1>8, <1>9, <1>10, <1>16, HoldsBeside
<1>17. Holds(m, len, h)
  <2>1. len + Len(h) <= to
    BY <1>2 DEF to
  <2> QED BY <1>2, <1>3, <1>16, <2>1
<1>18. Holds(m, len, FirstKept(f))
  <2>1. Holds(m, len + 8, x)
    BY <1>15 DEF to
  <2> QED BY <1>12, <1>17, <2>1, ActionsHeld DEF FirstKept, x, h
<1>19. \A at \in Nat : \A part \in Seq(Octet) :
         Holds(mem, at, part) /\ at + Len(part) <= len => Holds(m, at, part)
  <2> SUFFICES ASSUME NEW at \in Nat, NEW part \in Seq(Octet), Holds(mem, at, part),
                      at + Len(part) <= len
               PROVE  Holds(m, at, part)
    OBVIOUS
  <2>1. at + Len(part) <= to
    <3>1. Len(part) \in Nat
      OBVIOUS
    <3> QED BY <3>1 DEF to
  <2> QED BY <1>16, <2>1
<1> DEFINE j == len + Len(FirstKept(f)) + 1
<1>20. j = to + (q + 1) /\ q + 1 \in 1 .. q + 1
  BY <1>1 DEF to
<1> HIDE DEF j
<1>21. j <= Len(m) /\ m[j] \in InFront
  BY <1>4, <1>8, <1>11, <1>12, <1>14, <1>20
<1> QED BY <1>12, <1>18, <1>19, <1>21 DEF m, b, q, x, j

LEMMA ActionsDoneInv ==
  ASSUME IInv, ActionsDone
  PROVE  IInv'
<1>1. PICK f \in FlowMods : flow_mod = f
  BY DEF IInv, TypeOK
<1> DEFINE len == Len(NewMatch(f))
           x == ActionBytes(f, 1, KeptActions(f, 1))
           p == Len(ActionBytes(f, 1, AllActions(f, 1)))
           q == Len(x)
           n == Len(FlattenSeq(AllInsts(f)))
           K == KeptActions(f, 1)
<1>2. /\ pc = "actions" /\ item >= new_len + inst_length /\ InActions(f) /\ TypeOK
  BY <1>1 DEF ActionsDone, IInv
<1>3. f.insts # <<>> /\ f.insts[1].apply /\ Rewritten(f, AllActions(f, 1))
  BY <1>2 DEF InActions
<1>4. /\ removed + q = p /\ filter_buf \in Seq(Octet)
      /\ Filled(filter_buf, Len(FirstInst(f)) + 10, 0, x)
  BY <1>1, <1>2, ActionsRead
<1>5. /\ p \in Nat /\ q \in Nat /\ q <= p
      /\ Len(FirstInst(f)) = 8 + p /\ Len(FirstKept(f)) = 8 + q
      /\ q = p => FirstKept(f) = FirstInst(f)
  BY <1>3, ActionLengths DEF FirstKept
<1>6. removed \in Nat /\ header_length \in Nat /\ match_length \in Nat
      /\ inst_length \in Nat /\ new_len \in Nat
  BY <1>2 DEF TypeOK
<1>7. Gone(f, AllActions(f, 1)) = 0
  <2>1. 8 + p \in Nat /\ (8 + p) - (8 + p) = 0
    BY <1>5
  <2>2. Gone(f, AllActions(f, 1)) = Len(FirstInst(f)) - Len(FirstInst(f))
    BY <1>3 DEF Gone, FirstInst
  <2> QED BY <1>5, <2>1, <2>2
<1>8. /\ new_len = len
      /\ match_length = MatchStart + Len(ItemBytes(f, OtherItems(f)))
      /\ header_length = Fixed + len + LostPad(f) + n
      /\ inst_length = 8 + p
      /\ msg \in Seq(Octet)
      /\ Holds(msg, 0, NewMatch(f))
      /\ Holds(msg, len, FirstInst(f))
      /\ len = Len(OldMatch(f)) => Holds(msg, len, FlattenSeq(AllInsts(f)))
      /\ Len(f.insts) >= 2 /\ len # Len(OldMatch(f)) =>
           /\ len + Len(FirstInst(f)) + 1 <= Len(msg)
           /\ msg[len + Len(FirstInst(f)) + 1] \in InFront
  <2>1. header_length + 0 = Fixed + len + LostPad(f) + n
    BY <1>3, <1>7 DEF Rewritten
  <2>2. header_length = Fixed + len + LostPad(f) + n
    BY <1>6, <2>1
  <2> QED BY <1>3, <1>5, <1>7, <2>2 DEF Rewritten, FirstInst
<1>9. len \in Nat /\ n \in Nat /\ Fixed \in Nat /\ 8 + p <= n
      /\ NewMatch(f) \in Seq(Octet)
  BY <1>3, <1>5, MatchLengths, InstsLength, LayoutAssumption
<1>10. LostPad(f) \in Nat
  <2>1. /\ Len(ItemBytes(f, AllItems(f))) \in Nat
        /\ Pad(4 + Len(ItemBytes(f, AllItems(f)))) \in 0 .. 7
    BY MatchLengths
  <2> QED BY <2>1, LayoutAssumption DEF LostPad
<1>11. /\ inst_length' = inst_length - removed
       /\ header_length' = header_length - removed
       /\ msg' = IF removed > 0
                 THEN Copied(msg, new_len + InstStart,
                             Slice(filter_buf, 0, inst_length' - 4))
                 ELSE msg
       /\ pc' = "done" /\ flow_mod' = flow_mod /\ match_length' = match_length
       /\ filter_buf' = filter_buf /\ new_len' = new_len /\ item' = item
       /\ new_item' = new_item /\ removed' = removed
  BY DEF ActionsDone, walk
<1> HIDE DEF len, x, p, q, n
<1>12. inst_length' = 8 + q
  BY <1>4, <1>5, <1>6, <1>8, <1>11
<1>13. Gone(f, K) = removed
  <2>1. Gone(f, K) = (8 + p) - (8 + q)
    BY <1>3, <1>5 DEF Gone, FirstKept
  <2> QED BY <1>4, <1>5, <1>6, <2>1
<1>14. header_length' \in Nat
  <2> DEFINE l == LostPad(f)
  <2>1. l \in Nat /\ header_length = Fixed + len + l + n /\ removed <= n
    BY <1>4, <1>5, <1>6, <1>8, <1>9, <1>10
  <2> HIDE DEF l
  <2> QED BY <1>6, <1>9, <1>11, <2>1
<1>15. header_length' + Gone(f, K) = Fixed + len + LostPad(f) + n
  BY <1>6, <1>8, <1>11, <1>13
<1>16. /\ msg' \in Seq(Octet) /\ Holds(msg', 0, NewMatch(f))
       /\ Holds(msg', len, FirstKept(f))
       /\ len = Len(OldMatch(f)) /\ Gone(f, K) = 0
            => Holds(msg', len, FlattenSeq(AllInsts(f)))
       /\ Len(f.insts) >= 2 /\ (len # Len(OldMatch(f)) \/ Gone(f, K) # 0) =>
            /\ len + Len(FirstKept(f)) + 1 <= Len(msg')
            /\ msg'[len + Len(FirstKept(f)) + 1] \in InFront
  <2>1. CASE removed = 0
    <3>1. msg' = msg
      BY <1>11, <2>1
    <3>2. FirstKept(f) = FirstInst(f)
      BY <1>4, <1>5, <2>1
    <3> QED BY <1>8, <1>13, <2>1, <3>1, <3>2
  <2>2. CASE removed # 0
    <3>1. removed > 0 /\ q < p
      BY <1>4, <1>5, <1>6, <2>2
    <3>2. inst_length' - 4 = q + 4
      BY <1>5, <1>12
    <3>3. InstStart = 8
      BY LayoutAssumption
    <3> DEFINE m == Copied(msg, len + 8, Slice(filter_buf, 0, q + 4))
    <3>4. msg' = m
      BY <1>8, <1>11, <3>1, <3>2, <3>3
    <3>6. /\ m \in Seq(Octet) /\ Holds(m, len, FirstKept(f))
          /\ \A at \in Nat : \A part \in Seq(Octet) :
               Holds(msg, at, part) /\ at + Len(part) <= len => Holds(m, at, part)
          /\ len + Len(FirstKept(f)) + 1 <= Len(m)
          /\ m[len + Len(FirstKept(f)) + 1] \in InFront
      BY <1>3, <1>4, <1>8, <1>9, <3>1, ListWritten DEF p, q, x
    <3> HIDE DEF m
    <3>7. 0 \in Nat /\ 0 + Len(NewMatch(f)) <= len
      BY <1>9 DEF len
    <3>8. Holds(m, 0, NewMatch(f))
      BY <1>8, <1>9, <3>6, <3>7
    <3> QED BY <1>13, <2>2, <3>4, <3>6, <3>8
  <2> QED BY <2>1, <2>2
<1>17. Rewritten(f, K)'
  BY <1>3, <1>5, <1>8, <1>11, <1>12, <1>15, <1>16 DEF Rewritten, FirstKept, len, n
<1>18. TypeOK'
  <2>1. inst_length' \in Nat /\ pc' \in {"match", "actions", "done", "overrun"}
        /\ pc' # "match" /\ pc' # "actions"
    BY <1>5, <1>11, <1>12
  <2> QED BY <1>2, <1>11, <1>14, <2>1 DEF TypeOK
<1> QED BY <1>1, <1>11, <1>17, <1>18 DEF IInv

-----------------------------------------------------------------------------
(* What the switch is sent.                                                *)

FirstUntagged(f) == InstBytes(f, 1, UntaggedActions(f, 1))
NoTags(f, j) == UntaggedActions(f, j) = AllActions(f, j)

LEMMA PaddingCondition ==
  ASSUME NEW f \in FlowMods
  PROVE  PaddingFits(f) <=> LostPad(f) = 0
<1>1. /\ Expected(f).match = MatchStart + Len(ItemBytes(f, OtherItems(f)))
      /\ Received(f).match = MatchStart + Len(ItemBytes(f, AllItems(f)))
  BY ExpectedIs, ReceivedIs
<1> QED BY <1>1 DEF PaddingFits, LostPad

LEMMA TagsCondition ==
  ASSUME NEW f \in FlowMods
  PROVE  /\ OnlyTagsAreSet(f) <=>
              (f.insts # <<>> => KeptActions(f, 1) = UntaggedActions(f, 1))
         /\ f.insts # <<>> => KeptActions(f, 1) \subseteq UntaggedActions(f, 1)
<1>1. CASE f.insts = <<>>
  BY <1>1 DEF OnlyTagsAreSet
<1>2. CASE f.insts # <<>>
  <2>1. 1 \in 1 .. Len(f.insts) /\ f.insts[1].apply \in BOOLEAN
    BY <1>2, InstsLength, FlowModFacts
  <2>2. \A i \in AllActions(f, 1) :
          /\ f.insts[1].actions[i].set \in BOOLEAN
          /\ f.insts[1].actions[i].uep \in BOOLEAN
          /\ f.insts[1].actions[i].uep => f.insts[1].actions[i].set
    BY <2>1, ActionFacts DEF AllActions
  <2>3. KeptActions(f, 1) \subseteq UntaggedActions(f, 1)
    BY <2>2 DEF KeptActions, UntaggedActions
  <2>4. OnlyTagsAreSet(f) <=>
          (f.insts[1].apply => \A i \in AllActions(f, 1) :
             f.insts[1].actions[i].set => f.insts[1].actions[i].uep)
    BY <1>2 DEF OnlyTagsAreSet, AllActions
  <2>5. ASSUME OnlyTagsAreSet(f) PROVE UntaggedActions(f, 1) \subseteq KeptActions(f, 1)
    BY <2>4, <2>5 DEF KeptActions, UntaggedActions
  <2>6. ASSUME KeptActions(f, 1) = UntaggedActions(f, 1) PROVE OnlyTagsAreSet(f)
    <3> SUFFICES ASSUME f.insts[1].apply, NEW i \in AllActions(f, 1),
                        f.insts[1].actions[i].set, ~f.insts[1].actions[i].uep
                 PROVE  FALSE
      BY <2>4
    <3>1. i \in UntaggedActions(f, 1)
      BY DEF UntaggedActions
    <3>2. i \notin KeptActions(f, 1)
      BY DEF KeptActions
    <3> QED BY <2>6, <3>1, <3>2
  <2> QED BY <1>2, <2>3, <2>5, <2>6
<1> QED BY <1>1, <1>2

LEMMA InstructionsCondition ==
  ASSUME NEW f \in FlowMods
  PROVE  InstructionsFit(f) <=>
           \/ Len(f.insts) <= 1
           \/ /\ Len(NewMatch(f)) = Len(OldMatch(f))
              /\ \A j \in 1 .. Len(f.insts) : NoTags(f, j)
<1>1. /\ Expected(f).match = MatchStart + Len(ItemBytes(f, OtherItems(f)))
      /\ Received(f).match = MatchStart + Len(ItemBytes(f, AllItems(f)))
  BY ExpectedIs, ReceivedIs
<1>2. /\ Padded(Expected(f).match) = Len(NewMatch(f))
      /\ Padded(Received(f).match) = Len(OldMatch(f))
  BY <1>1, MatchType DEF NewMatch, OldMatch
<1>3. ASSUME NEW j \in 1 .. Len(f.insts)
      PROVE  NoTags(f, j) <=>
               (f.insts[j].apply =>
                  \A i \in 1 .. Len(f.insts[j].actions) : ~f.insts[j].actions[i].uep)
  BY DEF NoTags, UntaggedActions, AllActions
<1> QED BY <1>2, <1>3 DEF InstructionsFit

(* One instruction, with its actions and without its tags. *)
LEMMA InstShrinks ==
  ASSUME NEW f \in FlowMods, NEW j \in 1 .. Len(f.insts)
  PROVE  LET all == InstBytes(f, j, AllActions(f, j))
             untagged == InstBytes(f, j, UntaggedActions(f, j)) IN
         /\ Len(untagged) <= Len(all)
         /\ ~NoTags(f, j) => Len(untagged) < Len(all)
         /\ NoTags(f, j) => untagged = all
<1> DEFINE all == Len(ActionBytes(f, j, AllActions(f, j)))
           untagged == Len(ActionBytes(f, j, UntaggedActions(f, j)))
<1>1. all \in Nat /\ untagged \in Nat
  BY ActionBytesType
<1>2. /\ Len(InstBytes(f, j, AllActions(f, j))) = 8 + all
      /\ Len(InstBytes(f, j, UntaggedActions(f, j))) = 8 + untagged
  BY InstType
<1>3. untagged <= all /\ (~NoTags(f, j) => untagged < all)
  <2>1. Named(InFront, ActionNames(f, j), ActionSizes(f, j))
    BY ActionsNamed
  <2>2. \A i \in 1 .. Len(ActionSizes(f, j)) : ActionSizes(f, j)[i] > 0
    <3> SUFFICES ASSUME NEW i \in 1 .. Len(ActionSizes(f, j))
                 PROVE  ActionSizes(f, j)[i] > 0
      OBVIOUS
    <3>1. i \in 1 .. Len(f.insts[j].actions)
      BY ActionsNamed
    <3>2. ActionSizes(f, j)[i] = f.insts[j].actions[i].size
      BY <3>1, ActionsNamed
    <3>3. f.insts[j].actions[i].size > 0
      BY <3>1, ActionFacts
    <3> QED BY <3>2, <3>3
  <2>3. UntaggedActions(f, j) \subseteq AllActions(f, j)
    BY DEF UntaggedActions
  <2>4. AllActions(f, j) \subseteq 1 .. Len(ActionSizes(f, j))
    BY ActionsNamed DEF AllActions
  <2> QED BY <2>1, <2>2, <2>3, <2>4, FewerElements DEF ActionBytes, Actions, NoTags
<1>4. NoTags(f, j) =>
        InstBytes(f, j, UntaggedActions(f, j)) = InstBytes(f, j, AllActions(f, j))
  BY DEF NoTags
<1> HIDE DEF all, untagged
<1> QED BY <1>1, <1>2, <1>3, <1>4

(* What the actions that are kept say of those that should be. *)
LEMMA KeptIsUntagged ==
  ASSUME NEW f \in FlowMods, f.insts # <<>>
  PROVE  Len(FirstKept(f)) = Len(FirstUntagged(f)) <=>
           KeptActions(f, 1) = UntaggedActions(f, 1)
<1> DEFINE kept == Len(ActionBytes(f, 1, KeptActions(f, 1)))
           untagged == Len(ActionBytes(f, 1, UntaggedActions(f, 1)))
<1>1. 1 \in 1 .. Len(f.insts)
  BY InstsLength
<1>2. kept \in Nat /\ untagged \in Nat
  BY <1>1, ActionBytesType
<1>3. Len(FirstKept(f)) = 8 + kept /\ Len(FirstUntagged(f)) = 8 + untagged
  BY <1>1, InstType DEF FirstKept, FirstUntagged
<1>4. KeptActions(f, 1) # UntaggedActions(f, 1) => kept < untagged
  <2>1. Named(InFront, ActionNames(f, 1), ActionSizes(f, 1))
    BY <1>1, ActionsNamed
  <2>2. \A i \in 1 .. Len(ActionSizes(f, 1)) : ActionSizes(f, 1)[i] > 0
    <3> SUFFICES ASSUME NEW i \in 1 .. Len(ActionSizes(f, 1))
                 PROVE  ActionSizes(f, 1)[i] > 0
      OBVIOUS
    <3>1. i \in 1 .. Len(f.insts[1].actions)
      BY <1>1, ActionsNamed
    <3>2. ActionSizes(f, 1)[i] = f.insts[1].actions[i].size
      BY <1>1, <3>1, ActionsNamed
    <3>3. f.insts[1].actions[i].size > 0
      BY <1>1, <3>1, ActionFacts
    <3> QED BY <3>2, <3>3
  <2>3. KeptActions(f, 1) \subseteq UntaggedActions(f, 1)
    BY TagsCondition
  <2>4. UntaggedActions(f, 1) \subseteq 1 .. Len(ActionSizes(f, 1))
    BY <1>1, ActionsNamed DEF AllActions, UntaggedActions
  <2> QED BY <2>1, <2>2, <2>3, <2>4, FewerElements DEF ActionBytes, Actions
<1>5. KeptActions(f, 1) = UntaggedActions(f, 1) => kept = untagged
  OBVIOUS
<1> HIDE DEF kept, untagged
<1> QED BY <1>2, <1>3, <1>4, <1>5

(* The instructions without their tags are shorter than with them, by at   *)
(* least what the first one loses; by no more if no other has tags.        *)
LEMMA InstsShrink ==
  ASSUME NEW f \in FlowMods, f.insts # <<>>
  PROVE  LET all == Len(FlattenSeq(AllInsts(f)))
             untagged == Len(FlattenSeq(UntaggedInsts(f))) IN
         /\ untagged \in Nat
         /\ untagged + Len(FirstInst(f)) <= all + Len(FirstUntagged(f))
         /\ untagged + Len(FirstInst(f)) = all + Len(FirstUntagged(f)) =>
              \A j \in 2 .. Len(f.insts) : NoTags(f, j)
<1> DEFINE s == AllInsts(f)
           t == UntaggedInsts(f)
           n == Len(f.insts)
           m == [j \in 1 .. n |-> IF j = 1 THEN t[1] ELSE s[j]]
<1>1. n \in Nat /\ 1 \in 1 .. n
  BY FlowModFacts, InstsLength
<1>2. /\ s \in Seq(Seq(Octet)) /\ t \in Seq(Seq(Octet))
      /\ Len(s) = n /\ Len(t) = n
      /\ s[1] = FirstInst(f) /\ t[1] = FirstUntagged(f)
  BY <1>1, InstsType DEF FirstInst, FirstUntagged
<1>3. \A j \in 1 .. n : /\ Len(t[j]) <= Len(s[j])
                        /\ ~NoTags(f, j) => Len(t[j]) < Len(s[j])
  BY InstsType, InstShrinks
<1>4. \A j \in 1 .. n : t[j] \in Seq(Octet) /\ s[j] \in Seq(Octet)
  BY <1>2
<1> HIDE DEF s, t, n
<1>5. m \in Seq(Seq(Octet)) /\ Len(m) = n
  BY <1>1, <1>4
<1>6. m[1] = t[1] /\ \A j \in 2 .. n : m[j] = s[j]
  BY <1>1
<1> HIDE DEF m
<1>7. \A j \in 1 .. n : Len(t[j]) <= Len(m[j])
  <2> SUFFICES ASSUME NEW j \in 1 .. n PROVE Len(t[j]) <= Len(m[j])
    OBVIOUS
  <2>1. CASE j = 1
    <3>1. Len(t[1]) \in Nat
      BY <1>1, <1>4
    <3> QED BY <1>6, <2>1, <3>1
  <2>2. CASE j # 1
    <3>1. j \in 2 .. n
      BY <1>1, <2>2
    <3> QED BY <1>3, <1>6, <3>1
  <2> QED BY <2>1, <2>2
<1> DEFINE x == Len(FlattenSeq(s))
           y == Len(FlattenSeq(t))
           z == Len(FlattenSeq(m))
<1>8. x \in Nat /\ y \in Nat /\ z \in Nat
  <2>1. FlattenSeq(s) \in Seq(Octet)
    BY <1>2, FlattenType
  <2>2. FlattenSeq(t) \in Seq(Octet)
    BY <1>2, FlattenType
  <2>3. FlattenSeq(m) \in Seq(Octet)
    BY <1>5, FlattenType
  <2> QED BY <2>1, <2>2, <2>3
<1>9. z + Len(s[1]) = x + Len(m[1])
  <2>1. Len(m) = Len(s) /\ Len(m) # 0
    BY <1>1, <1>2, <1>5
  <2>2. \A j \in 2 .. Len(m) : m[j] = s[j]
    BY <1>5, <1>6
  <2> QED BY <1>2, <1>5, <2>1, <2>2, FirstDiffers
<1>10. y <= z
  <2>1. Len(t) = Len(m) /\ \A j \in 1 .. Len(t) : Len(t[j]) <= Len(m[j])
    BY <1>2, <1>5, <1>7
  <2> QED BY <1>2, <1>5, <2>1, FlattenLonger
<1>11. (\E j \in 1 .. n : Len(t[j]) < Len(m[j])) => y < z
  <2>1. Len(t) = Len(m) /\ \A j \in 1 .. Len(t) : Len(t[j]) <= Len(m[j])
    BY <1>2, <1>5, <1>7
  <2>2. (\E j \in 1 .. Len(t) : Len(t[j]) < Len(m[j])) => y < z
    BY <1>2, <1>5, <2>1, FlattenLonger
  <2> QED BY <1>2, <2>2
<1>12. ASSUME NEW j \in 2 .. n, ~NoTags(f, j) PROVE y < z
  <2>1. j \in 1 .. n
    BY <1>1
  <2>2. Len(t[j]) < Len(m[j])
    BY <1>3, <1>6, <1>12, <2>1
  <2> QED BY <1>11, <2>1, <2>2
<1>13. z + Len(FirstInst(f)) = x + Len(FirstUntagged(f))
  BY <1>2, <1>6, <1>9
<1>14. Len(FirstInst(f)) \in Nat /\ Len(FirstUntagged(f)) \in Nat
  BY <1>1, <1>2, <1>4
<1> DEFINE a == Len(FirstInst(f))
           b == Len(FirstUntagged(f))
<1> HIDE DEF x, y, z, a, b
<1>15. y + a <= x + b
  BY <1>8, <1>10, <1>13, <1>14 DEF a, b
<1>16. y + a = x + b => y = z
  BY <1>8, <1>10, <1>13, <1>14 DEF a, b
<1>17. y + a = x + b => \A j \in 2 .. n : NoTags(f, j)
  BY <1>8, <1>12, <1>16
<1> QED BY <1>8, <1>15, <1>17 DEF x, y, a, b, s, t, n

LEMMA JoinHead ==
  ASSUME NEW u \in Seq(Octet), NEW v \in Seq(Octet), Len(u) > 0
  PROVE  (u \o v)[1] = u[1] /\ Len(u \o v) = Len(u) + Len(v)
<1>1. \A i \in 1 .. Len(u) : (u \o v)[i] = u[i]
  BY JoinAt
<1>2. Len(u \o v) = Len(u) + Len(v)
  BY JoinAt
<1>3. 1 \in 1 .. Len(u)
  OBVIOUS
<1> QED BY <1>1, <1>2, <1>3

(* Where the second instruction begins, its name is. *)
LEMMA SecondBegins ==
  ASSUME NEW f \in FlowMods, Len(f.insts) >= 2
  PROVE  LET s == FlattenSeq(UntaggedInsts(f))
             i == Len(FirstUntagged(f)) + 1 IN
         /\ s \in Seq(Octet) /\ i \in 1 .. Len(s) /\ s[i] \notin InFront
<1> DEFINE t == UntaggedInsts(f)
           s == FlattenSeq(t)
           e == Second
           x == ActionBytes(f, 2, UntaggedActions(f, 2))
           h == Bytes(e, 8)
<1>1. Len(f.insts) \in Nat /\ 1 \in 1 .. Len(f.insts) /\ 2 \in 1 .. Len(f.insts)
  BY FlowModFacts
<1>2. /\ t \in Seq(Seq(Octet)) /\ Len(t) = Len(f.insts)
      /\ t[1] = FirstUntagged(f) /\ t[2] = InstBytes(f, 2, UntaggedActions(f, 2))
  BY <1>1, InstsType DEF FirstUntagged
<1>3. x \in Seq(Octet)
  BY <1>1, ActionBytesType, OctetFacts
<1>4. t[2] = h \o x
  BY <1>2, LayoutAssumption DEF InstBytes, Second
<1>5. h \in Seq(Octet) /\ Len(h) = 8
  <2>1. h = Bytes(<<"inst", 2, 0>>, InstStart)
    BY LayoutAssumption DEF Second
  <2> HIDE DEF h
  <2> QED BY <1>1, <2>1, InstType
<1>6. h[1] = <<e, 1>>
  BY DEF Bytes
<1> HIDE DEF t, x, h, e
<1>7. (h \o x)[1] = h[1] /\ Len(h \o x) = 8 + Len(x)
  <2>1. Len(h) > 0
    BY <1>5
  <2> QED BY <1>3, <1>5, <2>1, JoinHead
<1>8. t[2][1] = <<e, 1>> /\ Len(t[2]) >= 8 /\ Len(t[2]) \in Nat
  <2>1. Len(x) \in Nat
    BY <1>3
  <2> QED BY <1>4, <1>6, <1>7, <2>1
<1>9. s \in Seq(Octet) /\ Len(s) \in Nat
  <2>1. s \in Seq(Octet)
    BY <1>2, FlattenType
  <2> QED BY <2>1
<1>10. Holds(s, 0, FlattenSeq(t))
  BY <1>9 DEF Holds
<1>11. Upto(t, 1) = t[1]
  <2>1. Upto(t, 0) = <<>>
    BY <1>2, UptoEnds
  <2>2. 0 \in Nat /\ 0 + 1 <= Len(t) /\ 0 + 1 = 1
    BY <1>1, <1>2
  <2>3. Upto(t, 0 + 1) = Upto(t, 0) \o t[0 + 1]
    BY <1>2, <2>2, UptoStep
  <2>4. t[1] \in Seq(Octet)
    BY <1>1, <1>2
  <2>5. <<>> \o t[1] = t[1]
    BY <2>4, ConcatEmptySeq
  <2> QED BY <2>1, <2>2, <2>3, <2>5
<1>12. Holds(s, Len(t[1]), t[2])
  <2>1. 1 \in Nat /\ 1 + 1 <= Len(t) /\ 1 + 1 = 2 /\ 0 \in Nat
    BY <1>1, <1>2
  <2> HIDE DEF s
  <2>2. Holds(s, 0 + Len(Upto(t, 1)), t[1 + 1])
    BY <1>2, <1>9, <1>10, <2>1, HoldsList
  <2>3. Len(t[1]) \in Nat
    <3>1. t[1] \in Seq(Octet)
      BY <1>1, <1>2
    <3> QED BY <3>1
  <2> QED BY <1>11, <2>1, <2>2, <2>3
<1> DEFINE n == Len(t[1])
<1>13. n \in Nat
  <2>1. t[1] \in Seq(Octet)
    BY <1>1, <1>2
  <2> QED BY <2>1
<1> HIDE DEF s, n
<1>14. n + Len(t[2]) <= Len(s) /\ s[n + 1] = t[2][1]
  <2>1. /\ Len(t[1]) + Len(t[2]) <= Len(s)
        /\ \A i \in 1 .. Len(t[2]) : s[Len(t[1]) + i] = t[2][i]
    BY <1>12 DEF Holds
  <2>2. 1 \in 1 .. Len(t[2])
    BY <1>8
  <2> QED BY <2>1, <2>2 DEF n
<1>15. n + 1 \in 1 .. Len(s) /\ s[n + 1] = <<e, 1>>
  BY <1>8, <1>9, <1>13, <1>14
<1>16. <<e, 1>> \notin InFront
  BY DEF InFront, e
<1>17. n = Len(FirstUntagged(f))
  BY <1>2 DEF n
<1> QED BY <1>9, <1>15, <1>16, <1>17 DEF s, t

(* The bytes that go out. *)
LEMMA SentIsExpected ==
  ASSUME NEW f \in FlowMods, NEW mem \in Seq(Octet), NEW n \in Nat,
         Holds(mem, 0, NewMatch(f)),
         Holds(mem, Len(NewMatch(f)), FlattenSeq(UntaggedInsts(f))),
         n = Len(NewMatch(f)) + Len(FlattenSeq(UntaggedInsts(f)))
  PROVE  Slice(mem, 0, n) = NewMatch(f) \o FlattenSeq(UntaggedInsts(f))
<1> DEFINE x == NewMatch(f)
           y == FlattenSeq(UntaggedInsts(f))
<1>1. x \in Seq(Octet) /\ y \in Seq(Octet) /\ Zero \in Octet
  BY MatchLengths, InstsType, FlattenType, OctetFacts
<1>2. Holds(mem, 0, x) /\ Holds(mem, Len(x), y) /\ n = Len(x) + Len(y)
  OBVIOUS
<1> HIDE DEF x, y
<1> DEFINE z == x \o y
<1>3. z \in Seq(Octet) /\ Len(z) = n
  <2>1. Len(x \o y) = Len(x) + Len(y)
    BY <1>1, JoinAt
  <2> QED BY <1>1, <1>2, <2>1
<1>4. Holds(mem, 0, x \o y)
  <2>1. 0 \in Nat /\ 0 + Len(x) = Len(x)
    BY <1>1
  <2>2. Holds(mem, 0 + Len(x), y)
    BY <1>2, <2>1
  <2> QED BY <1>1, <1>2, <2>1, <2>2, HoldsParts
<1> HIDE DEF z
<1>5. Slice(mem, 0, Len(z)) = z
  <2>1. Holds(mem, 0, z) /\ 0 \in Nat
    BY <1>4 DEF z
  <2> QED BY <1>1, <1>3, <2>1, HoldsSlice
<1> QED BY <1>3, <1>5 DEF z, x, y

(* Without tags, or with one instruction alone, what is held is right.     *)
LEMMA UntaggedHeld ==
  ASSUME NEW f \in FlowMods, NEW mem, NEW len,
         f.insts # <<>> => Holds(mem, len, FirstUntagged(f)),
         Len(f.insts) <= 1, len + 0 <= Len(mem)
  PROVE  Holds(mem, len, FlattenSeq(UntaggedInsts(f)))
<1> DEFINE t == UntaggedInsts(f)
<1>1. t \in Seq(Seq(Octet)) /\ Len(t) = Len(f.insts) /\ Len(f.insts) \in Nat
  BY InstsType, FlowModFacts
<1>2. Upto(t, 0) = <<>> /\ Upto(t, Len(t)) = FlattenSeq(t)
  BY <1>1, UptoEnds
<1>3. CASE Len(f.insts) = 0
  <2>1. FlattenSeq(t) = <<>>
    BY <1>1, <1>2, <1>3
  <2>2. Len(<<>>) = 0
    OBVIOUS
  <2> QED BY <2>1, <2>2 DEF Holds
<1>4. CASE Len(f.insts) = 1
  <2>1. 1 \in 1 .. Len(f.insts) /\ f.insts # <<>>
    <3>1. Len(<<>>) = 0
      OBVIOUS
    <3>2. f.insts # <<>>
      BY <1>4, <3>1
    <3> QED BY <1>4, <3>2
  <2>2. t[1] = FirstUntagged(f) /\ t[1] \in Seq(Octet)
    BY <1>1, <2>1, InstsType DEF FirstUntagged
  <2>3. 0 \in Nat /\ 0 + 1 <= Len(t) /\ 0 + 1 = 1
    BY <1>1, <1>4
  <2> HIDE DEF t
  <2>4. Upto(t, 0 + 1) = Upto(t, 0) \o t[0 + 1]
    BY <1>1, <2>3, UptoStep
  <2>5. <<>> \o t[1] = t[1]
    BY <2>2, ConcatEmptySeq
  <2>6. FlattenSeq(t) = FirstUntagged(f)
    BY <1>1, <1>2, <1>4, <2>2, <2>3, <2>4, <2>5
  <2> QED BY <2>1, <2>6 DEF t
<1>5. Len(f.insts) = 0 \/ Len(f.insts) = 1
  <2> DEFINE n == Len(f.insts)
  <2>1. n \in Nat /\ n <= 1
    BY <1>1
  <2> HIDE DEF n
  <2>2. n = 0 \/ n = 1
    BY <2>1
  <2> QED BY <2>2 DEF n
<1> QED BY <1>3, <1>4, <1>5

(* One instruction is all of them. *)
LEMMA OneInst ==
  ASSUME NEW f \in FlowMods, f.insts # <<>>, Len(f.insts) <= 1
  PROVE  /\ Len(FlattenSeq(AllInsts(f))) = Len(FirstInst(f))
         /\ Len(FlattenSeq(UntaggedInsts(f))) = Len(FirstUntagged(f))
<1>1. Len(f.insts) = 1 /\ 1 \in 1 .. Len(f.insts)
  <2> DEFINE n == Len(f.insts)
  <2>1. n \in Nat /\ 1 \in 1 .. n /\ n <= 1
    BY FlowModFacts, InstsLength
  <2> HIDE DEF n
  <2>2. n = 1
    BY <2>1
  <2> QED BY <2>1, <2>2 DEF n
<1>2. ASSUME NEW t \in Seq(Seq(Octet)), Len(t) = 1 PROVE FlattenSeq(t) = t[1]
  <2>1. Upto(t, 0) = <<>> /\ Upto(t, Len(t)) = FlattenSeq(t)
    BY UptoEnds
  <2>2. 0 \in Nat /\ 0 + 1 <= Len(t) /\ 0 + 1 = 1
    BY <1>2
  <2>3. Upto(t, 0 + 1) = Upto(t, 0) \o t[0 + 1]
    BY <2>2, UptoStep
  <2>4. t[1] \in Seq(Octet)
    <3>1. 1 \in 1 .. Len(t)
      BY <1>2
    <3> QED BY <3>1, ElementOfSeq
  <2>5. <<>> \o t[1] = t[1]
    BY <2>4, ConcatEmptySeq
  <2> QED BY <1>2, <2>1, <2>2, <2>3, <2>5
<1>3. FlattenSeq(AllInsts(f)) = FirstInst(f)
  BY <1>1, <1>2, InstsType DEF FirstInst
<1>4. FlattenSeq(UntaggedInsts(f)) = FirstUntagged(f)
  BY <1>1, <1>2, InstsType DEF FirstUntagged
<1> QED BY <1>3, <1>4

(* If no instruction has tags they are all as they came. *)
LEMMA NoTagsAtAll ==
  ASSUME NEW f \in FlowMods, \A j \in 1 .. Len(f.insts) : NoTags(f, j)
  PROVE  UntaggedInsts(f) = AllInsts(f)
BY DEF UntaggedInsts, AllInsts, NoTags

(* The rewritten message is what the switch should get, exactly when the   *)
(* three conditions hold.                                                  *)
LEMMA RightWhenRewritten ==
  ASSUME NEW f \in FlowMods, flow_mod = f, Rewritten(f, KeptActions(f, 1)),
         header_length \in Nat
  PROVE  Sent = Expected(f) <=>
           PaddingFits(f) /\ InstructionsFit(f) /\ OnlyTagsAreSet(f)
<1> DEFINE len == Len(NewMatch(f))
           old == Len(OldMatch(f))
           pad == LostPad(f)
           a   == Len(FlattenSeq(AllInsts(f)))
           u   == Len(FlattenSeq(UntaggedInsts(f)))
           fi  == Len(FirstInst(f))
           fk  == Len(FirstKept(f))
           fu  == Len(FirstUntagged(f))
           gone == Gone(f, KeptActions(f, 1))
           body == NewMatch(f) \o FlattenSeq(UntaggedInsts(f))
           some == f.insts # <<>>
<1>1. /\ match_length = MatchStart + Len(ItemBytes(f, OtherItems(f)))
      /\ header_length + gone = Fixed + len + pad + a
      /\ inst_length = IF some THEN fk ELSE 0
      /\ msg \in Seq(Octet)
      /\ Holds(msg, 0, NewMatch(f))
      /\ some => Holds(msg, len, FirstKept(f))
      /\ len = old /\ gone = 0 => Holds(msg, len, FlattenSeq(AllInsts(f)))
      /\ Len(f.insts) >= 2 /\ (len # old \/ gone # 0) =>
           /\ len + fk + 1 <= Len(msg)
           /\ msg[len + fk + 1] \in InFront
  BY DEF Rewritten, FirstKept
<1>2. /\ len \in Nat /\ Fixed \in Nat /\ a \in Nat
      /\ NewMatch(f) \in Seq(Octet)
  BY MatchLengths, LayoutAssumption, InstsLength
<1>3. UntaggedInsts(f) \in Seq(Seq(Octet))
  BY InstsType
<1>4. FlattenSeq(UntaggedInsts(f)) \in Seq(Octet) /\ u \in Nat
  <2>1. FlattenSeq(UntaggedInsts(f)) \in Seq(Octet)
    BY <1>3, FlattenType
  <2> QED BY <2>1
<1>5. pad \in Nat
  <2>1. /\ Len(ItemBytes(f, AllItems(f))) \in Nat
        /\ Pad(4 + Len(ItemBytes(f, AllItems(f)))) \in 0 .. 7
    BY MatchLengths
  <2> QED BY <2>1, LayoutAssumption DEF LostPad
<1>6. PaddingFits(f) <=> pad = 0
  BY PaddingCondition
<1>7. OnlyTagsAreSet(f) <=> (some => fk = fu)
  BY TagsCondition, KeptIsUntagged
<1>8. InstructionsFit(f) <=>
        \/ Len(f.insts) <= 1
        \/ len = old /\ \A j \in 1 .. Len(f.insts) : NoTags(f, j)
  BY InstructionsCondition
<1>9. ~some => a = 0 /\ u = 0 /\ gone = 0
  <2> SUFFICES ASSUME ~some PROVE a = 0 /\ u = 0 /\ gone = 0
    OBVIOUS
  <2>1. a = 0
    BY InstsLength
  <2>2. Len(UntaggedInsts(f)) = 0
    BY InstsType
  <2>3. Upto(UntaggedInsts(f), 0) = <<>>
        /\ Upto(UntaggedInsts(f), Len(UntaggedInsts(f))) = FlattenSeq(UntaggedInsts(f))
    BY <1>3, UptoEnds
  <2>4. u = 0
    BY <2>2, <2>3
  <2> QED BY <2>1, <2>4 DEF Gone
<1>10. some => /\ fi \in Nat /\ fk \in Nat /\ fu \in Nat /\ gone = fi - fk /\ fk <= fi
               /\ u + fi <= a + fu
               /\ u + fi = a + fu => \A j \in 2 .. Len(f.insts) : NoTags(f, j)
               /\ fu <= fi /\ (~NoTags(f, 1) => fu < fi)
  <2> SUFFICES ASSUME some
               PROVE  /\ fi \in Nat /\ fk \in Nat /\ fu \in Nat /\ gone = fi - fk /\ fk <= fi
                      /\ u + fi <= a + fu
                      /\ u + fi = a + fu => \A j \in 2 .. Len(f.insts) : NoTags(f, j)
                      /\ fu <= fi /\ (~NoTags(f, 1) => fu < fi)
    OBVIOUS
  <2>1. 1 \in 1 .. Len(f.insts)
    BY InstsLength
  <2>2. fi \in Nat /\ fk \in Nat /\ fk <= fi
    <3> DEFINE p == Len(ActionBytes(f, 1, AllActions(f, 1)))
               q == Len(ActionBytes(f, 1, KeptActions(f, 1)))
    <3>1. p \in Nat /\ q \in Nat /\ q <= p /\ fi = 8 + p /\ fk = 8 + q
      BY ActionLengths DEF FirstKept
    <3> HIDE DEF p, q, fi, fk
    <3> QED BY <3>1
  <2>3. fu \in Nat
    <3>1. FirstUntagged(f) \in Seq(Octet)
      BY <2>1, InstType DEF FirstUntagged
    <3> QED BY <3>1
  <2>4. gone = fi - fk
    BY DEF Gone, FirstKept
  <2>5. u + fi <= a + fu
    BY InstsShrink
  <2>6. u + fi = a + fu => \A j \in 2 .. Len(f.insts) : NoTags(f, j)
    BY InstsShrink
  <2>7. fu <= fi /\ (~NoTags(f, 1) => fu < fi)
    BY <2>1, InstShrinks DEF FirstInst, FirstUntagged
  <2> HIDE DEF fi, fk, fu, gone, u, a
  <2> QED BY <2>2, <2>3, <2>4, <2>5, <2>6, <2>7
<1>11. Expected(f) = [header |-> Fixed + Len(body), match |-> match_length,
                      inst |-> IF some THEN fu ELSE 0, body |-> body]
  BY <1>1, ExpectedIs DEF FirstUntagged
<1>12. Len(body) = len + u
  BY <1>2, <1>4, JoinAt
<1> DEFINE sl == Slice(msg, 0, header_length - Fixed)
<1>13. Sent = [header |-> header_length, match |-> match_length,
               inst |-> IF some THEN fk ELSE 0, body |-> sl]
  BY <1>1 DEF Sent
<1> HIDE DEF len, old, pad, a, u, fi, fk, fu, gone, body, some, sl
<1>14. Sent = Expected(f) <=>
         /\ header_length = Fixed + (len + u)
         /\ some => fk = fu
         /\ sl = body
  BY <1>11, <1>12, <1>13
<1>15. ASSUME Sent = Expected(f)
       PROVE  PaddingFits(f) /\ InstructionsFit(f) /\ OnlyTagsAreSet(f)
  <2>1. header_length = Fixed + (len + u) /\ (some => fk = fu) /\ sl = body
    BY <1>14, <1>15
  <2>2. u + gone = pad + a
    <3>1. Fixed + (len + u) + gone = Fixed + len + pad + a
      BY <1>1, <2>1
    <3>2. gone \in Int
      BY <1>9, <1>10
    <3> QED BY <1>2, <1>4, <1>5, <3>1, <3>2
  <2>3. CASE ~some
    <3>1. pad = 0
      BY <1>5, <1>9, <2>2, <2>3
    <3>2. Len(f.insts) <= 1
      BY <2>3 DEF some
    <3> QED BY <1>6, <1>7, <1>8, <2>3, <3>1, <3>2
  <2>4. CASE some
    <3>1. /\ fi \in Nat /\ fk \in Nat /\ fu \in Nat /\ gone = fi - fk /\ fk = fu
          /\ u + fi <= a + fu /\ fu <= fi
      BY <1>10, <2>1, <2>4
    <3>2. pad = 0 /\ u + fi = a + fu
      BY <1>2, <1>4, <1>5, <2>2, <3>1
    <3>3. \A j \in 2 .. Len(f.insts) : NoTags(f, j)
      BY <1>10, <2>4, <3>2
    <3>4. ASSUME ~(Len(f.insts) <= 1)
          PROVE  len = old /\ gone = 0
      <4> SUFFICES ASSUME len # old \/ gone # 0 PROVE FALSE
        OBVIOUS
      <4> DEFINE j == len + fu + 1
      <4>1. Len(f.insts) >= 2
        BY <3>4, FlowModFacts
      <4>2. j <= Len(msg) /\ msg[j] \in InFront
        BY <1>1, <3>1, <4>1
      <4> DEFINE s == FlattenSeq(UntaggedInsts(f))
                 i == fu + 1
      <4>3. s \in Seq(Octet) /\ i \in 1 .. Len(s) /\ s[i] \notin InFront
        BY <4>1, SecondBegins DEF fu
      <4>4. Len(s) = u
        BY DEF u
      <4>5. body[j] = s[i]
        <5> DEFINE x == NewMatch(f)
        <5>1. x \in Seq(Octet) /\ Len(x) = len
          BY <1>2 DEF len
        <5> HIDE DEF s, x
        <5>2. \A l \in 1 .. Len(s) : (x \o s)[Len(x) + l] = s[l]
          BY <4>3, <5>1, JoinAt
        <5>3. (x \o s)[len + i] = s[i]
          BY <4>3, <5>1, <5>2
        <5>4. len + i = j
          BY <1>2, <3>1
        <5> QED BY <5>3, <5>4 DEF body, s, x
      <4>6. sl[j] = msg[j]
        <5> DEFINE n == header_length - Fixed
        <5>1. n = len + u
          BY <1>2, <1>4, <2>1
        <5>2. n \in Nat /\ 0 \in Nat /\ Zero \in Octet
          BY <1>2, <1>4, <5>1, OctetFacts
        <5>3. sl = Slice(msg, 0, n)
          BY DEF sl
        <5> HIDE DEF n, s
        <5>4. \A l \in 1 .. n : Slice(msg, 0, n)[l]
                = IF 0 + l \in 1 .. Len(msg) THEN msg[0 + l] ELSE Zero
          BY <1>1, <5>2, SliceAt
        <5>5. j \in 1 .. n /\ 0 + j = j /\ j \in 1 .. Len(msg)
          <6>1. fu + 1 <= u
            BY <4>3, <4>4
          <6>2. Len(msg) \in Nat
            BY <1>1
          <6> QED BY <1>2, <1>4, <3>1, <4>2, <5>1, <6>1, <6>2
        <5> HIDE DEF j
        <5> QED BY <5>3, <5>4, <5>5
      <4> QED BY <2>1, <4>2, <4>3, <4>5, <4>6
    <3>5. InstructionsFit(f)
      <4> SUFFICES ASSUME ~(Len(f.insts) <= 1)
                   PROVE  len = old /\ \A j \in 1 .. Len(f.insts) : NoTags(f, j)
        BY <1>8
      <4>1. len = old /\ gone = 0
        BY <3>4
      <4>2. fu = fi
        BY <3>1, <4>1
      <4>3. NoTags(f, 1)
        BY <1>10, <2>4, <3>1, <4>2
      <4>4. \A j \in 1 .. Len(f.insts) : j = 1 \/ j \in 2 .. Len(f.insts)
        BY FlowModFacts
      <4> QED BY <3>3, <4>1, <4>3, <4>4
    <3> QED BY <1>6, <1>7, <2>1, <3>2, <3>5
  <2> QED BY <2>3, <2>4
<1>16. ASSUME PaddingFits(f), InstructionsFit(f), OnlyTagsAreSet(f)
       PROVE  Sent = Expected(f)
  <2>1. pad = 0 /\ (some => fk = fu)
    BY <1>6, <1>7, <1>16
  <2>2. some => FirstKept(f) = FirstUntagged(f)
    BY <1>16, TagsCondition DEF FirstKept, FirstUntagged, some
  <2>3. a - gone = u /\ Holds(msg, len, FlattenSeq(UntaggedInsts(f)))
    <3>1. CASE Len(f.insts) <= 1
      <4>1. len + 0 <= Len(msg)
        <5>1. 0 + len <= Len(msg)
          BY <1>1 DEF Holds, len
        <5> QED BY <1>2, <5>1
      <4>2. some => Holds(msg, len, FirstUntagged(f))
        BY <1>1, <2>2
      <4>3. Holds(msg, len, FlattenSeq(UntaggedInsts(f)))
        BY <3>1, <4>1, <4>2, UntaggedHeld DEF some
      <4>4. a - gone = u
        <5>1. CASE ~some
          BY <1>2, <1>4, <1>9, <5>1
        <5>2. CASE some
          <6>1. a = fi /\ u = fu
            BY <3>1, <5>2, OneInst DEF a, u, fi, fu, some
          <6> QED BY <1>10, <2>1, <5>2, <6>1
        <5> QED BY <5>1, <5>2
      <4> QED BY <4>3, <4>4
    <3>2. CASE len = old /\ \A j \in 1 .. Len(f.insts) : NoTags(f, j)
      <4>1. UntaggedInsts(f) = AllInsts(f)
        BY <3>2, NoTagsAtAll
      <4>2. u = a
        BY <4>1 DEF u, a
      <4>3. gone = 0
        <5>1. CASE ~some
          BY <1>9, <5>1
        <5>2. CASE some
          <6>1. 1 \in 1 .. Len(f.insts)
            BY <5>2, InstsLength DEF some
          <6>2. FirstUntagged(f) = FirstInst(f)
            BY <3>2, <6>1 DEF NoTags, FirstUntagged, FirstInst
          <6>3. fu = fi
            BY <6>2 DEF fu, fi
          <6> QED BY <1>10, <2>1, <5>2, <6>3
        <5> QED BY <5>1, <5>2
      <4> QED BY <1>1, <1>2, <3>2, <4>1, <4>2, <4>3
    <3> QED BY <1>8, <1>16, <3>1, <3>2
  <2>4. header_length = Fixed + (len + u)
    <3>1. gone \in Int
      BY <1>9, <1>10
    <3> QED BY <1>1, <1>2, <1>4, <2>1, <2>3, <3>1
  <2>5. sl = body
    <3> DEFINE n == header_length - Fixed
    <3>1. n = len + u /\ n \in Nat
      BY <1>2, <1>4, <2>4
    <3>2. n = Len(NewMatch(f)) + Len(FlattenSeq(UntaggedInsts(f)))
      BY <3>1 DEF len, u
    <3> HIDE DEF n
    <3>3. Slice(msg, 0, n) = NewMatch(f) \o FlattenSeq(UntaggedInsts(f))
      BY <1>1, <2>3, <3>1, <3>2, SentIsExpected DEF len
    <3> QED BY <3>3 DEF sl, body, n
  <2> QED BY <1>14, <2>1, <2>4, <2>5
<1> QED BY <1>15, <1>16

-----------------------------------------------------------------------------

(* The invariant holds at first and every step keeps it: a round of either *)
(* walk, what is done behind each, and the message in its queue.           *)
THEOREM Invariance == Spec => []IInv
<1>1. Init => IInv
  BY InitInv
<1>2. IInv /\ [Next]_vars => IInv'
  <2> SUFFICES ASSUME IInv, [Next]_vars PROVE IInv'
    OBVIOUS
  <2>1. CASE MatchItem
    BY <2>1, MatchItemInv
  <2>2. CASE MatchDone
    BY <2>2, MatchDoneInv
  <2>3. CASE ActionItem
    BY <2>3, ActionItemInv
  <2>4. CASE ActionsDone
    BY <2>4, ActionsDoneInv
  <2>5. CASE UNCHANGED vars
    <3>1. /\ flow_mod' = flow_mod /\ pc' = pc /\ msg' = msg
          /\ header_length' = header_length /\ match_length' = match_length
          /\ inst_length' = inst_length /\ filter_buf' = filter_buf
          /\ new_len' = new_len /\ item' = item /\ new_item' = new_item
          /\ removed' = removed
      BY <2>5 DEF vars, fields, walk
    <3>2. total_length' = total_length
      BY <3>1 DEF total_length
    <3>3. TypeOK'
      BY <3>1, <3>2 DEF IInv, TypeOK
    <3>4. (pc = "match" => InMatch(flow_mod))'
      BY <3>1, <3>2 DEF IInv, InMatch, Walked
    <3>5. (pc = "actions" => InActions(flow_mod))'
      BY <3>1 DEF IInv, InActions, Rewritten, Walked, Stays
    <3>6. (pc = "done" => Rewritten(flow_mod, KeptActions(flow_mod, 1)))'
      BY <3>1 DEF IInv, Rewritten
    <3> QED BY <3>3, <3>4, <3>5, <3>6 DEF IInv
  <2> QED BY <2>1, <2>2, <2>3, <2>4, <2>5 DEF Next, Done
<1> QED BY <1>1, <1>2, PTL DEF Spec

(* No walk of do_ofp_flowmod_processed leaves its list, and none writes    *)
(* behind a scratch buffer of FilterSize bytes, whatever the controller    *)
(* sends: only clearing it for a match or an instruction that is longer    *)
(* can overrun it, and the model ends there.                               *)
THEOREM TypeCorrect == Spec => []TypeOK
<1>1. IInv => TypeOK
  BY DEF IInv
<1> QED BY <1>1, Invariance, PTL

(* The switch is sent the controller's flow mod without its tags, lengths  *)
(* and all, exactly if the paddings fit, the instructions do, and only     *)
(* tags are set by what is applied first.                                  *)
THEOREM RewriteRight == Spec => []RewriteRightExactlyWhen
<1>1. IInv => RewriteRightExactlyWhen
  <2> SUFFICES ASSUME IInv, pc = "done"
               PROVE  Sent = Expected(flow_mod) <=>
                        /\ PaddingFits(flow_mod)
                        /\ InstructionsFit(flow_mod)
                        /\ OnlyTagsAreSet(flow_mod)
    BY DEF RewriteRightExactlyWhen
  <2>1. PICK f \in FlowMods : flow_mod = f
    BY DEF IInv, TypeOK
  <2>2. Rewritten(f, KeptActions(f, 1)) /\ header_length \in Nat
    BY <2>1 DEF IInv, TypeOK
  <2>3. Sent = Expected(f) <=>
          PaddingFits(f) /\ InstructionsFit(f) /\ OnlyTagsAreSet(f)
    BY <2>1, <2>2, RightWhenRewritten
  <2> QED BY <2>1, <2>3
<1> QED BY <1>1, Invariance, PTL
=============================================================================
