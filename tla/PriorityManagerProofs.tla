------------------------ MODULE PriorityManagerProofs ------------------------
(***************************************************************************)
(* Proofs about the UEP statistics, for every ring size, set of UEPs and   *)
(* numbers: types, the one suspect, that a UEP is demoted for what it has  *)
(* sent itself, and that the ring buffer implements the count of the       *)
(* running window.                                                         *)
(***************************************************************************)
EXTENDS PriorityManager, TLAPS

-----------------------------------------------------------------------------
(* The ring and the splits.                                                *)

(* A window number falls into a slot, and into an id. *)
LEMMA ModRange ==
  ASSUME NEW i \in Nat, NEW k \in Nat \ {0}
  PROVE  i % k \in 0 .. k - 1
  OBVIOUS

(* A number below the modulus is its own remainder. *)
LEMMA ModSmall ==
  ASSUME NEW i \in Nat, NEW k \in Nat \ {0}, i < k
  PROVE  i % k = i
  OBVIOUS

(* addUEP counts for one UEP what it adds to the total. *)
LEMMA AddUEP ==
  ASSUME NEW split \in Split, NEW u \in UEP, NEW n \in Nat
  PROVE  /\ addUEP(split, u, n) \in Split
         /\ addUEP(split, u, n).uepMap =
              [v \in UEP |-> split.uepMap[v] + (IF v = u THEN n ELSE 0)]
         /\ addUEP(split, u, n).totalNumberSplit = split.totalNumberSplit + n
  BY DEF addUEP, Split

(* So no two UEPs outgrow the total. *)
LEMMA AddUEPOK ==
  ASSUME NEW split \in Split, NEW u \in UEP, NEW n \in Nat, SplitOK(split)
  PROVE  SplitOK(addUEP(split, u, n))
<1> DEFINE new == addUEP(split, u, n)
<1>1. /\ new.uepMap =
           [v \in UEP |-> split.uepMap[v] + (IF v = u THEN n ELSE 0)]
      /\ new.totalNumberSplit = split.totalNumberSplit + n
  BY AddUEP
<1>2. split.uepMap \in [UEP -> Nat] /\ split.totalNumberSplit \in Nat
  BY DEF Split
<1> HIDE DEF new
<1>3. ASSUME NEW v \in UEP, NEW w \in UEP, v # w
      PROVE  new.uepMap[v] + new.uepMap[w] <= new.totalNumberSplit
  BY <1>1, <1>2, <1>3 DEF SplitOK
<1>4. ASSUME NEW v \in UEP
      PROVE  new.uepMap[v] <= new.totalNumberSplit
  BY <1>1, <1>2 DEF SplitOK
<1>5. SplitOK(new)
  BY <1>3, <1>4 DEF SplitOK
<1>6. QED
  BY <1>5 DEF new

LEMMA EmptySplitOK == EmptySplit \in Split /\ SplitOK(EmptySplit)
  BY UEPAssumption DEF EmptySplit, Split, SplitOK

(***************************************************************************)
(* updateSplitOfUEP, whichever of its branches is taken, writes one slot,  *)
(* with what was there or with nothing as the base.                        *)
(***************************************************************************)
LEMMA UpdateSlot ==
  ASSUME TypeOK, NEW i \in Nat, NEW u \in UEP, NEW n \in Nat,
         updateSplitOfUEP(i, u, n)
  PROVE  \E s \in Slots, base \in Split :
           /\ base = buffer[s] \/ base = EmptySplit
           /\ buffer' = [buffer EXCEPT ![s] = addUEP(base, u, n)]
<1>1. i % bufferSize \in Slots /\ tail % bufferSize \in Slots
  BY ModRange, UEPAssumption DEF TypeOK, Slots
<1> /\ EmptySplit \in Split
    /\ \A s \in Slots : buffer[s] \in Split
  BY EmptySplitOK DEF TypeOK
<1>2. CASE ~aheadofHead(i) /\ aheadoftail(i)
  BY <1>1, <1>2 DEF updateSplitOfUEP, updateData, getData
<1>3. CASE ~aheadoftail(i)
  BY <1>1, <1>3 DEF updateSplitOfUEP, putdData
<1>4. CASE aheadofHead(i) /\ aheadoftail(i)
  BY <1>1, <1>4 DEF updateSplitOfUEP, putdData
<1>5. QED
  BY <1>2, <1>3, <1>4

-----------------------------------------------------------------------------
(* Type correctness.                                                       *)

(* What updateSplitOfUEP does to the ring is well typed. *)
LEMMA UpdateType ==
  ASSUME TypeOK, NEW i \in Nat, NEW u \in UEP, NEW n \in Nat,
         updateSplitOfUEP(i, u, n)
  PROVE  /\ head' \in Nat /\ tail' \in Nat
         /\ current_size' \in 0 .. windowSize
         /\ buffer' \in [Slots -> Split]
<1>1. /\ head \in Nat /\ tail \in Nat /\ current_size \in 0 .. windowSize
      /\ buffer \in [Slots -> Split]
  BY DEF TypeOK
<1>2. buffer' \in [Slots -> Split]
  <2>1. PICK s \in Slots, base \in Split :
               buffer' = [buffer EXCEPT ![s] = addUEP(base, u, n)]
    BY UpdateSlot
  <2>2. addUEP(base, u, n) \in Split
    BY AddUEP
  <2>3. QED
    BY <1>1, <2>1, <2>2
<1>3. head' \in Nat /\ tail' \in Nat /\ current_size' \in 0 .. windowSize
  <2>1. CASE ~aheadofHead(i) /\ aheadoftail(i)
    BY <1>1, <2>1 DEF updateSplitOfUEP, updateData
  <2>2. CASE ~aheadoftail(i)
    BY <1>1, <2>2 DEF updateSplitOfUEP, putdData, windowSize
  <2>3. CASE aheadofHead(i) /\ aheadoftail(i)
    BY <1>1, <2>3 DEF updateSplitOfUEP, putdData, windowSize
  <2>4. QED
    BY <2>1, <2>2, <2>3
<1>4. QED
  BY <1>2, <1>3

(* The history keeps its type, whoever sends. *)
LEMMA SendType ==
  ASSUME TypeOK, NEW u \in UEP, NEW n \in Nat, Send(u, n)
  PROVE  sent' \in [UEP -> 0 .. MaxSent]
<1>1. sent \in [UEP -> 0 .. MaxSent] /\ MaxSent \in Nat
  BY UEPAssumption DEF TypeOK
<1>2. (IF sent[u] + n <= MaxSent THEN sent[u] + n ELSE MaxSent) \in 0 .. MaxSent
  BY <1>1
<1>3. QED
  BY <1>1, <1>2 DEF Send

(* The id of the running window is one. *)
LEMMA WindowId ==
  ASSUME TypeOK
  PROVE  getNowWindowId \in 0 .. WindowIds - 1 /\ getNowWindowId \in Nat
<1>1. clock \in Nat
  BY UEPAssumption DEF TypeOK
<1>2. QED
  BY <1>1, ModRange, UEPAssumption DEF getNowWindowId

LEMMA TypeInit == Init => TypeOK
<1> SUFFICES ASSUME Init
             PROVE  TypeOK
  OBVIOUS
<1>1. buffer \in [Slots -> Split]
  BY EmptySplitOK DEF Init
<1>2. uep \in UEPMsg
  BY UEPAssumption DEF Init, UEPMsg, NoUEPMsg
<1>3. demoted \in BOOLEAN
  BY DEF Init
<1>4. /\ clock \in 0 .. MaxClock
      /\ head \in Nat /\ tail \in Nat /\ current_size \in 0 .. windowSize
  BY UEPAssumption DEF Init, windowSize
<1>5. sent \in [UEP -> 0 .. MaxSent]
  BY UEPAssumption DEF Init
<1>6. QED
  BY <1>1, <1>2, <1>3, <1>4, <1>5 DEF TypeOK

LEMMA TypeStep == TypeOK /\ [Next]_vars => TypeOK'
<1> SUFFICES ASSUME TypeOK, [Next]_vars
             PROVE  TypeOK'
  OBVIOUS
<1> USE UEPAssumption
<1>1. ASSUME NEW u \in TagUEP, NEW n \in Numbers, Tag(u, n)
      PROVE  TypeOK'
  <2>1. updateSplitOfUEP(getNowWindowId, u, n) /\ n \in Nat
    BY <1>1 DEF Tag
  <2>2. /\ head' \in Nat /\ tail' \in Nat
        /\ current_size' \in 0 .. windowSize
        /\ buffer' \in [Slots -> Split]
    BY <2>1, WindowId, UpdateType
  <2>3. uep' \in UEPMsg
    BY <1>1, WindowId DEF Tag, UEPMsg
  <2>4. sent' \in [UEP -> 0 .. MaxSent]
    BY <1>1, <2>1, SendType DEF Tag
  <2>5. QED
    BY <1>1, <2>2, <2>3, <2>4 DEF Tag, TypeOK
<1>2. CASE StatsRequest
  <2>1. updateSplitOfUEP(getNowWindowId, RequestUEP, 1)
    BY <1>2 DEF StatsRequest
  <2>2. /\ head' \in Nat /\ tail' \in Nat
        /\ current_size' \in 0 .. windowSize
        /\ buffer' \in [Slots -> Split]
    BY <2>1, WindowId, UpdateType
  <2>3. sent' \in [UEP -> 0 .. MaxSent]
    BY <1>2, SendType DEF StatsRequest
  <2>4. QED
    BY <1>2, <2>2, <2>3 DEF StatsRequest, TypeOK
<1>3. CASE Decide
  BY <1>3 DEF Decide, TypeOK, ringVars, isDangerous, UEPMsg, NoUEPMsg
<1>4. CASE Tick
  BY <1>4 DEF Tick, TypeOK, ringVars
<1>5. CASE StepBack
  BY <1>5 DEF StepBack, TypeOK, ringVars
<1>6. CASE UNCHANGED vars
  BY <1>6 DEF vars, ringVars, TypeOK
<1>7. QED
  BY <1>1, <1>2, <1>3, <1>4, <1>5, <1>6 DEF Next

(* All variables keep their types: no index of the ring leaves it, the     *)
(* ring never holds more than one window, and ids never leave uint16_t.    *)
THEOREM TypeCorrect == Spec => []TypeOK
  BY TypeInit, TypeStep, PTL DEF Spec

-----------------------------------------------------------------------------
(* The one suspect.                                                        *)

(* An update keeps every split in order, the reused ones too. *)
LEMMA UpdateSplits ==
  ASSUME TypeOK, SplitsOK, NEW i \in Nat, NEW u \in UEP, NEW n \in Nat,
         updateSplitOfUEP(i, u, n)
  PROVE  SplitsOK'
<1>1. PICK s \in Slots, base \in Split :
        /\ base = buffer[s] \/ base = EmptySplit
        /\ buffer' = [buffer EXCEPT ![s] = addUEP(base, u, n)]
  BY UpdateSlot
<1>2. SplitOK(addUEP(base, u, n))
  <2>1. SplitOK(base)
    BY <1>1, EmptySplitOK DEF SplitsOK
  <2>2. QED
    BY <2>1, AddUEPOK
<1>3. \A r \in Slots : buffer'[r] = IF r = s THEN addUEP(base, u, n) ELSE buffer[r]
  BY <1>1 DEF TypeOK
<1>4. \A r \in Slots : SplitOK(buffer'[r])
  BY <1>2, <1>3 DEF SplitsOK
<1>5. QED
  BY <1>4 DEF SplitsOK, SplitOK

LEMMA SplitsStep == TypeOK /\ SplitsOK /\ [Next]_vars => SplitsOK'
<1> SUFFICES ASSUME TypeOK, SplitsOK, [Next]_vars
             PROVE  SplitsOK'
  OBVIOUS
<1>1. ASSUME NEW u \in TagUEP, NEW n \in Numbers, Tag(u, n)
      PROVE  SplitsOK'
  BY <1>1, WindowId, UpdateSplits, UEPAssumption DEF Tag
<1>2. CASE StatsRequest
  BY <1>2, WindowId, UpdateSplits, UEPAssumption DEF StatsRequest
<1>3. CASE UNCHANGED buffer
  BY <1>3 DEF SplitsOK, SplitOK
<1>4. QED
  BY <1>1, <1>2, <1>3 DEF Next, vars, ringVars, Decide, Tick, StepBack

LEMMA Splits == Spec => [](TypeOK /\ SplitsOK)
<1>1. Init => SplitsOK
  BY EmptySplitOK DEF Init, SplitsOK
<1>2. QED
  BY <1>1, TypeInit, TypeStep, SplitsStep, PTL DEF Spec

(* Of two UEPs, both cannot have more than ln 2 of one total. *)
LEMMA OneSuspect == TypeOK /\ SplitsOK => AtMostOneSuspect
<1> SUFFICES ASSUME TypeOK, SplitsOK, NEW s \in Slots,
                    NEW u \in UEP, NEW v \in UEP, u # v,
                    isDangerous(buffer[s].uepMap[u], buffer[s].totalNumberSplit),
                    isDangerous(buffer[s].uepMap[v], buffer[s].totalNumberSplit)
             PROVE  FALSE
  BY DEF AtMostOneSuspect
<1> DEFINE x == buffer[s].uepMap[u]
           y == buffer[s].uepMap[v]
           t == buffer[s].totalNumberSplit
<1>1. x \in Nat /\ y \in Nat /\ t \in Nat /\ x + y <= t
  BY DEF TypeOK, Split, SplitsOK, SplitOK
<1>2. 1000000 * x > 693147 * (t + 5) /\ 1000000 * y > 693147 * (t + 5)
  BY DEF isDangerous
<1> HIDE DEF x, y, t
<1>3. QED
  BY <1>1, <1>2

(* At most one UEP of a window is suspect at any moment. *)
THEOREM OnlyOneSuspect == Spec => []AtMostOneSuspect
  BY Splits, OneSuspect, PTL

(* Whoever is suspect has counted 12 or more: 11 of 11 are 11/16 < ln 2. *)
LEMMA SuspectCount ==
  TypeOK /\ SplitsOK /\ isDangerous(Number, Total) => Number >= 12
<1> SUFFICES ASSUME TypeOK, SplitsOK, isDangerous(Number, Total)
             PROVE  Number >= 12
  OBVIOUS
<1> DEFINE s == uep.window % bufferSize
           x == buffer[s].uepMap[uep.uepid]
           t == buffer[s].totalNumberSplit
<1>1. uep.window \in Nat /\ uep.uepid \in UEP
  BY UEPAssumption DEF TypeOK, UEPMsg
<1>2. s \in Slots
  BY <1>1, ModRange, UEPAssumption DEF Slots
<1>3. Number = x /\ Total = t
  BY <1>1 DEF Number, Total, getData, windowSize
<1> HIDE DEF s
<1>4. x \in Nat /\ t \in Nat /\ x <= t
  BY <1>1, <1>2 DEF TypeOK, Split, SplitsOK, SplitOK
<1>5. 1000000 * x > 693147 * (t + 5)
  BY <1>3 DEF isDangerous
<1> HIDE DEF x, t
<1>6. x >= 12
  BY <1>4, <1>5
<1>7. QED
  BY <1>3, <1>6

(* What is counted has been sent, whichever slot it is counted in. *)
LEMMA UpdateCounted ==
  ASSUME TypeOK, CountedIsSent, NEW i \in Nat, NEW u \in UEP, NEW n \in Nat,
         updateSplitOfUEP(i, u, n), Send(u, n)
  PROVE  CountedIsSent'
<1>1. PICK s \in Slots, base \in Split :
        /\ base = buffer[s] \/ base = EmptySplit
        /\ buffer' = [buffer EXCEPT ![s] = addUEP(base, u, n)]
  BY UpdateSlot
<1>2. sent \in [UEP -> 0 .. MaxSent] /\ MaxSent \in Nat
  BY UEPAssumption DEF TypeOK
<1>3. \A v \in UEP :
        sent'[v] = IF v # u THEN sent[v]
                   ELSE IF sent[u] + n <= MaxSent THEN sent[u] + n ELSE MaxSent
  BY <1>2 DEF Send
<1>4. ASSUME NEW v \in UEP
      PROVE  addUEP(base, u, n).uepMap[v] <= sent'[v] \/ sent'[v] = MaxSent
  <2>1. base.uepMap[v] \in Nat
        /\ (base.uepMap[v] <= sent[v] \/ sent[v] = MaxSent)
    <3>1. CASE base = buffer[s]
      BY <3>1 DEF CountedIsSent, Split
    <3>2. CASE base = EmptySplit
      BY <1>2, <3>2 DEF EmptySplit
    <3>3. QED
      BY <1>1, <3>1, <3>2
  <2>2. addUEP(base, u, n).uepMap[v] = base.uepMap[v] + (IF v = u THEN n ELSE 0)
    <3>1. addUEP(base, u, n).uepMap =
            [w \in UEP |-> base.uepMap[w] + (IF w = u THEN n ELSE 0)]
      BY AddUEP
    <3>2. QED
      BY <3>1
  <2>3. CASE v = u
    BY <1>2, <1>3, <2>1, <2>2, <2>3
  <2>4. CASE v # u
    BY <1>2, <1>3, <2>1, <2>2, <2>4
  <2>5. QED
    BY <2>3, <2>4
<1>5. ASSUME NEW r \in Slots, NEW v \in UEP
      PROVE  buffer'[r].uepMap[v] <= sent'[v] \/ sent'[v] = MaxSent
  <2>1. CASE r = s
    BY <1>1, <1>4, <2>1 DEF TypeOK
  <2>2. CASE r # s
    <3>1. buffer'[r] = buffer[r] /\ buffer[r].uepMap[v] \in Nat
      BY <1>1, <2>2 DEF TypeOK, Split
    <3>2. sent[v] <= sent'[v] /\ (sent[v] = MaxSent => sent'[v] = MaxSent)
      BY <1>2, <1>3
    <3>3. QED
      BY <1>2, <1>3, <3>1, <3>2 DEF CountedIsSent
  <2>3. QED
    BY <2>1, <2>2
<1>6. QED
  BY <1>5 DEF CountedIsSent

LEMMA CountedStep == TypeOK /\ CountedIsSent /\ [Next]_vars => CountedIsSent'
<1> SUFFICES ASSUME TypeOK, CountedIsSent, [Next]_vars
             PROVE  CountedIsSent'
  OBVIOUS
<1>1. ASSUME NEW u \in TagUEP, NEW n \in Numbers, Tag(u, n)
      PROVE  CountedIsSent'
  BY <1>1, WindowId, UpdateCounted, UEPAssumption DEF Tag
<1>2. CASE StatsRequest
  BY <1>2, WindowId, UpdateCounted, UEPAssumption DEF StatsRequest
<1>3. CASE UNCHANGED <<buffer, sent>>
  BY <1>3 DEF CountedIsSent
<1>4. QED
  BY <1>1, <1>2, <1>3 DEF Next, vars, ringVars, Decide, Tick, StepBack

LEMMA Counted == Spec => [](TypeOK /\ SplitsOK /\ CountedIsSent)
<1>1. Init => CountedIsSent
  <2>1. ASSUME Init, NEW s \in Slots, NEW u \in UEP
        PROVE  buffer[s].uepMap[u] = 0 /\ sent[u] = 0
    BY <2>1 DEF Init, EmptySplit
  <2>2. QED
    BY <2>1 DEF CountedIsSent
<1>2. QED
  BY <1>1, TypeInit, TypeStep, CountedStep, Splits, PTL DEF Spec

(* The count a message is judged by is one of the ring. *)
LEMMA NumberCounted ==
  ASSUME TypeOK, CountedIsSent, MaxSent >= 12, Number >= 12
  PROVE  sent[uep.uepid] >= 12
<1>1. uep.window \in Nat /\ uep.uepid \in UEP
  BY UEPAssumption DEF TypeOK, UEPMsg
<1>2. uep.window % bufferSize \in Slots
  BY <1>1, ModRange, UEPAssumption DEF Slots
<1>3. Number <= sent[uep.uepid] \/ sent[uep.uepid] = MaxSent
  BY <1>1, <1>2 DEF CountedIsSent, Number, getData
<1>4. sent[uep.uepid] \in Nat /\ Number \in Nat
  BY <1>1, <1>2, UEPAssumption DEF TypeOK, Split, Number, getData
<1>5. QED
  BY <1>3, <1>4, UEPAssumption

(* Who counts twelve of twelve, or more of as many, is suspect. *)
LEMMA AloneIsSuspect ==
  ASSUME NEW n \in Nat, n >= 12
  PROVE  isDangerous(n, n)
  BY DEF isDangerous

(* No UEP is demoted that has not itself sent twelve, even when the clock  *)
(* is set back or the window ids wrap; and one that has its window to      *)
(* itself is demoted from twelve on.                                       *)
THEOREM DemotedIsOwn ==
  ASSUME MaxSent >= 12
  PROVE  Spec => DemotedForOwn
<1>1. ASSUME TypeOK, SplitsOK, CountedIsSent, Decide, demoted'
      PROVE  sent[uep.uepid] >= 12
  BY <1>1, SuspectCount, NumberCounted DEF Decide
<1>2. ASSUME TypeOK, Decide, Number >= 12, Number = Total
      PROVE  demoted'
  <2>1. Number \in Nat
    <3>1. uep.window \in Nat /\ uep.uepid \in UEP
      BY <1>2, UEPAssumption DEF TypeOK, UEPMsg
    <3>2. uep.window % bufferSize \in Slots
      BY <3>1, ModRange, UEPAssumption DEF Slots
    <3>3. QED
      BY <1>2, <3>1, <3>2 DEF TypeOK, Split, Number, getData
  <2>2. QED
    BY <1>2, <2>1, AloneIsSuspect DEF Decide
<1>3. TypeOK /\ SplitsOK /\ CountedIsSent
      => [Decide => /\ demoted' => sent[uep.uepid] >= 12
                    /\ Number >= 12 /\ Number = Total => demoted']_vars
  BY <1>1, <1>2
<1>4. QED
  BY <1>3, Counted, PTL DEF DemotedForOwn

-----------------------------------------------------------------------------
(* The refinement.                                                         *)

(***************************************************************************)
(* With a steady clock updateSplitOfUEP adds to what is counted in the     *)
(* running window and leaves that window the last one of the ring.         *)
(***************************************************************************)
LEMMA SteadyUpdate ==
  ASSUME SteadyClock, TypeOK, RingSteady,
         NEW u \in UEP \ {NoUEP}, NEW n \in Nat,
         updateSplitOfUEP(getNowWindowId, u, n)
  PROVE  /\ Running \in Split
         /\ head' <= clock /\ clock < tail' /\ tail' <= clock + 1
         /\ clock % bufferSize \in Slots
         /\ buffer' = [buffer EXCEPT ![clock % bufferSize] =
                                       addUEP(Running, u, n)]
<1>1. clock \in Nat /\ head \in Nat /\ tail \in Nat /\ getNowWindowId = clock
  BY ModSmall, UEPAssumption DEF SteadyClock, TypeOK, getNowWindowId
<1>2. clock % bufferSize \in Slots
  BY <1>1, ModRange, UEPAssumption DEF Slots
<1>3. CASE ~aheadofHead(clock) /\ aheadoftail(clock)
  <2>1. Running = buffer[clock % bufferSize]
    BY <1>3 DEF Running, getData
  <2>2. Running \in Split
    BY <1>2, <2>1 DEF TypeOK
  <2>3. /\ buffer' = [buffer EXCEPT ![clock % bufferSize] =
                                     addUEP(Running, u, n)]
        /\ head' = head /\ tail' = tail
    BY <1>1, <1>3, <2>1 DEF updateSplitOfUEP, updateData, getData
  <2>4. QED
    BY <1>1, <1>2, <1>3, <2>2, <2>3 DEF RingSteady, aheadoftail
<1>4. CASE ~aheadoftail(clock)
  <2>1. Running = EmptySplit
    BY <1>4 DEF Running
  <2>2. /\ buffer' = [buffer EXCEPT ![clock % bufferSize] =
                                     addUEP(Running, u, n)]
        /\ head' = clock /\ tail' = clock + 1
    BY <1>1, <1>4, <2>1 DEF updateSplitOfUEP, putdData, windowSize
  <2>3. QED
    BY <1>1, <1>2, <2>1, <2>2, EmptySplitOK
<1>5. ~aheadofHead(clock)
  BY <1>1 DEF RingSteady, aheadofHead
<1>6. QED
  BY <1>3, <1>4, <1>5
(* The ring stays behind the clock, and nothing is counted for NoUEP. *)
LEMMA SteadyInit == Init => RingSteady
  BY UEPAssumption DEF Init, RingSteady, EmptySplit

LEMMA SteadyStep ==
  ASSUME SteadyClock
  PROVE  TypeOK /\ RingSteady /\ [Next]_vars => RingSteady'
<1> SUFFICES ASSUME TypeOK, RingSteady, [Next]_vars
             PROVE  RingSteady'
  OBVIOUS
<1>1. ASSUME NEW u \in UEP \ {NoUEP}, NEW n \in Nat, UNCHANGED clock,
             updateSplitOfUEP(getNowWindowId, u, n)
      PROVE  RingSteady'
  <2>1. head' <= clock' /\ tail' <= clock' + 1
    BY <1>1, SteadyUpdate
  <2>2. PICK s \in Slots, base \in Split :
          /\ base = buffer[s] \/ base = EmptySplit
          /\ buffer' = [buffer EXCEPT ![s] = addUEP(base, u, n)]
    BY <1>1, WindowId, UpdateSlot
  <2>3. addUEP(base, u, n).uepMap[NoUEP] = 0
    <3>1. base.uepMap[NoUEP] = 0
      BY <2>2, UEPAssumption DEF RingSteady, EmptySplit
    <3>2. addUEP(base, u, n).uepMap =
            [v \in UEP |-> base.uepMap[v] + (IF v = u THEN n ELSE 0)]
      BY AddUEP
    <3>3. QED
      BY <3>1, <3>2, UEPAssumption
  <2>4. \A r \in Slots : buffer'[r].uepMap[NoUEP] = 0
    BY <2>2, <2>3 DEF TypeOK, RingSteady
  <2>5. QED
    BY <2>1, <2>4 DEF RingSteady
<1>2. ASSUME NEW u \in TagUEP, NEW n \in Numbers, Tag(u, n)
      PROVE  RingSteady'
  BY <1>1, <1>2, UEPAssumption DEF Tag, SteadyClock
<1>3. CASE StatsRequest
  BY <1>1, <1>3, UEPAssumption DEF StatsRequest
<1>4. CASE Tick
  BY <1>4 DEF Tick, RingSteady, ringVars, TypeOK
<1>5. CASE Decide
  BY <1>5 DEF Decide, RingSteady, ringVars
<1>6. CASE UNCHANGED vars
  BY <1>6 DEF vars, RingSteady, ringVars
<1>7. ~StepBack
  BY DEF StepBack, SteadyClock
<1>8. QED
  BY <1>2, <1>3, <1>4, <1>5, <1>6, <1>7 DEF Next

(* One count more, written as the promise has it. *)
LEMMA CountOne ==
  ASSUME NEW f \in [UEP -> Nat], NEW u \in UEP \ {NoUEP}, NEW n \in Nat
  PROVE  [v \in UEP \ {NoUEP} |-> f[v] + (IF v = u THEN n ELSE 0)] =
           [[v \in UEP \ {NoUEP} |-> f[v]] EXCEPT ![u] = @ + n]
<1> DEFINE g == [v \in UEP \ {NoUEP} |-> f[v]]
           h == [v \in UEP \ {NoUEP} |-> f[v] + (IF v = u THEN n ELSE 0)]
<1>1. \A v \in UEP \ {NoUEP} : h[v] = [g EXCEPT ![u] = g[u] + n][v]
  OBVIOUS
<1>2. h = [g EXCEPT ![u] = g[u] + n]
  BY <1>1
<1>3. QED
  BY <1>2

(* Counting in the ring is counting in the running window. *)
LEMMA CountStep ==
  ASSUME SteadyClock, TypeOK, RingSteady,
         NEW u \in UEP \ {NoUEP}, NEW n \in Nat, UNCHANGED clock,
         updateSplitOfUEP(getNowWindowId, u, n)
  PROVE  /\ Promise!Count(u, n)
         /\ getData(clock)' = addUEP(Running, u, n)
<1>1. /\ Running \in Split
      /\ head' <= clock /\ clock < tail'
      /\ clock % bufferSize \in Slots
      /\ buffer' = [buffer EXCEPT ![clock % bufferSize] =
                                    addUEP(Running, u, n)]
  BY SteadyUpdate
<1>2. head' \in Nat /\ clock \in Nat
  BY WindowId, UpdateType DEF TypeOK
<1>3. buffer'[clock % bufferSize] = addUEP(Running, u, n)
  BY <1>1 DEF TypeOK
<1>4. Running' = addUEP(Running, u, n)
  BY <1>1, <1>2, <1>3 DEF Running, getData, aheadofHead, aheadoftail
<1>5. /\ addUEP(Running, u, n).uepMap =
           [v \in UEP |-> Running.uepMap[v] + (IF v = u THEN n ELSE 0)]
      /\ addUEP(Running, u, n).totalNumberSplit = Running.totalNumberSplit + n
  BY <1>1, AddUEP
<1>6. [v \in UEP \ {NoUEP} |-> Running.uepMap[v]]' =
        [[v \in UEP \ {NoUEP} |-> Running.uepMap[v]] EXCEPT ![u] = @ + n]
  <2> DEFINE old == Running.uepMap
  <2>1. old \in [UEP -> Nat]
    BY <1>1 DEF Split
  <2>2. Running'.uepMap = [v \in UEP |-> old[v] + (IF v = u THEN n ELSE 0)]
    BY <1>4, <1>5
  <2> HIDE DEF old
  <2>3. [v \in UEP \ {NoUEP} |-> Running'.uepMap[v]] =
          [v \in UEP \ {NoUEP} |-> old[v] + (IF v = u THEN n ELSE 0)]
    BY <2>2
  <2>4. [v \in UEP \ {NoUEP} |-> old[v] + (IF v = u THEN n ELSE 0)] =
          [[v \in UEP \ {NoUEP} |-> old[v]] EXCEPT ![u] = @ + n]
    BY <2>1, CountOne
  <2>5. QED
    BY <2>3, <2>4 DEF old
<1>7. QED
  BY <1>3, <1>4, <1>5, <1>6 DEF Promise!Count, getData
LEMMA PromiseInit == TypeOK /\ Init => Promise!Init
<1> SUFFICES ASSUME TypeOK, Init
             PROVE  Promise!Init
  OBVIOUS
<1>1. Running = EmptySplit
  BY DEF Init, Running, aheadoftail
<1>2. QED
  BY <1>1 DEF Init, Promise!Init, Promise!Nothing, EmptySplit

(* Every step counts, judges, lets the window pass, or stutters. *)
LEMMA PromiseStep ==
  ASSUME SteadyClock
  PROVE  TypeOK /\ RingSteady /\ [Next]_vars => [Promise!Next]_(Promise!vars)
<1> SUFFICES ASSUME TypeOK, RingSteady, [Next]_vars
             PROVE  [Promise!Next]_(Promise!vars)
  OBVIOUS
<1>1. ASSUME NEW u \in TagUEP, NEW n \in Numbers, Tag(u, n)
      PROVE  Promise!Tag(u, n) /\ u \in UEP \ {NoUEP}
  <2>1. u \in UEP \ {NoUEP} /\ n \in Nat
    BY UEPAssumption DEF SteadyClock
  <2>2. /\ Promise!Count(u, n)
        /\ getData(clock)' = addUEP(Running, u, n)
        /\ Running \in Split
    BY <1>1, <2>1, CountStep, SteadyUpdate DEF Tag
  <2>3. clock' = clock /\ clock \in Nat /\ uep' = [uepid |-> u, window |-> clock]
    BY <1>1, ModSmall, UEPAssumption DEF Tag, SteadyClock, TypeOK, getNowWindowId
  <2>4. Number' = Running.uepMap[u] + n /\ Total' = Running.totalNumberSplit + n
    <3>1. Number' = getData(clock)'.uepMap[u]
      BY <2>3 DEF Number, getData
    <3>2. Total' = getData(clock)'.totalNumberSplit
      BY <2>3 DEF Total, getData, windowSize
    <3>3. /\ addUEP(Running, u, n).uepMap =
               [v \in UEP |-> Running.uepMap[v] + (IF v = u THEN n ELSE 0)]
          /\ addUEP(Running, u, n).totalNumberSplit =
               Running.totalNumberSplit + n
      BY <2>1, <2>2, AddUEP
    <3>4. QED
      BY <2>1, <2>2, <3>1, <3>2, <3>3
  <2>5. uep' # NoUEPMsg
    BY <2>1, <2>3 DEF NoUEPMsg
  <2>6. QED
    BY <1>1, <2>1, <2>2, <2>3, <2>4, <2>5 DEF Promise!Tag, Tag
<1>2. CASE StatsRequest
  <2>1. Promise!Count(RequestUEP, 1)
    BY <1>2, CountStep, UEPAssumption DEF StatsRequest
  <2>2. Promise!Request(RequestUEP)
    BY <1>2, <2>1 DEF Promise!Request, StatsRequest
  <2>3. QED
    BY <2>2, UEPAssumption DEF Promise!Next
<1>3. CASE Decide
  <2>1. CASE uep = NoUEPMsg
    <3>1. 0 % bufferSize \in Slots
      BY ModRange, UEPAssumption DEF Slots
    <3>2. Number = 0 /\ Total \in Nat
      BY <2>1, <3>1 DEF Number, Total, NoUEPMsg, getData, windowSize, RingSteady,
                        TypeOK, Split
    <3>3. isDangerous(Number, Total) = FALSE /\ isDangerous(0, 0) = FALSE
      BY <3>2 DEF isDangerous
    <3>4. demoted' = isDangerous(0, 0)
      BY <1>3, <3>3 DEF Decide
    <3>5. QED
      BY <1>3, <2>1, <3>4 DEF Decide, Promise!Next, Promise!Decide,
         Promise!Nothing, ringVars, Running, getData, aheadofHead, aheadoftail
  <2>2. CASE uep # NoUEPMsg
    BY <1>3, <2>2 DEF Decide, Promise!Next, Promise!Decide, Promise!Nothing,
       ringVars, Running, getData, aheadofHead, aheadoftail
  <2>3. QED
    BY <2>1, <2>2
<1>4. CASE Tick
  <2>1. Running' = EmptySplit
    BY <1>4 DEF Tick, Running, EmptySplit, aheadoftail, ringVars, RingSteady, TypeOK
  <2>2. QED
    BY <1>4, <2>1 DEF Tick, Promise!Tick, Promise!Next, EmptySplit, ringVars,
                      Number, Total, getData
<1>5. CASE UNCHANGED vars
  BY <1>5 DEF vars, ringVars, Promise!vars, Running, getData, Number, Total,
              aheadofHead, aheadoftail
<1>6. ~StepBack
  BY DEF StepBack, SteadyClock
<1>7. QED
  BY <1>1, <1>2, <1>3, <1>4, <1>5, <1>6 DEF Next, Promise!Next

(* With a steady clock the statistics keep what UEPCount promises: they     *)
(* know the running window's counts and judge every message by them.       *)
THEOREM StatisticsRefineUEPCount ==
  ASSUME SteadyClock
  PROVE  Spec => ImplementsUEPCount
<1>1. Spec => [](TypeOK /\ RingSteady)
  BY TypeInit, TypeStep, SteadyInit, SteadyStep, PTL DEF Spec
<1>2. Init => Promise!Init
  BY TypeInit, PromiseInit
<1>3. QED
  BY <1>1, <1>2, PromiseStep, PTL DEF Spec, ImplementsUEPCount, Promise!Spec
=============================================================================
