--------------------------- MODULE ScheduleProofs ---------------------------
(***************************************************************************)
(* What holds of the schedules for any number of messages, queues and      *)
(* credits: type correctness; the safety properties, from an inductive     *)
(* invariant built of what the reader and the scheduler have in hand, the  *)
(* order of the stamps, the account of the credits and what a scan has     *)
(* already passed; that Schedule implements Relay; that a request is       *)
(* finished by its reply or by a report that carries its xid, and the      *)
(* switch's backlog keeps within the window, as no flow change is          *)
(* completed without a report of its own; and that the listener of the     *)
(* SERVER schedule opens its FIFO by its full name.                        *)
(***************************************************************************)
EXTENDS ScheduleInv, FiniteSetTheorems, SequenceTheorems, TLAPS

-----------------------------------------------------------------------------
(* The helpers the actions are built from.                                 *)

LEMMA QueuesType ==
  /\ queue_num \in Nat /\ queue_num > 2
  /\ 0 \in Queues /\ 1 \in Queues /\ 2 \in Queues
  /\ Queues \subseteq Nat
  /\ \A i \in Queues : i < LastQueue => i + 1 \in Queues
BY QueueAssumption DEF Queues, LastQueue

(* getOFPMsgArg chooses a queue or leaves a byte of garbage.               *)
LEMMA QueueChoiceType ==
  ASSUME NEW m \in Msg
  PROVE  QueueChoice(m) \subseteq 0 .. 255 \cup Queues
BY QueuesType, QueueAssumption, ConstantsAssumption
DEF QueueChoice, IMPORTANT_QUEUE_ID, LLDP_QUEUE_ID, PI_QUEUE_ID,
    MULTI_PART_REQUEST_QUEUE_ID, MULTI_PART_REPLY_QUEUE_ID,
    FLOW_MOD_QUEUE_1_ID, PO_QUEUE_1_ID, Kinds, FlowMods, Lldp

LEMMA IdentChoiceType ==
  ASSUME NEW m \in Msg
  PROVE  IdentChoice(m) \subseteq Idents
BY QueueAssumption, ConstantsAssumption DEF IdentChoice

(* Sets of messages are finite.                                            *)
LEMMA MessagesFinite ==
  ASSUME NEW S \in SUBSET Msg
  PROVE  IsFiniteSet(S) /\ Cardinality(S) \in Nat
BY ConstantsAssumption, FS_Subset, FS_CardinalityType

-----------------------------------------------------------------------------
(* Type correctness.                                                       *)

LEMMA TypeInit == Init => TypeOK
<1> SUFFICES ASSUME Init PROVE TypeOK
  OBVIOUS
<1> USE QueuesType, ConstantsAssumption, SchedAssumption DEF Init
<1>1. ObjType
  BY DEF ObjType, Stages
<1>2. ReaderType
  BY DEF ReaderType, ReaderPcs
<1>3. SchedType
  BY QueueAssumption DEF SchedType, SchedPcs, Unpaced, Queues
<1>4. ListenType
  BY DEF ListenType, ListenPcs
<1>5. ExtType
  <2>1. <<>> \in Seq(Idents)
    OBVIOUS
  <2>2. setbacks \in 0 .. MaxSetBacks
    OBVIOUS
  <2> QED BY <2>1, <2>2 DEF ExtType
<1> QED BY <1>1, <1>2, <1>3, <1>4, <1>5 DEF TypeOK

(* A group of variables that a step leaves alone keeps its type.           *)
LEMMA TypeFrame ==
  /\ ObjType /\ UNCHANGED objVars => ObjType'
  /\ ReaderType /\ UNCHANGED readerVars => ReaderType'
  /\ SchedType /\ UNCHANGED schedVars => SchedType'
  /\ ListenType /\ UNCHANGED <<listenVars, pipeVars>> => ListenType'
  /\ ExtType /\ UNCHANGED extVars => ExtType'
BY DEF ObjType, ReaderType, SchedType, ListenType, ExtType, objVars,
       readerVars, schedVars, listenVars, pipeVars, extVars

LEMMA MarkFirstType ==
  ASSUME NEW S, MarkFirst(S)
  PROVE  finished' \in [Msg -> BOOLEAN]
BY Zenon DEF MarkFirst

LEMMA TypeReceive ==
  ASSUME TypeOK, NEW d \in Schedules, NEW m \in Msg, Receive(d, m)
  PROVE  TypeOK'
<1>1. PICK q \in QueueChoice(m) : qid' = [qid EXCEPT ![m] = q]
  BY DEF Receive
<1>2. PICK id \in IdentChoice(m) : identity' = [identity EXCEPT ![m] = id]
  BY DEF Receive
<1>3. q \in Nat /\ (q \in 0 .. 255 \/ q \in Queues) /\ id \in Idents
  <2>1. q \in 0 .. 255 \cup Queues
    BY QueueChoiceType
  <2>2. id \in Idents
    BY IdentChoiceType
  <2> QED BY <2>1, <2>2, QueuesType
<1>4. finished' \in [Msg -> BOOLEAN]
  <2>1. CASE Kind[m] = "STATS_REPLY"
    BY <2>1, MarkFirstType DEF Receive
  <2>2. CASE Kind[m] # "STATS_REPLY"
    BY <2>2 DEF TypeOK, ObjType, Receive
  <2> QED BY <2>1, <2>2
<1>5. ObjType'
  <2>1. stage' = [stage EXCEPT ![m] = "read"]
        /\ UNCHANGED <<stamp, inProcess, written>>
    BY DEF Receive
  <2> QED BY <1>1, <1>2, <1>3, <1>4, <2>1 DEF TypeOK, ObjType, Stages
<1>6. ReaderType'
  BY DEF Receive, TypeOK, ReaderType, ReaderPcs
<1>7. ListenType'
  BY DEF Receive, TypeOK, ListenType, listenVars
<1>8. SchedType' /\ ExtType'
  BY TypeFrame DEF Receive, TypeOK
<1>9. \A n \in Msg : qid'[n] \in 0 .. 255 \/ qid'[n] \in Queues
  BY <1>1, <1>3 DEF TypeOK, ObjType
<1> QED BY <1>5, <1>6, <1>7, <1>8, <1>9 DEF TypeOK

LEMMA TypeReaderGoesOn ==
  ASSUME TypeOK, NEW d \in Schedules, ReaderGoesOn(d)
  PROVE  TypeOK'
<1>1. CASE NameOwnPipe(d)
  <2>1. ObjType' /\ SchedType' /\ ExtType' /\ UNCHANGED qid
    BY <1>1, TypeFrame DEF NameOwnPipe, TypeOK, objVars
  <2>2. ReaderType' /\ ListenType'
    BY <1>1 DEF NameOwnPipe, TypeOK, ReaderType, ReaderPcs, ListenType,
                listenVars
  <2> QED BY <2>1, <2>2 DEF TypeOK
<1>2. CASE NameOtherPipe(d)
  <2>1. ObjType' /\ SchedType' /\ ExtType' /\ UNCHANGED qid
    BY <1>2, TypeFrame DEF NameOtherPipe, TypeOK, objVars
  <2>2. ReaderType'
    BY <1>2 DEF NameOtherPipe, TypeOK, ReaderType, ReaderPcs
  <2>3. suffixes' \in [Schedules -> Nat]
    <3>1. suffixes \in [Schedules -> Nat]
      BY DEF TypeOK, ListenType
    <3>2. suffixes' = [suffixes EXCEPT ![Other(d)] = @ + 1]
      BY <1>2 DEF NameOtherPipe
    <3>3. CASE Other(d) \in Schedules
      BY <3>1, <3>2, <3>3
    <3>4. CASE Other(d) \notin Schedules
      BY <3>1, <3>2, <3>4
    <3> QED BY <3>3, <3>4
  <2>4. ListenType'
    BY <1>2, <2>3 DEF NameOtherPipe, TypeOK, ListenType, listenVars
  <2> QED BY <2>1, <2>2, <2>4 DEF TypeOK
<1>3. CASE SetOtherDpId(d)
  <2>1. ObjType' /\ SchedType' /\ ExtType' /\ UNCHANGED qid
    BY <1>3, TypeFrame DEF SetOtherDpId, TypeOK, objVars
  <2>2. ReaderType' /\ ListenType'
    BY <1>3 DEF SetOtherDpId, TypeOK, ReaderType, ReaderPcs, ListenType,
                listenVars
  <2> QED BY <2>1, <2>2 DEF TypeOK
<1>4. CASE PutMsg(d)
  <2>1. SchedType' /\ ListenType' /\ UNCHANGED qid
    BY <1>4, TypeFrame DEF PutMsg, TypeOK
  <2>2. ObjType'
    BY <1>4 DEF PutMsg, TypeOK, ObjType, ReaderType, Stages
  <2>3. ReaderType'
    BY <1>4 DEF PutMsg, TypeOK, ReaderType, ReaderPcs
  <2>4. ExtType'
    BY <1>4 DEF PutMsg, TypeOK, ExtType
  <2> QED BY <2>1, <2>2, <2>3, <2>4 DEF TypeOK
<1>5. CASE TouchMsg(d)
  <2>1. ObjType' /\ SchedType' /\ ListenType' /\ ExtType' /\ UNCHANGED qid
    BY <1>5, TypeFrame DEF TouchMsg, TypeOK, objVars
  <2>2. ReaderType'
    BY <1>5 DEF TouchMsg, TypeOK, ReaderType, ReaderPcs
  <2> QED BY <2>1, <2>2 DEF TypeOK
<1> QED BY <1>1, <1>2, <1>3, <1>4, <1>5 DEF ReaderGoesOn

LEMMA DoneFinite ==
  ASSUME NEW d, NEW i
  PROVE  /\ Done(d, i) \in SUBSET Msg
         /\ Cardinality(Done(d, i)) \in Nat
BY MessagesFinite DEF Done, InQueue

LEMMA StartScanType ==
  ASSUME SchedType, ReaderType, NEW d \in Schedules, NEW c, StartScan(d, c)
  PROVE  /\ pc' \in [Schedules -> SchedPcs]
         /\ idx' \in [Schedules -> Queues]
         /\ scanFrom' \in [Schedules -> Nat]
         /\ skipped' \in [Schedules -> SUBSET Queues]
BY QueuesType DEF StartScan, SchedType, ReaderType, SchedPcs

LEMMA TypeRun ==
  ASSUME TypeOK, NEW d \in Schedules, Run(d)
  PROVE  TypeOK'
<1>1. CASE Top(d)
  <2>1. ObjType' /\ ReaderType' /\ ExtType' /\ UNCHANGED qid
    BY <1>1, TypeFrame DEF Top, TypeOK, objVars
  <2>2. ListenType'
    BY <1>1 DEF Top, TypeOK, ListenType, ListenPcs, pipeVars
  <2>3. /\ pc' \in [Schedules -> SchedPcs]
        /\ idx' \in [Schedules -> Queues]
        /\ scanFrom' \in [Schedules -> Nat]
        /\ skipped' \in [Schedules -> SUBSET Queues]
    <3>1. CASE StartScan(d, credits[d])
      BY <3>1, StartScanType DEF TypeOK
    <3>2. CASE ~StartScan(d, credits[d])
      BY <1>1, <3>2, QueuesType DEF Top, TypeOK, SchedType, SchedPcs
    <3> QED BY <3>1, <3>2
  <2>4. SchedType'
    BY <1>1, <2>3 DEF Top, TypeOK, SchedType
  <2> QED BY <2>1, <2>2, <2>4 DEF TypeOK
<1>2. CASE Clean(d)
  <2> DEFINE num == cleaned[d] + Cardinality(Done(d, idx[d]))
  <2>1. ReaderType' /\ ListenType' /\ ExtType' /\ UNCHANGED qid
    BY <1>2, TypeFrame DEF Clean, TypeOK
  <2>2. ObjType'
    BY <1>2 DEF Clean, TypeOK, ObjType, Stages
  <2>3. num \in Nat
    <3>1. cleaned[d] \in Nat
      BY DEF TypeOK, SchedType
    <3> QED BY <3>1, DoneFinite
  <2>4. Int32Plus(credits[d], num) \in Int
    <3>1. credits[d] \in Int
      BY DEF TypeOK, SchedType
    <3> HIDE DEF num
    <3> QED BY <2>3, <3>1, SchedAssumption DEF Int32Plus
  <2>5. SchedType'
    <3>1. CASE idx[d] < LastQueue
      <4>1. /\ idx' = [idx EXCEPT ![d] = @ + 1]
            /\ cleaned' = [cleaned EXCEPT ![d] = num]
            /\ UNCHANGED <<pc, cur, credits, due, scanFrom, skipped>>
        BY <1>2, <3>1 DEF Clean
      <4> HIDE DEF num
      <4>2. idx' \in [Schedules -> Queues]
        <5>1. idx \in [Schedules -> Queues]
          BY DEF TypeOK, SchedType
        <5>2. idx[d] + 1 \in Queues
          BY <3>1, <5>1, QueuesType
        <5> QED BY <4>1, <5>1, <5>2
      <4> QED BY <2>3, <4>1, <4>2 DEF TypeOK, SchedType
    <3>2. CASE ~(idx[d] < LastQueue)
      <4>1. StartScan(d, Int32Plus(credits[d], num))
        BY <1>2, <3>2 DEF Clean
      <4>2. /\ credits' = [credits EXCEPT ![d] = Int32Plus(@, num)]
            /\ cleaned' = [cleaned EXCEPT ![d] = 0]
            /\ UNCHANGED <<cur, due>>
        BY <1>2, <3>2 DEF Clean
      <4> HIDE DEF num
      <4>3. /\ pc' \in [Schedules -> SchedPcs]
            /\ idx' \in [Schedules -> Queues]
            /\ scanFrom' \in [Schedules -> Nat]
            /\ skipped' \in [Schedules -> SUBSET Queues]
        BY <4>1, StartScanType DEF TypeOK
      <4> QED BY <2>4, <4>2, <4>3 DEF TypeOK, SchedType
    <3> QED BY <3>1, <3>2
  <2> QED BY <2>1, <2>2, <2>5 DEF TypeOK
<1>3. CASE FetchNone(d)
  <2>1. ObjType' /\ ReaderType' /\ ListenType' /\ ExtType' /\ UNCHANGED qid
    BY <1>3, TypeFrame DEF FetchNone, TypeOK, objVars
  <2>2. SchedType'
    <3> /\ due' \in [Schedules -> SUBSET Queues]
        /\ skipped' \in [Schedules -> SUBSET Queues]
      BY <1>3 DEF FetchNone, LookedInto, TypeOK, SchedType
    <3>1. CASE idx[d] < LastQueue
      <4>1. idx \in [Schedules -> Queues]
        BY DEF TypeOK, SchedType
      <4>2. idx[d] + 1 \in Queues
        BY <3>1, <4>1, QueuesType
      <4> QED BY <1>3, <3>1, <4>1, <4>2 DEF FetchNone, TypeOK, SchedType
    <3>2. CASE ~(idx[d] < LastQueue)
      BY <1>3, <3>2 DEF FetchNone, TypeOK, SchedType, SchedPcs
    <3> QED BY <3>1, <3>2
  <2> QED BY <2>1, <2>2 DEF TypeOK
<1>4. ASSUME NEW m \in Msg, Fetch(d, m) PROVE TypeOK'
  <2>1. ReaderType' /\ ListenType' /\ ExtType' /\ UNCHANGED qid
    BY <1>4, TypeFrame DEF Fetch, TypeOK
  <2>2. ObjType'
    BY <1>4 DEF Fetch, TypeOK, ObjType
  <2>3. SchedType'
    BY <1>4 DEF Fetch, LookedInto, TypeOK, SchedType, SchedPcs
  <2> QED BY <2>1, <2>2, <2>3 DEF TypeOK
<1>5. CASE Write(d)
  <2>1. ReaderType' /\ ListenType' /\ ExtType' /\ UNCHANGED qid
    BY <1>5, TypeFrame DEF Write, TypeOK
  <2>2. ObjType'
    BY <1>5 DEF Write, TypeOK, ObjType
  <2>3. SchedType'
    BY <1>5 DEF Write, TypeOK, SchedType, SchedPcs
  <2> QED BY <2>1, <2>2, <2>3 DEF TypeOK
<1>6. CASE Finish(d)
  <2>1. ReaderType' /\ ListenType' /\ ExtType' /\ UNCHANGED qid
    BY <1>6, TypeFrame DEF Finish, TypeOK
  <2>2. finished' \in [Msg -> BOOLEAN]
    BY <1>6 DEF Finish, TypeOK, ObjType
  <2>3. ObjType'
    BY <1>6, <2>2 DEF Finish, TypeOK, ObjType
  <2>4. SchedType'
    <3>1. CASE SWToControl(d)
      BY <1>6, <3>1 DEF Finish, TypeOK, SchedType, SchedPcs
    <3>2. CASE ~SWToControl(d)
      <4>1. StartScan(d, credits[d] - 1)
        BY <1>6, <3>2 DEF Finish
      <4>2. /\ credits' = [credits EXCEPT ![d] = @ - 1]
            /\ cur' = [cur EXCEPT ![d] = NoMsg]
            /\ UNCHANGED <<cleaned, due>>
        BY <1>6, <3>2 DEF Finish
      <4>3. /\ pc' \in [Schedules -> SchedPcs]
            /\ idx' \in [Schedules -> Queues]
            /\ scanFrom' \in [Schedules -> Nat]
            /\ skipped' \in [Schedules -> SUBSET Queues]
        BY <4>1, StartScanType DEF TypeOK
      <4>4. credits' \in [Schedules -> Int]
        BY <4>2 DEF TypeOK, SchedType
      <4>5. cur' \in [Schedules -> Msg \cup {NoMsg}]
        BY <4>2 DEF TypeOK, SchedType
      <4> QED BY <4>2, <4>3, <4>4, <4>5 DEF TypeOK, SchedType
    <3> QED BY <3>1, <3>2
  <2> QED BY <2>1, <2>3, <2>4 DEF TypeOK
<1> QED BY <1>1, <1>2, <1>3, <1>4, <1>5, <1>6 DEF Run

LEMMA TypeListener ==
  ASSUME TypeOK, NEW d \in Schedules, Listener(d)
  PROVE  TypeOK'
<1>1. CASE ListenOpen(d)
  <2>1. ObjType' /\ ReaderType' /\ SchedType' /\ ExtType' /\ UNCHANGED qid
    BY <1>1, TypeFrame DEF ListenOpen, TypeOK, objVars
  <2>2. ListenType'
    BY <1>1 DEF ListenOpen, TypeOK, ListenType, ListenPcs, pipeVars
  <2> QED BY <2>1, <2>2 DEF TypeOK
<1>2. CASE ListenRead(d)
  <2>1. ObjType' /\ ReaderType' /\ SchedType' /\ UNCHANGED qid
    BY <1>2, TypeFrame DEF ListenRead, TypeOK, objVars
  <2>2. Head(pipe) \in Idents /\ Tail(pipe) \in Seq(Idents)
    BY <1>2 DEF ListenRead, TypeOK, ExtType
  <2>3. ListenType'
    BY <1>2, <2>2, QueuesType
    DEF ListenRead, TypeOK, ListenType, ListenPcs, pipeVars
  <2>4. ExtType'
    BY <1>2, <2>2 DEF ListenRead, TypeOK, ExtType
  <2> QED BY <2>1, <2>3, <2>4 DEF TypeOK
<1>3. CASE ListenScan(d)
  <2>1. ReaderType' /\ SchedType' /\ ExtType' /\ UNCHANGED qid
    BY <1>3, TypeFrame DEF ListenScan, TypeOK
  <2>2. finished' \in [Msg -> BOOLEAN]
    BY <1>3, MarkFirstType DEF ListenScan
  <2>3. ObjType'
    BY <1>3, <2>2 DEF ListenScan, TypeOK, ObjType
  <2>4. ListenType'
    <3>1. \/ lpc' = [lpc EXCEPT ![d] = "read"] /\ UNCHANGED lidx
          \/ /\ lidx' = [lidx EXCEPT ![d] = @ + 1] /\ UNCHANGED lpc
             /\ lidx[d] # LastQueue
      BY <1>3 DEF ListenScan
    <3>2. lidx' \in [Schedules -> Queues]
      <4>1. lidx \in [Schedules -> Queues]
        BY DEF TypeOK, ListenType
      <4>2. lidx[d] # LastQueue => lidx[d] + 1 \in Queues
        BY <4>1, QueueAssumption DEF Queues, LastQueue
      <4> QED BY <3>1, <4>1, <4>2
    <3>3. lpc' \in [Schedules -> ListenPcs]
      BY <3>1 DEF TypeOK, ListenType, ListenPcs
    <3>4. UNCHANGED <<lid, getDpId, suffixes>>
      BY <1>3 DEF ListenScan, pipeVars
    <3> QED BY <3>2, <3>3, <3>4 DEF TypeOK, ListenType
  <2> QED BY <2>1, <2>3, <2>4 DEF TypeOK
<1> QED BY <1>1, <1>2, <1>3 DEF Listener

LEMMA TypeStep == TypeOK /\ [Next]_vars => TypeOK'
<1> SUFFICES ASSUME TypeOK, [Next]_vars PROVE TypeOK'
  OBVIOUS
<1>1. ASSUME NEW d \in Schedules, NEW i \in Queues, Clock(d, i) PROVE TypeOK'
  <2>1. ObjType' /\ ReaderType' /\ ListenType' /\ UNCHANGED qid
    BY <1>1, TypeFrame DEF Clock, Elapse, SetBack, TypeOK, objVars
  <2>2. SchedType'
    BY <1>1 DEF Clock, Elapse, SetBack, TypeOK, SchedType
  <2>3. ExtType'
    <3>1. CASE Elapse(d, i)
      BY <3>1, TypeFrame DEF Elapse, TypeOK
    <3>2. CASE SetBack(d, i)
      BY <3>2, SchedAssumption DEF SetBack, TypeOK, ExtType
    <3> QED BY <1>1, <3>1, <3>2 DEF Clock
  <2> QED BY <2>1, <2>2, <2>3 DEF TypeOK
<1>2. ASSUME NEW m \in Msg, SwitchProcess(m) PROVE TypeOK'
  <2>1. /\ ObjType' /\ ReaderType' /\ SchedType' /\ ListenType'
        /\ UNCHANGED qid
    BY <1>2, TypeFrame DEF SwitchProcess, TypeOK, objVars
  <2>2. Append(pipe, Ident[m]) \in Seq(Idents)
    BY ConstantsAssumption DEF TypeOK, ExtType
  <2>3. ExtType'
    BY <1>2, <2>2 DEF SwitchProcess, TypeOK, ExtType
  <2> QED BY <2>1, <2>3 DEF TypeOK
<1>3. CASE UNCHANGED vars
  <2>1. UNCHANGED qid
    BY <1>3 DEF vars, objVars
  <2> QED BY <1>3, <2>1, TypeFrame DEF vars, TypeOK
<1> QED BY <1>1, <1>2, <1>3, TypeReceive, TypeReaderGoesOn, TypeRun,
           TypeListener DEF Next, Reader

(* Every variable keeps its type, whatever the threads do.                 *)
THEOREM TypeCorrect == Spec => []TypeOK
BY TypeInit, TypeStep, PTL DEF Spec

-----------------------------------------------------------------------------
(* The safety properties: IInv is inductive and implies them.               *)

LEMMA InitInv == Init => IInv
<1> SUFFICES ASSUME Init PROVE IInv
  OBVIOUS
<1>1. TypeOK
  BY TypeInit
<1>2. ReaderInv /\ HandInv /\ ScanInv /\ SteadyInv
  BY DEF Init, ReaderInv, HandInv, ScanInv, SteadyInv
<1>3. FlagInv /\ OrderInv
  <2>1. \A m \in Msg : stage[m] = "absent"
    BY DEF Init
  <2>2. \A m \in Msg : ~inProcess[m] /\ written[m] = "no"
    BY DEF Init
  <2>3. \A m \in Msg : ~Pushed(m) /\ stage[m] # "freed"
    BY <2>1 DEF Pushed
  <2> QED BY <2>2, <2>3 DEF FlagInv, OrderInv
<1>4. \A d \in Schedules : InProcess(d) = {}
  <2>1. \A m \in Msg : stage[m] # "queued"
    BY DEF Init
  <2> QED BY <2>1 DEF InProcess
<1>5. CreditInv
  <2>1. \A d \in Schedules :
          credits[d] = MaxInProcess /\ cleaned[d] = 0 /\ pc[d] = "top"
    BY DEF Init
  <2>2. \A d \in Schedules : InHand(d) = 0 /\ Cardinality(InProcess(d)) = 0
    BY <1>4, <2>1, FS_EmptySet DEF InHand
  <2> QED BY <2>1, <2>2, SchedAssumption DEF CreditInv, CreditBalance
<1> QED BY <1>1, <1>2, <1>3, <1>5 DEF IInv

-----------------------------------------------------------------------------
(* Each part of the invariant is preserved, one step per action that can   *)
(* disturb it.                                                             *)

LEMMA ReaderStep ==
  ASSUME IInv, [Next]_vars
  PROVE  ReaderInv'
<1> USE DEF IInv, ReaderInv
<1>1. ASSUME NEW d \in Schedules, NEW m \in Msg, Receive(d, m)
      PROVE  ReaderInv'
  BY <1>1 DEF Receive, TypeOK, ObjType, ReaderType
<1>2. ASSUME NEW d \in Schedules, NameOwnPipe(d) PROVE ReaderInv'
  BY <1>2 DEF NameOwnPipe, TypeOK, ReaderType, objVars
<1>3. ASSUME NEW d \in Schedules, NameOtherPipe(d) PROVE ReaderInv'
  BY <1>3 DEF NameOtherPipe, TypeOK, ReaderType, objVars
<1>4. ASSUME NEW d \in Schedules, SetOtherDpId(d) PROVE ReaderInv'
  BY <1>4 DEF SetOtherDpId, TypeOK, ReaderType, objVars
<1>5. ASSUME NEW d \in Schedules, PutMsg(d) PROVE ReaderInv'
  <2>1. rmsg[d] \in Msg /\ Dir[rmsg[d]] = d
    BY <1>5 DEF PutMsg
  <2> QED BY <1>5, <2>1 DEF PutMsg, TypeOK, ObjType, ReaderType
<1>6. ASSUME NEW d \in Schedules, TouchMsg(d) PROVE ReaderInv'
  BY <1>6 DEF TouchMsg, TypeOK, ReaderType, objVars
<1>7. ASSUME NEW d \in Schedules, Clean(d) PROVE ReaderInv'
  BY <1>7 DEF Clean, TypeOK, ObjType, ReaderType, readerVars, Done, InQueue
<1>8. ASSUME UNCHANGED <<stage, rpc, rmsg>> PROVE ReaderInv'
  BY <1>8
<1>9. ASSUME NEW d \in Schedules, Run(d) \/ Listener(d) PROVE ReaderInv'
  BY <1>7, <1>8, <1>9
  DEF Run, Listener, Top, FetchNone, Fetch, Write, Finish, ListenOpen,
      ListenRead, ListenScan, objVars, readerVars
<1>10. CASE \/ \E d \in Schedules, i \in Queues : Clock(d, i)
            \/ \E m \in Msg : SwitchProcess(m)
            \/ UNCHANGED vars
  BY <1>8, <1>10 DEF Clock, Elapse, SetBack, SwitchProcess, vars, objVars, readerVars
<1> QED BY <1>1, <1>2, <1>3, <1>4, <1>5, <1>6, <1>9, <1>10
        DEF Next, Reader, ReaderGoesOn

LEMMA HandStep ==
  ASSUME IInv, [Next]_vars
  PROVE  HandInv'
<1> USE DEF IInv, HandInv
<1> DEFINE handVars == <<stage, inProcess, written, pc, cur>>
<1>1. ASSUME NEW d \in Schedules, NEW m \in Msg, Receive(d, m)
      PROVE  HandInv'
  BY <1>1 DEF Receive, TypeOK, ObjType, SchedType, schedVars
<1>2. ASSUME NEW d \in Schedules, PutMsg(d) PROVE HandInv'
  <2>1. rmsg[d] \in Msg /\ stage[rmsg[d]] = "read"
    BY <1>2 DEF PutMsg, ReaderInv
  <2> QED BY <1>2, <2>1 DEF PutMsg, TypeOK, ObjType, SchedType, schedVars
<1>3. ASSUME NEW d \in Schedules, Top(d) PROVE HandInv'
  BY <1>3 DEF Top, StartScan, TypeOK, SchedType, objVars
<1>4. ASSUME NEW d \in Schedules, Clean(d) PROVE HandInv'
  <2>1. \A m \in Done(d, idx[d]) : Dir[m] = d
    BY DEF Done, InQueue
  <2>2. /\ \A e \in Schedules \ {d} : pc'[e] = pc[e]
        /\ pc'[d] \notin {"write", "finish"}
        /\ UNCHANGED <<cur, inProcess, written>>
    BY <1>4 DEF Clean, StartScan, TypeOK, SchedType
  <2>3. \A m \in Msg : Dir[m] # d => stage'[m] = stage[m]
    BY <1>4, <2>1 DEF Clean
  <2> QED BY <2>2, <2>3
<1>5. ASSUME NEW d \in Schedules, FetchNone(d) PROVE HandInv'
  BY <1>5 DEF FetchNone, TypeOK, SchedType, objVars
<1>6. ASSUME NEW d \in Schedules, NEW m \in Msg, Fetch(d, m) PROVE HandInv'
  BY <1>6 DEF Fetch, Fetchable, InQueue, FlagInv, TypeOK, ObjType, SchedType
<1>7. ASSUME NEW d \in Schedules, Write(d) PROVE HandInv'
  BY <1>7 DEF Write, TypeOK, ObjType, SchedType
<1>8. ASSUME NEW d \in Schedules, Finish(d) PROVE HandInv'
  BY <1>8 DEF Finish, StartScan, TypeOK, ObjType, SchedType
<1>9. CASE UNCHANGED handVars
  BY <1>9
<1>10. ASSUME NEW d \in Schedules,
              NameOwnPipe(d) \/ NameOtherPipe(d) \/ SetOtherDpId(d)
              \/ TouchMsg(d) \/ Listener(d)
       PROVE  HandInv'
  BY <1>9, <1>10
  DEF NameOwnPipe, NameOtherPipe, SetOtherDpId, TouchMsg, Listener, ListenOpen,
      ListenRead, ListenScan, objVars, schedVars
<1>11. CASE \/ \E d \in Schedules, i \in Queues : Clock(d, i)
            \/ \E m \in Msg : SwitchProcess(m)
            \/ UNCHANGED vars
  BY <1>9, <1>11 DEF Clock, Elapse, SetBack, SwitchProcess, vars, objVars, schedVars
<1> QED BY <1>1, <1>2, <1>3, <1>4, <1>5, <1>6, <1>7, <1>8, <1>10, <1>11
        DEF Next, Reader, ReaderGoesOn, Run

LEMMA FlagStep ==
  ASSUME IInv, [Next]_vars
  PROVE  FlagInv'
<1> USE DEF IInv, FlagInv, Pushed
<1> DEFINE flagVars == <<stage, qid, inProcess, written, pc, cur>>
<1>1. ASSUME NEW d \in Schedules, NEW m \in Msg, Receive(d, m)
      PROVE  FlagInv'
  <2>1. \A n \in Msg \ {m} : stage'[n] = stage[n] /\ qid'[n] = qid[n]
    BY <1>1 DEF Receive, TypeOK, ObjType
  <2>2. stage[m] = "absent" /\ stage'[m] = "read"
        /\ UNCHANGED <<inProcess, written, pc, cur>>
    BY <1>1 DEF Receive, TypeOK, ObjType, schedVars
  <2> QED BY <2>1, <2>2
<1>2. ASSUME NEW d \in Schedules, PutMsg(d) PROVE FlagInv'
  <2>1. rmsg[d] \in Msg /\ stage[rmsg[d]] = "read"
    BY <1>2 DEF PutMsg, ReaderInv
  <2> QED BY <1>2, <2>1 DEF PutMsg, TypeOK, ObjType, schedVars
<1>3. ASSUME NEW d \in Schedules, Top(d) PROVE FlagInv'
  BY <1>3, ConstantsAssumption DEF Top, StartScan, TypeOK, SchedType, objVars
<1>4. ASSUME NEW d \in Schedules, Clean(d) PROVE FlagInv'
  <2>1. \A m \in Done(d, idx[d]) : stage[m] = "queued" /\ inProcess[m]
    BY DEF Done, InQueue
  <2>2. \A e \in Schedules \ {d} : pc'[e] = pc[e]
    BY <1>4 DEF Clean, StartScan, TypeOK, SchedType
  <2>3. pc[d] = "clean" /\ UNCHANGED <<qid, inProcess, written, cur>>
    BY <1>4 DEF Clean
  <2>4. \A m \in Msg : \/ stage'[m] = stage[m]
                       \/ /\ stage[m] = "queued" /\ inProcess[m]
                          /\ stage'[m] = "freed"
    BY <1>4, <2>1 DEF Clean
  <2>5. \A m \in Msg : Dir[m] \in Schedules
    BY ConstantsAssumption
  <2>6. \A m \in Msg : inProcess[m] /\ written[m] = "no" => Dir[m] # d
    BY <2>3
  <2>7. \A m \in Msg : inProcess[m] /\ written[m] = "no"
                         => pc'[Dir[m]] = "write" /\ cur'[Dir[m]] = m
    BY <2>2, <2>3, <2>5, <2>6
  <2> QED BY <2>3, <2>4, <2>7
<1>5. ASSUME NEW d \in Schedules, FetchNone(d) PROVE FlagInv'
  BY <1>5, ConstantsAssumption DEF FetchNone, TypeOK, SchedType, objVars
<1>6. ASSUME NEW d \in Schedules, NEW m \in Msg, Fetch(d, m) PROVE FlagInv'
  BY <1>6, ConstantsAssumption
  DEF Fetch, Fetchable, InQueue, TypeOK, ObjType, SchedType
<1>7. ASSUME NEW d \in Schedules, Write(d) PROVE FlagInv'
  <2>1. cur[d] \in Msg /\ Dir[cur[d]] = d /\ inProcess[cur[d]]
        /\ written'[cur[d]] # "no"
    BY <1>7 DEF Write, HandInv, TypeOK, ObjType
  <2> QED BY <1>7, <2>1, ConstantsAssumption
          DEF Write, TypeOK, ObjType, SchedType
<1>8. ASSUME NEW d \in Schedules, Finish(d) PROVE FlagInv'
  BY <1>8, ConstantsAssumption DEF Finish, StartScan, TypeOK, SchedType
<1>9. CASE UNCHANGED flagVars
  BY <1>9
<1>10. ASSUME NEW d \in Schedules,
              NameOwnPipe(d) \/ NameOtherPipe(d) \/ SetOtherDpId(d)
              \/ TouchMsg(d) \/ Listener(d)
       PROVE  FlagInv'
  BY <1>9, <1>10
  DEF NameOwnPipe, NameOtherPipe, SetOtherDpId, TouchMsg, Listener, ListenOpen,
      ListenRead, ListenScan, objVars, schedVars
<1>11. CASE \/ \E d \in Schedules, i \in Queues : Clock(d, i)
            \/ \E m \in Msg : SwitchProcess(m)
            \/ UNCHANGED vars
  BY <1>9, <1>11 DEF Clock, Elapse, SetBack, SwitchProcess, vars, objVars, schedVars
<1> QED BY <1>1, <1>2, <1>3, <1>4, <1>5, <1>6, <1>7, <1>8, <1>10, <1>11
        DEF Next, Reader, ReaderGoesOn, Run

LEMMA OrderStep ==
  ASSUME IInv, [Next]_vars
  PROVE  OrderInv'
<1> USE DEF IInv, OrderInv, Pushed
<1> DEFINE orderVars == <<stage, stamp, puts>>
<1>1. ASSUME NEW d \in Schedules, NEW m \in Msg, Receive(d, m)
      PROVE  OrderInv'
  BY <1>1 DEF Receive, TypeOK, ObjType
<1>2. ASSUME NEW d \in Schedules, PutMsg(d) PROVE OrderInv'
  <2>1. rmsg[d] \in Msg /\ Dir[rmsg[d]] = d
    BY <1>2 DEF PutMsg, ReaderInv
  <2>2. CASE qid[rmsg[d]] \in Queues
    <3>1. /\ puts' = [puts EXCEPT ![d] = @ + 1]
          /\ stamp' = [stamp EXCEPT ![rmsg[d]] = puts[d] + 1]
          /\ stage' = [stage EXCEPT ![rmsg[d]] = "queued"]
      BY <1>2, <2>2 DEF PutMsg
    <3>2. /\ \A e \in Schedules : puts[e] \in Nat /\ puts'[e] \in Nat
          /\ \A e \in Schedules : puts[e] <= puts'[e]
          /\ puts'[d] = puts[d] + 1
      BY <3>1 DEF TypeOK, ReaderType
    <3>3. /\ stamp'[rmsg[d]] = puts[d] + 1
          /\ \A n \in Msg \ {rmsg[d]} : /\ stamp'[n] = stamp[n]
                                       /\ stage'[n] = stage[n]
          /\ \A n \in Msg : stamp[n] \in Nat
      BY <2>1, <3>1 DEF TypeOK, ObjType
    <3>4. \A n \in Msg : Dir[n] \in Schedules
      BY ConstantsAssumption
    <3> QED BY <2>1, <3>2, <3>3, <3>4
  <2>3. CASE qid[rmsg[d]] \notin Queues
    BY <1>2, <2>3 DEF PutMsg
  <2> QED BY <2>2, <2>3
<1>3. ASSUME NEW d \in Schedules, Clean(d) PROVE OrderInv'
  <2>1. \A m \in Msg : stage'[m] = stage[m] \/ stage[m] = "queued"
    BY <1>3 DEF Clean, Done, InQueue
  <2> QED BY <1>3, <2>1 DEF Clean, readerVars
<1>4. CASE UNCHANGED orderVars
  BY <1>4
<1>5. ASSUME NEW d \in Schedules,
             \/ NameOwnPipe(d) \/ NameOtherPipe(d) \/ SetOtherDpId(d)
             \/ TouchMsg(d) \/ Listener(d)
      PROVE  OrderInv'
  BY <1>4, <1>5
  DEF NameOwnPipe, NameOtherPipe, SetOtherDpId, TouchMsg, Listener, ListenOpen,
      ListenRead, ListenScan, objVars, readerVars
<1>6. ASSUME NEW d \in Schedules, Run(d) PROVE OrderInv'
  BY <1>3, <1>4, <1>6
  DEF Run, Top, FetchNone, Fetch, Write, Finish, objVars, readerVars
<1>7. CASE \/ \E d \in Schedules, i \in Queues : Clock(d, i)
           \/ \E m \in Msg : SwitchProcess(m)
           \/ UNCHANGED vars
  BY <1>4, <1>7 DEF Clock, Elapse, SetBack, SwitchProcess, vars, objVars, readerVars
<1> QED BY <1>1, <1>2, <1>5, <1>6, <1>7 DEF Next, Reader, ReaderGoesOn

LEMMA ScanStep ==
  ASSUME IInv, [Next]_vars
  PROVE  ScanInv'
<1> USE DEF IInv, ScanInv, Urgent, PassedOver
<1> DEFINE scanVars == <<stage, qid, stamp, inProcess, puts, pc, idx, scanFrom,
                     skipped>>
<1>1. ASSUME NEW d \in Schedules, NEW m \in Msg, Receive(d, m)
      PROVE  ScanInv'
  <2>1. \A n \in Msg \ {m} : stage'[n] = stage[n] /\ qid'[n] = qid[n]
    BY <1>1 DEF Receive, TypeOK, ObjType
  <2>2. stage'[m] = "read"
        /\ UNCHANGED <<inProcess, stamp, puts, pc, idx, scanFrom, skipped>>
    BY <1>1 DEF Receive, TypeOK, ObjType, schedVars
  <2> QED BY <2>1, <2>2
<1>2. ASSUME NEW d \in Schedules, PutMsg(d) PROVE ScanInv'
  <2>1. rmsg[d] \in Msg /\ Dir[rmsg[d]] = d
    BY <1>2 DEF PutMsg, ReaderInv
  <2>2. CASE qid[rmsg[d]] \in Queues
    <3>1. puts' = [puts EXCEPT ![d] = @ + 1]
          /\ stamp' = [stamp EXCEPT ![rmsg[d]] = puts[d] + 1]
          /\ stage' = [stage EXCEPT ![rmsg[d]] = "queued"]
          /\ UNCHANGED <<qid, inProcess, pc, idx, scanFrom, skipped>>
      BY <1>2, <2>2 DEF PutMsg, schedVars
    <3>2. \A e \in Schedules : scanFrom'[e] <= puts'[e]
      BY <3>1 DEF TypeOK, ReaderType, SchedType
    <3>3. ASSUME NEW e \in Schedules, pc'[e] = "fetch"
          PROVE  Urgent(e, idx[e])' \subseteq PassedOver(e)'
      BY <2>1, <3>1, <3>3 DEF TypeOK, ObjType, ReaderType, SchedType
    <3> QED BY <3>1, <3>2, <3>3
  <2>3. CASE qid[rmsg[d]] \notin Queues
    BY <1>2, <2>3 DEF PutMsg, schedVars
  <2> QED BY <2>2, <2>3
<1>3. ASSUME NEW d \in Schedules, NEW c, StartScan(d, c),
             UNCHANGED <<qid, stamp, inProcess, puts>>,
             \A m \in Msg : stage'[m] \in {stage[m], "freed"}
      PROVE  ScanInv'
  <2>1. \A e \in Schedules \ {d} :
          /\ pc'[e] = pc[e] /\ idx'[e] = idx[e]
          /\ scanFrom'[e] = scanFrom[e] /\ skipped'[e] = skipped[e]
    BY <1>3 DEF StartScan, TypeOK, SchedType
  <2>2. /\ idx'[d] = 0
        /\ scanFrom'[d] = IF c > 0 THEN puts[d] ELSE scanFrom[d]
    BY <1>3 DEF StartScan, TypeOK, SchedType
  <2>3. \A m \in Msg : ~(qid[m] < 0)
    BY DEF TypeOK, ObjType
  <2>4. scanFrom'[d] <= puts[d]
    BY <2>2 DEF TypeOK, ReaderType
  <2>5. Urgent(d, idx[d])' = {}
    BY <1>3, <2>2, <2>3
  <2>6. \A e \in Schedules \ {d} :
          pc[e] = "fetch" => Urgent(e, idx[e])' \subseteq PassedOver(e)'
    BY <1>3, <2>1
  <2> QED BY <1>3, <2>1, <2>4, <2>5, <2>6
<1>4. ASSUME NEW d \in Schedules, pc'[d] # "fetch",
             UNCHANGED <<qid, stamp, puts, scanFrom>>,
             \A e \in Schedules \ {d} : /\ pc'[e] = pc[e] /\ idx'[e] = idx[e]
                                        /\ skipped'[e] = skipped[e],
             \A m \in Msg : stage'[m] \in {stage[m], "freed"},
             \A m \in Msg : inProcess[m] => inProcess'[m]
      PROVE  ScanInv'
  BY <1>4
<1>5. ASSUME NEW d \in Schedules, Top(d) PROVE ScanInv'
  <2>1. CASE StartScan(d, credits[d])
    BY <1>3, <1>5, <2>1 DEF Top, objVars, readerVars
  <2>2. CASE ~StartScan(d, credits[d])
    BY <1>4, <1>5, <2>2 DEF Top, TypeOK, SchedType, objVars, readerVars
  <2> QED BY <2>1, <2>2
<1>6. ASSUME NEW d \in Schedules, Clean(d) PROVE ScanInv'
  <2>1. \A m \in Msg : stage'[m] \in {stage[m], "freed"}
    BY <1>6 DEF Clean
  <2>2. UNCHANGED <<qid, stamp, inProcess, puts>>
    BY <1>6 DEF Clean, readerVars
  <2>3. CASE idx[d] < LastQueue
    BY <1>4, <1>6, <2>1, <2>2, <2>3 DEF Clean, TypeOK, SchedType
  <2>4. CASE ~(idx[d] < LastQueue)
    BY <1>3, <1>6, <2>1, <2>2, <2>4 DEF Clean
  <2> QED BY <2>3, <2>4
<1>7. ASSUME NEW d \in Schedules, FetchNone(d) PROVE ScanInv'
  <2>1. UNCHANGED <<stage, qid, stamp, inProcess, puts, scanFrom>>
    BY <1>7 DEF FetchNone, objVars, readerVars
  <2>2. CASE idx[d] < LastQueue
    <3>1. /\ idx' = [idx EXCEPT ![d] = @ + 1] /\ UNCHANGED pc
          /\ pc[d] = "fetch"
      BY <1>7, <2>2 DEF FetchNone
    <3>2. \/ Fetchable(d, idx[d]) = {} /\ skipped' = skipped
          \/ skipped' = [skipped EXCEPT ![d] = @ \cup {idx[d]}]
      BY <1>7 DEF FetchNone
    <3> skipped[d] \subseteq skipped'[d]
      BY <3>2 DEF TypeOK, SchedType
    <3>3. ASSUME NEW n \in Urgent(d, idx[d])' PROVE qid[n] \in skipped'[d]
      <4>1. /\ n \in Msg /\ stage[n] = "queued" /\ Dir[n] = d
            /\ ~inProcess[n] /\ qid[n] < FirstPaced
            /\ stamp[n] <= scanFrom[d] /\ qid[n] < idx[d] + 1
        BY <2>1, <3>1, <3>3 DEF TypeOK, SchedType
      <4>2. CASE qid[n] < idx[d]
        BY <3>1, <4>1, <4>2
      <4>3. CASE ~(qid[n] < idx[d])
        <5>1. qid[n] \in Nat
          BY <4>1 DEF TypeOK, ObjType
        <5>2. idx[d] \in Nat
          BY QueuesType DEF TypeOK, SchedType
        <5>3. qid[n] = idx[d]
          BY <4>1, <4>3, <5>1, <5>2
        <5>4. n \in Fetchable(d, idx[d])
          BY <4>1, <5>3 DEF Fetchable, InQueue
        <5> QED BY <3>2, <5>3, <5>4 DEF TypeOK, SchedType
      <4> QED BY <4>2, <4>3
    <3>4. \A e \in Schedules \ {d} :
            idx'[e] = idx[e] /\ skipped'[e] = skipped[e]
      BY <3>1, <3>2 DEF TypeOK, SchedType
    <3> QED BY <2>1, <3>1, <3>3, <3>4
  <2>3. CASE ~(idx[d] < LastQueue)
    BY <1>4, <1>7, <2>1, <2>3 DEF FetchNone, TypeOK, SchedType
  <2> QED BY <2>2, <2>3
<1>8. ASSUME NEW d \in Schedules, NEW m \in Msg, Fetch(d, m) PROVE ScanInv'
  <2>1. \A n \in Msg : inProcess[n] => inProcess'[n]
    BY <1>8 DEF Fetch, TypeOK, ObjType
  <2> QED BY <1>4, <1>8, <2>1 DEF Fetch, TypeOK, SchedType, readerVars
<1>9. ASSUME NEW d \in Schedules, Write(d) PROVE ScanInv'
  BY <1>4, <1>9 DEF Write, TypeOK, SchedType, readerVars
<1>10. ASSUME NEW d \in Schedules, Finish(d) PROVE ScanInv'
  <2>1. CASE SWToControl(d)
    BY <1>4, <1>10, <2>1 DEF Finish, TypeOK, SchedType, readerVars
  <2>2. CASE ~SWToControl(d)
    BY <1>3, <1>10, <2>2 DEF Finish, readerVars
  <2> QED BY <2>1, <2>2
<1>11. CASE UNCHANGED scanVars
  BY <1>11
<1>12. ASSUME NEW d \in Schedules,
             \/ NameOwnPipe(d) \/ NameOtherPipe(d) \/ SetOtherDpId(d)
             \/ TouchMsg(d) \/ Listener(d)
      PROVE  ScanInv'
  BY <1>11, <1>12
  DEF NameOwnPipe, NameOtherPipe, SetOtherDpId, TouchMsg, Listener, ListenOpen,
      ListenRead, ListenScan, objVars, readerVars, schedVars
<1>13. CASE \/ \E d \in Schedules, i \in Queues : Clock(d, i)
            \/ \E m \in Msg : SwitchProcess(m)
            \/ UNCHANGED vars
  BY <1>11, <1>13 DEF Clock, Elapse, SetBack, SwitchProcess, vars, objVars, readerVars,
                      schedVars
<1> QED BY <1>1, <1>2, <1>5, <1>6, <1>7, <1>8, <1>9, <1>10, <1>12, <1>13
        DEF Next, Reader, ReaderGoesOn, Run

(* An unpaced queue leaves due, and enters skipped, only when the clock is *)
(* set back.                                                               *)
LEMMA SteadyStep ==
  ASSUME IInv, [Next]_vars
  PROVE  SteadyInv'
<1> USE DEF IInv, SteadyInv
<1> SUFFICES ASSUME setbacks' = 0, NEW e \in Schedules
             PROVE  /\ Unpaced \subseteq due'[e]
                    /\ skipped'[e] \cap Unpaced = {}
  BY DEF Unpaced
<1> DEFINE Steady == /\ Unpaced \subseteq due'[e]
                     /\ skipped'[e] \cap Unpaced = {}
<1>1. setbacks = 0 => Unpaced \subseteq due[e] /\ skipped[e] \cap Unpaced = {}
  OBVIOUS
<1>2. ASSUME UNCHANGED <<due, setbacks>>,
             skipped'[e] \in {skipped[e], {}}
      PROVE  Steady
  BY <1>1, <1>2
<1>3. ASSUME NEW d \in Schedules, NEW c, StartScan(d, c)
      PROVE  skipped'[e] \in {skipped[e], {}}
  BY <1>3 DEF StartScan, TypeOK, SchedType
<1>4. ASSUME NEW d \in Schedules, Top(d) PROVE Steady
  BY <1>2, <1>3, <1>4 DEF Top, extVars
<1>5. ASSUME NEW d \in Schedules, Clean(d) PROVE Steady
  BY <1>2, <1>3, <1>5 DEF Clean, extVars
<1>6. ASSUME NEW d \in Schedules, Finish(d) PROVE Steady
  BY <1>2, <1>3, <1>6 DEF Finish, extVars
<1>7. ASSUME NEW d \in Schedules, NEW i, LookedInto(d, i)
      PROVE  due'[e] \cap Unpaced = due[e] \cap Unpaced
  BY <1>7 DEF LookedInto, TypeOK, SchedType
<1>8. ASSUME NEW d \in Schedules, FetchNone(d) PROVE Steady
  <2>1. setbacks = 0
    BY <1>8 DEF FetchNone, extVars
  <2>2. CASE InTime(d, idx[d])
    <3>1. LookedInto(d, idx[d]) /\ skipped' = skipped
      BY <1>8, <2>2 DEF FetchNone
    <3> QED BY <1>1, <1>7, <2>1, <3>1
  <2>3. CASE ~InTime(d, idx[d])
    <3>1. due' = due /\ skipped' = [skipped EXCEPT ![d] = @ \cup {idx[d]}]
      BY <1>8, <2>3 DEF FetchNone
    <3>2. idx[d] \notin Unpaced
      BY <2>1, <2>3 DEF InTime
    <3>3. skipped'[e] \subseteq skipped[e] \cup {idx[d]}
      BY <3>1 DEF TypeOK, SchedType
    <3> QED BY <1>1, <2>1, <3>1, <3>2, <3>3
  <2> QED BY <2>2, <2>3
<1>9. ASSUME NEW d \in Schedules, NEW m \in Msg, Fetch(d, m) PROVE Steady
  <2>1. setbacks = 0 /\ skipped' = skipped /\ LookedInto(d, idx[d])
    BY <1>9 DEF Fetch, extVars
  <2> QED BY <1>1, <1>7, <2>1
<1>10. ASSUME NEW d \in Schedules, NEW i \in Queues, Clock(d, i) PROVE Steady
  <2>1. Elapse(d, i)
    BY <1>10 DEF Clock, SetBack, TypeOK, ExtType
  <2>2. setbacks = 0 /\ skipped' = skipped /\ due[e] \subseteq due'[e]
    BY <2>1 DEF Elapse, extVars, TypeOK, SchedType
  <2> QED BY <1>1, <2>2
<1>11. ASSUME NEW d \in Schedules, Reader(d) PROVE Steady
  BY <1>2, <1>11
  DEF Reader, Receive, ReaderGoesOn, NameOwnPipe, NameOtherPipe, SetOtherDpId,
      PutMsg, TouchMsg, schedVars, extVars
<1>12. ASSUME NEW d \in Schedules, Listener(d) \/ Write(d) PROVE Steady
  BY <1>2, <1>12
  DEF Listener, ListenOpen, ListenRead, ListenScan, Write, schedVars, extVars
<1>13. ASSUME (\E m \in Msg : SwitchProcess(m)) \/ UNCHANGED vars
       PROVE  Steady
  BY <1>2, <1>13 DEF SwitchProcess, vars, schedVars, extVars
<1> HIDE DEF Steady, IInv, SteadyInv
<1>14. ASSUME NEW d \in Schedules, Run(d) PROVE Steady
  BY <1>4, <1>5, <1>6, <1>8, <1>9, <1>12, <1>14 DEF Run
<1>15. Steady
  BY <1>10, <1>11, <1>12, <1>13, <1>14 DEF Next
<1> QED BY <1>15 DEF Steady

-----------------------------------------------------------------------------
(* The account of the credits.                                             *)

LEMMA InProcessFinite ==
  ASSUME NEW d
  PROVE  /\ InProcess(d) \in SUBSET Msg
         /\ IsFiniteSet(InProcess(d))
         /\ Cardinality(InProcess(d)) \in Nat
BY MessagesFinite DEF InProcess

(* Only the scheduler of a direction changes that direction's account.     *)
LEMMA CreditStep ==
  ASSUME IInv, [Next]_vars
  PROVE  CreditInv'
<1> USE DEF IInv, CreditInv, CreditBalance
<1> DEFINE Account(e) ==
      /\ credits[e] + cleaned[e] + Cardinality(InProcess(e))
           = MaxInProcess + InHand(e)
      /\ pc[e] \in {"fetch", "write", "finish"} => credits[e] > 0
      /\ pc[e] # "clean" => cleaned[e] = 0
      /\ credits[e] >= 0
<1>0. ASSUME NEW e \in Schedules \ {"CLIENT"}
      PROVE  /\ credits[e] \in Int /\ cleaned[e] \in Nat
             /\ MaxInProcess \in Nat /\ IntMax \in Nat /\ IntMax > MaxInProcess
             /\ ~SWToControl(e)
             /\ Account(e)
  BY ConstantsAssumption, SchedAssumption
  DEF TypeOK, SchedType, SWToControl
<1>1. ASSUME NEW e \in Schedules \ {"CLIENT"},
             credits'[e] = credits[e], cleaned'[e] = cleaned[e],
             pc'[e] = pc[e], InProcess(e)' = InProcess(e)
      PROVE  Account(e)'
  BY <1>0, <1>1 DEF InHand
<1>2. ASSUME NEW d \in Schedules, Reader(d),
             NEW e \in Schedules \ {"CLIENT"}
      PROVE  Account(e)'
  <2>1. UNCHANGED schedVars
    BY <1>2 DEF Reader, ReaderGoesOn, Receive, NameOwnPipe, NameOtherPipe,
                SetOtherDpId, PutMsg, TouchMsg
  <2>2. UNCHANGED inProcess
    BY <1>2 DEF Reader, ReaderGoesOn, Receive, NameOwnPipe, NameOtherPipe,
                SetOtherDpId, PutMsg, TouchMsg, objVars
  <2>3. \A m \in Msg : stage'[m] = stage[m] \/ ~inProcess[m]
    <3>1. ASSUME NEW m \in Msg, Receive(d, m)
          PROVE  \A n \in Msg : stage'[n] = stage[n] \/ ~inProcess[n]
      BY <3>1 DEF Receive, TypeOK, ObjType, FlagInv, Pushed
    <3>2. CASE PutMsg(d)
      <4>1. rmsg[d] \in Msg /\ stage[rmsg[d]] = "read"
        BY <3>2 DEF PutMsg, ReaderInv
      <4> QED BY <3>2, <4>1 DEF PutMsg, TypeOK, ObjType, FlagInv, Pushed
    <3>3. CASE \/ NameOwnPipe(d) \/ NameOtherPipe(d) \/ SetOtherDpId(d)
               \/ TouchMsg(d)
      BY <3>3 DEF NameOwnPipe, NameOtherPipe, SetOtherDpId, TouchMsg, objVars
    <3> QED BY <1>2, <3>1, <3>2, <3>3 DEF Reader, ReaderGoesOn
  <2>4. InProcess(e)' = InProcess(e)
    BY <2>2, <2>3 DEF InProcess
  <2> QED BY <1>1, <2>1, <2>4 DEF schedVars
<1>3. ASSUME NEW d \in Schedules, Run(d),
             NEW e \in Schedules \ {"CLIENT"}, e # d
      PROVE  Account(e)'
  <2>1. credits'[e] = credits[e] /\ cleaned'[e] = cleaned[e] /\ pc'[e] = pc[e]
    BY <1>3 DEF Run, Top, Clean, FetchNone, Fetch, Write, Finish, StartScan,
                TypeOK, SchedType
  <2>2. \A m \in Msg : Dir[m] = e => /\ stage'[m] = stage[m]
                                     /\ inProcess'[m] = inProcess[m]
    BY <1>3 DEF Run, Top, Clean, Done, FetchNone, Fetch, Fetchable, InQueue,
                Write, Finish, TypeOK, ObjType, objVars
  <2>3. InProcess(e)' = InProcess(e)
    BY <2>2 DEF InProcess
  <2> QED BY <1>1, <2>1, <2>3
<1>4. ASSUME NEW d \in Schedules \ {"CLIENT"}, Top(d) PROVE Account(d)'
  <2>1. InProcess(d)' = InProcess(d)
    BY <1>4 DEF Top, objVars, InProcess
  <2>2. pc[d] = "top" /\ credits'[d] = credits[d] /\ cleaned'[d] = 0
    BY <1>4 DEF Top, TypeOK, SchedType
  <2>3. \/ pc'[d] = "clean" \/ pc'[d] = "top"
        \/ pc'[d] = "fetch" /\ credits[d] > 0
    BY <1>4 DEF Top, StartScan, TypeOK, SchedType
  <2> QED BY <1>0, <2>1, <2>2, <2>3 DEF InHand
<1>5. ASSUME NEW d \in Schedules \ {"CLIENT"}, Clean(d) PROVE Account(d)'
  <2> DEFINE gone == Done(d, idx[d])
             num  == cleaned[d] + Cardinality(gone)
  <2>1. InProcess(d)' = InProcess(d) \ gone
    BY <1>5 DEF Clean, InProcess
  <2>2. gone \subseteq InProcess(d)
    BY DEF Done, InQueue, InProcess
  <2>3. /\ Cardinality(InProcess(d) \ gone)
             = Cardinality(InProcess(d)) - Cardinality(gone)
        /\ Cardinality(gone) \in Nat
        /\ Cardinality(gone) <= Cardinality(InProcess(d))
        /\ Cardinality(InProcess(d)) \in Nat
    <3>1. InProcess(d) \cap gone = gone
      BY <2>2
    <3>2. IsFiniteSet(InProcess(d)) /\ Cardinality(InProcess(d)) \in Nat
      BY InProcessFinite
    <3>3. Cardinality(gone) \in Nat
      BY DoneFinite
    <3> HIDE DEF gone
    <3>4. Cardinality(gone) <= Cardinality(InProcess(d))
      BY <2>2, <3>2, FS_Subset
    <3>5. Cardinality(InProcess(d) \ gone)
            = Cardinality(InProcess(d)) - Cardinality(InProcess(d) \cap gone)
      BY <3>2, FS_Difference
    <3> QED BY <3>1, <3>2, <3>3, <3>4, <3>5
  <2>4. pc[d] = "clean" /\ InHand(d) = 0
    BY <1>5 DEF Clean, InHand
  <2>5. CASE idx[d] < LastQueue
    <3>1. pc'[d] = pc[d] /\ credits'[d] = credits[d] /\ cleaned'[d] = num
      BY <1>5, <2>5 DEF Clean, TypeOK, SchedType
    <3> QED BY <1>0, <2>1, <2>3, <2>4, <3>1 DEF InHand
  <2>6. CASE ~(idx[d] < LastQueue)
    <3>1. Int32Plus(credits[d], num) = credits[d] + num
      BY <1>0, <2>3, <2>4 DEF Int32Plus
    <3>2. credits'[d] = credits[d] + num /\ cleaned'[d] = 0
      BY <1>5, <2>6, <3>1 DEF Clean, TypeOK, SchedType
    <3>3. pc'[d] = IF credits[d] + num > 0 THEN "fetch" ELSE "top"
      BY <1>5, <2>6, <3>1 DEF Clean, StartScan, TypeOK, SchedType
    <3> QED BY <1>0, <2>1, <2>3, <2>4, <3>2, <3>3 DEF InHand
  <2> QED BY <2>5, <2>6
<1>6. ASSUME NEW d \in Schedules \ {"CLIENT"}, FetchNone(d) PROVE Account(d)'
  <2>1. InProcess(d)' = InProcess(d)
    BY <1>6 DEF FetchNone, objVars, InProcess
  <2>2. /\ pc[d] = "fetch" /\ pc'[d] \in {"fetch", "top"}
        /\ credits'[d] = credits[d] /\ cleaned'[d] = cleaned[d]
    BY <1>6 DEF FetchNone, TypeOK, SchedType
  <2> QED BY <1>0, <2>1, <2>2 DEF InHand
<1>7. ASSUME NEW d \in Schedules \ {"CLIENT"}, NEW m \in Msg, Fetch(d, m)
      PROVE  Account(d)'
  <2>1. m \notin InProcess(d) /\ InProcess(d)' = InProcess(d) \cup {m}
    BY <1>7 DEF Fetch, Fetchable, InQueue, InProcess, TypeOK, ObjType
  <2>2. Cardinality(InProcess(d)') = Cardinality(InProcess(d)) + 1
    BY <2>1, InProcessFinite, FS_AddElement
  <2>3. /\ pc[d] = "fetch" /\ pc'[d] = "write"
        /\ credits'[d] = credits[d] /\ cleaned'[d] = cleaned[d]
    BY <1>7 DEF Fetch, TypeOK, SchedType
  <2>4. Cardinality(InProcess(d)) \in Nat
    BY InProcessFinite
  <2> QED BY <1>0, <2>2, <2>3, <2>4 DEF InHand
<1>8. ASSUME NEW d \in Schedules \ {"CLIENT"}, Write(d) PROVE Account(d)'
  <2>1. InProcess(d)' = InProcess(d)
    BY <1>8 DEF Write, InProcess
  <2>2. /\ pc[d] = "write" /\ pc'[d] = "finish"
        /\ credits'[d] = credits[d] /\ cleaned'[d] = cleaned[d]
    BY <1>8 DEF Write, TypeOK, SchedType
  <2> QED BY <1>0, <2>1, <2>2 DEF InHand
<1>9. ASSUME NEW d \in Schedules \ {"CLIENT"}, Finish(d) PROVE Account(d)'
  <2>1. InProcess(d)' = InProcess(d)
    BY <1>9 DEF Finish, InProcess
  <2>2. ~SWToControl(d)
    BY <1>0
  <2>3. /\ pc[d] = "finish" /\ credits'[d] = credits[d] - 1
        /\ cleaned'[d] = cleaned[d]
        /\ pc'[d] = IF credits[d] - 1 > 0 THEN "fetch" ELSE "top"
    BY <1>9, <2>2 DEF Finish, StartScan, TypeOK, SchedType
  <2>4. Cardinality(InProcess(d)) \in Nat
    BY InProcessFinite
  <2> QED BY <1>0, <2>1, <2>3, <2>4 DEF InHand
<1>10. ASSUME UNCHANGED <<stage, inProcess, pc, credits, cleaned>>,
              NEW e \in Schedules \ {"CLIENT"}
       PROVE  Account(e)'
  BY <1>1, <1>10 DEF InProcess
<1>11. ASSUME NEW e \in Schedules \ {"CLIENT"} PROVE Account(e)'
  <2>1. ASSUME NEW d \in Schedules, Run(d) PROVE Account(e)'
    <3>1. CASE d = e
      BY <1>4, <1>5, <1>6, <1>7, <1>8, <1>9, <2>1, <3>1 DEF Run
    <3>2. CASE d # e
      BY <1>3, <2>1, <3>2
    <3> QED BY <3>1, <3>2
  <2>2. ASSUME NEW d \in Schedules, Listener(d) PROVE Account(e)'
    BY <1>10, <2>2
    DEF Listener, ListenOpen, ListenRead, ListenScan, objVars, schedVars
  <2>3. CASE \/ \E d \in Schedules, i \in Queues : Clock(d, i)
             \/ \E m \in Msg : SwitchProcess(m)
             \/ UNCHANGED vars
    BY <1>10, <2>3 DEF Clock, Elapse, SetBack, SwitchProcess, vars, objVars, schedVars
  <2> QED BY <1>2, <2>1, <2>2, <2>3 DEF Next
<1> QED BY <1>11

-----------------------------------------------------------------------------
(* The theorems.                                                           *)

LEMMA InvStep == IInv /\ [Next]_vars => IInv'
BY TypeStep, ReaderStep, HandStep, FlagStep, OrderStep, CreditStep, ScanStep,
   SteadyStep
DEF IInv

(* The invariant of run, its readers and its listener, conjunct by         *)
(* conjunct in ScheduleInv.                                                *)
THEOREM Invariance == Spec => []IInv
BY InitInv, InvStep, PTL DEF Spec

(* The window of run is accounted for: its credits and the messages in     *)
(* process towards the switch add up to max_in_process's initial value.    *)
THEOREM CreditsBalance == Spec => []CreditBalance
<1>1. IInv => CreditBalance
  BY DEF IInv, CreditInv
<1> QED BY <1>1, Invariance, PTL

(* cleanFinishMsg deletes no message that was not handed to Writev.        *)
THEOREM NothingFreedUnsent == Spec => []SentBeforeFreed
<1>1. IInv => SentBeforeFreed
  <2> SUFFICES ASSUME IInv, NEW m \in Msg, stage[m] = "freed",
                      written[m] = "no"
               PROVE  FALSE
    BY DEF SentBeforeFreed
  <2>1. pc[Dir[m]] = "write" /\ cur[Dir[m]] = m
    BY DEF IInv, FlagInv
  <2>2. stage[m] = "queued"
    BY <2>1, ConstantsAssumption DEF IInv, HandInv
  <2> QED BY <2>2
<1> QED BY <1>1, Invariance, PTL

(* run takes no message while an unpaced queue above holds an older one    *)
(* that its scan did not pass over after the clock was set back.           *)
THEOREM PriorityIsStrict == Spec => StrictPriority
<1> DEFINE Rule == \A m \in Msg : inProcess'[m] /\ ~inProcess[m]
                    => /\ Urgent(Dir[m], qid[m]) \subseteq PassedOver(Dir[m])
                       /\ setbacks = 0 => Urgent(Dir[m], qid[m]) = {}
<1>1. IInv /\ [Next]_vars => [Rule]_vars
  <2> SUFFICES ASSUME IInv, Next PROVE Rule
    OBVIOUS
  <2>1. ASSUME NEW d \in Schedules, NEW m \in Msg, Fetch(d, m) PROVE Rule
    <3>1. /\ pc[d] = "fetch" /\ Dir[m] = d /\ qid[m] = idx[d]
          /\ inProcess' = [inProcess EXCEPT ![m] = TRUE]
      BY <2>1 DEF Fetch, Fetchable, InQueue
    <3>2. Urgent(d, idx[d]) \subseteq PassedOver(d)
      BY <3>1 DEF IInv, ScanInv
    <3>4. setbacks = 0 => Urgent(d, idx[d]) = {}
      <4> SUFFICES ASSUME setbacks = 0, NEW n \in Urgent(d, idx[d])
                   PROVE  FALSE
        OBVIOUS
      <4>1. qid[n] \in skipped[d]
        BY <3>2 DEF PassedOver
      <4>2. qid[n] \in Nat /\ qid[n] < FirstPaced
        BY DEF Urgent, IInv, TypeOK, ObjType
      <4>3. qid[n] \in Unpaced
        BY <4>2, QueueAssumption DEF Unpaced
      <4> QED BY <4>1, <4>3 DEF IInv, SteadyInv
    <3>3. \A n \in Msg \ {m} : inProcess'[n] = inProcess[n]
      BY <3>1 DEF IInv, TypeOK, ObjType
    <3> QED BY <3>1, <3>2, <3>3, <3>4
  <2>2. CASE UNCHANGED inProcess
    BY <2>2
  <2>3. ASSUME NEW d \in Schedules, Run(d) PROVE Rule
    BY <2>1, <2>2, <2>3
    DEF Run, Top, Clean, FetchNone, Write, Finish, objVars
  <2>4. ASSUME NEW d \in Schedules, Reader(d) \/ Listener(d) PROVE Rule
    BY <2>2, <2>4
    DEF Reader, ReaderGoesOn, Receive, NameOwnPipe, NameOtherPipe,
        SetOtherDpId, PutMsg, TouchMsg, Listener, ListenOpen, ListenRead,
        ListenScan, objVars
  <2>5. CASE \/ \E d \in Schedules, i \in Queues : Clock(d, i)
             \/ \E m \in Msg : SwitchProcess(m)
    BY <2>2, <2>5 DEF Clock, Elapse, SetBack, SwitchProcess, objVars
  <2> QED BY <2>3, <2>4, <2>5 DEF Next
<1> QED BY <1>1, Invariance, PTL DEF Spec, StrictPriority
-----------------------------------------------------------------------------
(* Towards the controller: the account is exact as long as no addition can *)
(* have wrapped.                                                           *)

WindowInv(d) ==
  /\ cleaned[d] <= Cardinality(Cleaned(d))
  /\ pc[d] # "clean" => cleaned[d] = 0
  /\ Cardinality(Cleaned(d)) <= IntMax - MaxInProcess
       => credits[d] + cleaned[d] = MaxInProcess + Cardinality(Cleaned(d))
WrapInv == \A d \in Schedules : SWToControl(d) => WindowInv(d)

LEMMA CleanedFinite ==
  ASSUME NEW d
  PROVE  IsFiniteSet(Cleaned(d)) /\ Cardinality(Cleaned(d)) \in Nat
BY MessagesFinite DEF Cleaned

LEMMA InitWrap == Init => WrapInv
<1> SUFFICES ASSUME Init, NEW d \in Schedules PROVE WindowInv(d)
  BY DEF WrapInv
<1>1. \A m \in Msg : stage[m] # "freed"
  BY DEF Init
<1>2. Cleaned(d) = {}
  BY <1>1 DEF Cleaned
<1>3. Cardinality(Cleaned(d)) = 0
  BY <1>2, FS_EmptySet
<1>4. credits[d] = MaxInProcess /\ cleaned[d] = 0
  BY DEF Init
<1> QED BY <1>3, <1>4, SchedAssumption DEF WindowInv

(* Only cleanFinishMsg deletes, and only what was still in its queue.      *)
LEMMA CleanedStep ==
  ASSUME IInv, [Next]_vars, NEW e \in Schedules
  PROVE  \/ Cleaned(e)' = Cleaned(e)
         \/ Clean(e)
<1> USE DEF IInv
<1>1. ASSUME \A m \in Msg : (stage'[m] = "freed") <=> (stage[m] = "freed")
      PROVE  Cleaned(e)' = Cleaned(e)
  BY <1>1 DEF Cleaned
<1>2. ASSUME NEW d \in Schedules, NEW m \in Msg, Receive(d, m)
      PROVE  Cleaned(e)' = Cleaned(e)
  BY <1>1, <1>2 DEF Receive, TypeOK, ObjType
<1>3. ASSUME NEW d \in Schedules, PutMsg(d) PROVE Cleaned(e)' = Cleaned(e)
  <2>1. rmsg[d] \in Msg /\ stage[rmsg[d]] = "read"
    BY <1>3 DEF PutMsg, ReaderInv
  <2> QED BY <1>1, <1>3, <2>1 DEF PutMsg, TypeOK, ObjType
<1>4. ASSUME NEW d \in Schedules, Clean(d), d # e
      PROVE  Cleaned(e)' = Cleaned(e)
  <2>1. \A m \in Done(d, idx[d]) : Dir[m] = d
    BY DEF Done, InQueue
  <2>2. \A m \in Msg : Dir[m] = e => stage'[m] = stage[m]
    BY <1>4, <2>1 DEF Clean
  <2> QED BY <2>2 DEF Cleaned
<1>5. ASSUME UNCHANGED stage PROVE Cleaned(e)' = Cleaned(e)
  BY <1>1, <1>5
<1>6. ASSUME NEW d \in Schedules,
             \/ NameOwnPipe(d) \/ NameOtherPipe(d) \/ SetOtherDpId(d)
             \/ TouchMsg(d) \/ Listener(d)
      PROVE  Cleaned(e)' = Cleaned(e)
  BY <1>5, <1>6
  DEF NameOwnPipe, NameOtherPipe, SetOtherDpId, TouchMsg, Listener, ListenOpen,
      ListenRead, ListenScan, objVars
<1>7. ASSUME NEW d \in Schedules, Run(d)
      PROVE  Cleaned(e)' = Cleaned(e) \/ Clean(e)
  BY <1>4, <1>5, <1>7 DEF Run, Top, FetchNone, Fetch, Write, Finish, objVars
<1>8. CASE \/ \E d \in Schedules, i \in Queues : Clock(d, i)
           \/ \E m \in Msg : SwitchProcess(m)
           \/ UNCHANGED vars
  BY <1>5, <1>8 DEF Clock, Elapse, SetBack, SwitchProcess, vars, objVars
<1> QED BY <1>2, <1>3, <1>6, <1>7, <1>8 DEF Next, Reader, ReaderGoesOn

LEMMA WrapStep ==
  ASSUME IInv, WrapInv, [Next]_vars
  PROVE  WrapInv'
<1> SUFFICES ASSUME NEW e \in Schedules, SWToControl(e) PROVE WindowInv(e)'
  BY DEF WrapInv
<1>1. /\ WindowInv(e) /\ Cardinality(Cleaned(e)) \in Nat
      /\ credits[e] \in Int /\ cleaned[e] \in Nat
      /\ MaxInProcess \in Nat /\ IntMax \in Nat
  BY CleanedFinite, SchedAssumption DEF WrapInv, IInv, TypeOK, SchedType
<1>2. ASSUME Cleaned(e)' = Cleaned(e), credits'[e] = credits[e],
             \/ cleaned'[e] = cleaned[e] /\ pc'[e] = pc[e]
             \/ cleaned'[e] = 0 /\ pc[e] # "clean"
             \/ cleaned'[e] = cleaned[e] /\ pc[e] # "clean"
      PROVE  WindowInv(e)'
  BY <1>1, <1>2 DEF WindowInv
<1>3. ASSUME Clean(e) PROVE WindowInv(e)'
  <2> DEFINE gone == Done(e, idx[e])
             num  == cleaned[e] + Cardinality(gone)
  <2>1. gone \subseteq Msg /\ \A m \in gone : stage[m] = "queued" /\ Dir[m] = e
    BY DEF Done, InQueue
  <2>2. \A m \in Msg : stage'[m] = IF m \in gone THEN "freed" ELSE stage[m]
    BY <1>3 DEF Clean
  <2>3. Cleaned(e)' = Cleaned(e) \cup gone /\ Cleaned(e) \cap gone = {}
    BY <2>1, <2>2 DEF Cleaned
  <2>4. /\ Cardinality(Cleaned(e)') = Cardinality(Cleaned(e)) + Cardinality(gone)
        /\ Cardinality(gone) \in Nat
    <3>1. IsFiniteSet(gone) /\ Cardinality(gone) \in Nat
      BY <2>1, MessagesFinite
    <3>2. IsFiniteSet(Cleaned(e))
      BY CleanedFinite
    <3> HIDE DEF gone
    <3>3. Cardinality(Cleaned(e) \cup gone)
            = Cardinality(Cleaned(e)) + Cardinality(gone)
              - Cardinality(Cleaned(e) \cap gone)
      BY <3>1, <3>2, FS_Union
    <3>4. Cardinality(Cleaned(e) \cap gone) = 0
      BY <2>3, FS_EmptySet
    <3>5. Cardinality(Cleaned(e)) \in Nat
      BY CleanedFinite
    <3> QED BY <2>3, <3>1, <3>3, <3>4, <3>5
  <2>5. CASE idx[e] < LastQueue
    <3>1. pc'[e] = "clean" /\ credits'[e] = credits[e] /\ cleaned'[e] = num
      BY <1>3, <2>5 DEF Clean, IInv, TypeOK, SchedType
    <3> QED BY <1>1, <2>4, <3>1 DEF WindowInv
  <2>6. CASE ~(idx[e] < LastQueue)
    <3>1. credits'[e] = Int32Plus(credits[e], num) /\ cleaned'[e] = 0
      BY <1>3, <2>6 DEF Clean, IInv, TypeOK, SchedType
    <3> HIDE DEF gone
    <3> QED BY <1>1, <2>4, <3>1 DEF WindowInv, Int32Plus
  <2> QED BY <2>5, <2>6
<1>4. ASSUME ~Clean(e) PROVE WindowInv(e)'
  <2>1. Cleaned(e)' = Cleaned(e)
    BY <1>4, CleanedStep
  <2>2. ASSUME NEW d \in Schedules, Run(d), d # e PROVE WindowInv(e)'
    <3>1. credits'[e] = credits[e] /\ cleaned'[e] = cleaned[e] /\ pc'[e] = pc[e]
      BY <2>2 DEF Run, Top, Clean, FetchNone, Fetch, Write, Finish, StartScan,
                  IInv, TypeOK, SchedType
    <3> QED BY <1>2, <2>1, <3>1
  <2>3. CASE Top(e)
    <3>1. pc[e] = "top" /\ credits'[e] = credits[e] /\ cleaned'[e] = 0
      BY <2>3 DEF Top, IInv, TypeOK, SchedType
    <3> QED BY <1>2, <2>1, <3>1
  <2>4. CASE FetchNone(e) \/ Write(e) \/ (\E m \in Msg : Fetch(e, m))
    <3>1. pc[e] # "clean" /\ credits'[e] = credits[e] /\ cleaned'[e] = cleaned[e]
      BY <2>4 DEF FetchNone, Write, Fetch, IInv, TypeOK, SchedType
    <3>2. pc'[e] # "clean"
      BY <2>4 DEF FetchNone, Write, Fetch, IInv, TypeOK, SchedType
    <3> QED BY <1>2, <2>1, <3>1, <3>2
  <2>5. CASE Finish(e)
    <3>1. pc[e] # "clean" /\ credits'[e] = credits[e] /\ cleaned'[e] = cleaned[e]
      BY <2>5 DEF Finish, IInv, TypeOK, SchedType
    <3> QED BY <1>2, <2>1, <3>1
  <2>6. CASE UNCHANGED <<pc, credits, cleaned>>
    BY <1>2, <2>1, <2>6
  <2>7. ASSUME NEW d \in Schedules, Reader(d) \/ Listener(d)
        PROVE  WindowInv(e)'
    BY <2>6, <2>7
    DEF Reader, ReaderGoesOn, Receive, NameOwnPipe, NameOtherPipe,
        SetOtherDpId, PutMsg, TouchMsg, Listener, ListenOpen, ListenRead,
        ListenScan, schedVars
  <2>8. CASE \/ \E d \in Schedules, i \in Queues : Clock(d, i)
             \/ \E m \in Msg : SwitchProcess(m)
             \/ UNCHANGED vars
    BY <2>6, <2>8 DEF Clock, Elapse, SetBack, SwitchProcess, vars, schedVars
  <2>9. ASSUME NEW d \in Schedules, Run(d) PROVE WindowInv(e)'
    BY <1>4, <2>2, <2>3, <2>4, <2>5, <2>9 DEF Run
  <2> QED BY <2>7, <2>8, <2>9 DEF Next
<1> QED BY <1>3, <1>4

(* The direction towards the controller never lacks credits before its     *)
(* counter can have wrapped.                                               *)
THEOREM NeverThrottledUntilWrap == Spec => []UnthrottledUntilWrap
<1>1. IInv /\ WrapInv => UnthrottledUntilWrap
  <2> SUFFICES ASSUME IInv, WrapInv, NEW d \in Schedules, SWToControl(d),
                      credits[d] <= 0,
                      ~(Cardinality(Cleaned(d)) > IntMax - MaxInProcess)
               PROVE  FALSE
    BY DEF UnthrottledUntilWrap
  <2>1. /\ WindowInv(d) /\ Cardinality(Cleaned(d)) \in Nat
        /\ credits[d] \in Int /\ cleaned[d] \in Nat
    BY CleanedFinite DEF WrapInv, IInv, TypeOK, SchedType
  <2> QED BY <2>1, SchedAssumption DEF WindowInv
<1>2. Spec => []WrapInv
  BY InitWrap, WrapStep, Invariance, PTL DEF Spec
<1> QED BY <1>1, <1>2, Invariance, PTL

-----------------------------------------------------------------------------
(***************************************************************************)
(* Schedule implements Relay: with its flags, stamps and credits read as   *)
(* the states, turns and window of the abstract specification, every step  *)
(* of a thread is a step of Relay or invisible to it.                      *)
(***************************************************************************)

(* lessPriority never prefers a later message of a queue: putMessage has   *)
(* made all priorities equal, and no max_wait_time is below 0.             *)
LEMMA LessPriorityNever ==
  ASSUME NEW m \in Msg, NEW n \in Msg
  PROVE  ~LessPriority(m, n)
BY DEF LessPriority, MaxWaitTime, Priority

(* So fetchMsg takes the oldest message.                                   *)
LEMMA ChosenIsOldest ==
  ASSUME NEW S \in SUBSET Msg, NEW m \in S, Chosen(m, S), NEW n \in S \ {m}
  PROVE  ~(stamp[n] < stamp[m])
BY LessPriorityNever DEF Chosen

(* While run has a credit, the window has room.                            *)
LEMMA WindowHasRoom ==
  ASSUME IInv, NEW d \in Schedules \ {"CLIENT"}, pc[d] = "fetch"
  PROVE  Cardinality(InProcess(d)) < MaxInProcess
<1>1. /\ credits[d] + cleaned[d] + Cardinality(InProcess(d))
           = MaxInProcess + InHand(d)
      /\ credits[d] > 0 /\ cleaned[d] = 0
  BY DEF IInv, CreditInv, CreditBalance
<1>2. InHand(d) = 0
  BY DEF InHand
<1>3. credits[d] \in Int /\ Cardinality(InProcess(d)) \in Nat
  BY InProcessFinite DEF IInv, TypeOK, SchedType
<1> QED BY <1>1, <1>2, <1>3, SchedAssumption

(* The abstract state of a message, read off its flags.                    *)
LEMMA RelayStateIs ==
  ASSUME IInv, NEW m \in Msg
  PROVE  /\ RelayState[m] = "new" <=> stage[m] \in {"absent", "read"}
         /\ RelayState[m] = "waiting" <=> stage[m] = "queued" /\ ~inProcess[m]
         /\ RelayState[m] = "outstanding"
              <=> stage[m] = "queued" /\ inProcess[m]
         /\ RelayState[m] = "done" <=> stage[m] = "freed"
<1>1. stage[m] \in Stages
  BY DEF IInv, TypeOK, ObjType
<1> QED BY <1>1 DEF RelayState, Stages

(* Relay cannot see a step that leaves stages, stamps and marks alone.     *)
LEMMA Invisible ==
  ASSUME UNCHANGED <<stage, qid, stamp, inProcess, puts>>
  PROVE  UNCHANGED Promise!vars
BY DEF Promise!vars, RelayState, RelayLane

LEMMA ReceiveInvisible ==
  ASSUME IInv, NEW d \in Schedules, NEW m \in Msg, Receive(d, m)
  PROVE  UNCHANGED Promise!vars
<1>1. /\ stage[m] = "absent" /\ stage' = [stage EXCEPT ![m] = "read"]
      /\ \A n \in Msg \ {m} : qid'[n] = qid[n]
      /\ UNCHANGED <<stamp, inProcess, puts>>
  BY DEF Receive, IInv, TypeOK, ObjType
<1>2. stage \in [Msg -> Stages]
  BY DEF IInv, TypeOK, ObjType
<1>3. RelayState' = RelayState
  <2>1. ASSUME NEW n \in Msg PROVE RelayState'[n] = RelayState[n]
    <3>1. CASE n = m
      BY <1>1, <1>2, <3>1 DEF RelayState
    <3>2. CASE n # m
      BY <1>1, <1>2, <3>2 DEF RelayState
    <3> QED BY <3>1, <3>2
  <2> QED BY <2>1 DEF RelayState
<1>4. RelayLane' = RelayLane
  BY <1>1, <1>2 DEF RelayLane
<1> QED BY <1>1, <1>3, <1>4 DEF Promise!vars

LEMMA PutAccepts ==
  ASSUME IInv, NEW d \in Schedules, PutMsg(d)
  PROVE  Promise!Next \/ UNCHANGED Promise!vars
<1> DEFINE m == rmsg[d]
<1>1. m \in Msg /\ Dir[m] = d /\ stage[m] = "read" /\ ~inProcess[m]
  BY DEF PutMsg, IInv, ReaderInv, FlagInv, Pushed
<1>2. stage \in [Msg -> Stages]
  BY DEF IInv, TypeOK, ObjType
<1>3. CASE qid[m] \notin Queues
  BY <1>3, Invisible DEF PutMsg
<1>4. CASE qid[m] \in Queues
  <2>1. /\ stage' = [stage EXCEPT ![m] = "queued"]
        /\ stamp' = [stamp EXCEPT ![m] = puts[d] + 1]
        /\ puts' = [puts EXCEPT ![d] = @ + 1]
        /\ UNCHANGED <<qid, inProcess>>
    BY <1>4 DEF PutMsg
  <2> HIDE DEF m
  <2>2. RelayState[m] = "new"
    BY <1>1, RelayStateIs
  <2>3. RelayState' = [RelayState EXCEPT ![m] = "waiting"]
    <3>1. RelayState'[m] = "waiting"
      BY <1>1, <1>2, <2>1 DEF RelayState
    <3>2. \A n \in Msg \ {m} : RelayState'[n] = RelayState[n]
      BY <1>2, <2>1 DEF RelayState
    <3> QED BY <3>1, <3>2 DEF RelayState
  <2>4. RelayLane' = [RelayLane EXCEPT ![m] = qid[m]]
    BY <1>1, <1>2, <2>1 DEF RelayLane
  <2>5. Promise!Accept(m, qid[m])
    BY <1>1, <2>1, <2>2, <2>3, <2>4 DEF Promise!Accept
  <2> QED BY <1>1, <1>4, <2>5 DEF Promise!Next
<1> QED BY <1>3, <1>4

LEMMA FetchSends ==
  ASSUME IInv, NEW d \in Schedules, NEW m \in Msg, Fetch(d, m)
  PROVE  Promise!Next
<1>1. /\ Dir[m] = d /\ stage[m] = "queued" /\ ~inProcess[m]
      /\ qid[m] = idx[d] /\ pc[d] = "fetch"
      /\ inProcess' = [inProcess EXCEPT ![m] = TRUE]
      /\ UNCHANGED <<stage, qid, stamp, puts>>
  BY DEF Fetch, Fetchable, InQueue, readerVars
<1>2. RelayState[m] = "waiting"
  BY <1>1, RelayStateIs
<1>3. ASSUME NEW n \in Promise!In("waiting", d) \ {m},
             RelayLane[n] = RelayLane[m]
      PROVE  stamp[m] < stamp[n]
  <2>1. n \in Msg /\ Dir[n] = d /\ stage[n] = "queued" /\ ~inProcess[n]
    BY RelayStateIs DEF Promise!In
  <2>2. qid[n] = qid[m]
    BY <1>1, <1>3, <2>1 DEF RelayLane
  <2>3. n \in Fetchable(d, idx[d]) \ {m} /\ m \in Fetchable(d, idx[d])
    BY <1>1, <1>3, <2>1, <2>2 DEF Fetchable, InQueue
  <2>4. ~(stamp[n] < stamp[m])
    <3>1. Fetchable(d, idx[d]) \in SUBSET Msg
      BY DEF Fetchable, InQueue
    <3> QED BY <2>3, <3>1, ChosenIsOldest DEF Fetch
  <2>5. stamp[n] # stamp[m]
    BY <1>1, <1>3, <2>1 DEF IInv, OrderInv, Pushed
  <2>6. stamp[n] \in Nat /\ stamp[m] \in Nat
    BY <2>1 DEF IInv, TypeOK, ObjType
  <2> QED BY <2>4, <2>5, <2>6
<1>4. d \in Schedules \ {"CLIENT"}
        => Cardinality(Promise!In("outstanding", d)) < MaxInProcess
  <2>1. Promise!In("outstanding", d) = InProcess(d)
    BY RelayStateIs DEF Promise!In, InProcess
  <2> QED BY <1>1, <2>1, WindowHasRoom
<1>5. RelayState' = [RelayState EXCEPT ![m] = "outstanding"]
  <2>1. inProcess \in [Msg -> BOOLEAN] /\ stage \in [Msg -> Stages]
    BY DEF IInv, TypeOK, ObjType
  <2> QED BY <1>1, <2>1 DEF RelayState, Stages
<1>6. RelayLane' = RelayLane
  BY <1>1 DEF RelayLane
<1>7. \A S : Promise!Cardinality(S) = Cardinality(S)
  BY DEF Promise!Cardinality, Cardinality
<1>8. Promise!Send(m)
  BY <1>1, <1>2, <1>3, <1>4, <1>5, <1>6, <1>7 DEF Promise!Send
<1> QED BY <1>8 DEF Promise!Next

LEMMA CleanCompletes ==
  ASSUME IInv, NEW d \in Schedules, Clean(d)
  PROVE  Promise!Next
<1> DEFINE gone == Done(d, idx[d])
<1>1. gone \in SUBSET Msg
  BY DoneFinite
<1>2. \A m \in gone : stage[m] = "queued" /\ inProcess[m]
  BY DEF Done, InQueue
<1>3. /\ stage' = [m \in Msg |-> IF m \in gone THEN "freed" ELSE stage[m]]
      /\ UNCHANGED <<qid, stamp, inProcess, puts>>
  BY DEF Clean, readerVars
<1> HIDE DEF gone
<1>4. \A m \in gone : RelayState[m] = "outstanding"
  BY <1>1, <1>2, RelayStateIs
<1>5. RelayState' = [m \in Msg |-> IF m \in gone THEN "done" ELSE RelayState[m]]
  <2>1. \A m \in gone : RelayState'[m] = "done"
    BY <1>1, <1>3 DEF RelayState
  <2>2. \A m \in Msg \ gone : RelayState'[m] = RelayState[m]
    BY <1>3 DEF RelayState
  <2> QED BY <2>1, <2>2 DEF RelayState
<1>6. RelayLane' = RelayLane
  BY <1>1, <1>2, <1>3 DEF RelayLane
<1>7. Promise!Complete(gone)
  BY <1>3, <1>4, <1>5, <1>6 DEF Promise!Complete
<1> QED BY <1>1, <1>7 DEF Promise!Next

(* Through both schedules nothing is lost, duplicated or reordered within  *)
(* a queue, and at most MaxInProcess messages are in process towards the   *)
(* switch: every behaviour of Schedule is one of Relay.                    *)
THEOREM Refinement == Spec => ImplementsRelay
<1>1. Init => Promise!Init
  BY DEF Init, Promise!Init, RelayState, RelayLane
<1>2. IInv /\ [Next]_vars => [Promise!Next]_(Promise!vars)
  <2> SUFFICES ASSUME IInv, [Next]_vars
               PROVE  Promise!Next \/ UNCHANGED Promise!vars
    OBVIOUS
  <2>1. ASSUME NEW d \in Schedules, Reader(d)
        PROVE  Promise!Next \/ UNCHANGED Promise!vars
    <3>1. CASE \/ NameOwnPipe(d) \/ NameOtherPipe(d) \/ SetOtherDpId(d)
               \/ TouchMsg(d)
      BY <3>1, Invisible
      DEF NameOwnPipe, NameOtherPipe, SetOtherDpId, TouchMsg, objVars
    <3> QED BY <2>1, <3>1, ReceiveInvisible, PutAccepts
            DEF Reader, ReaderGoesOn
  <2>2. ASSUME NEW d \in Schedules, Run(d)
        PROVE  Promise!Next \/ UNCHANGED Promise!vars
    <3>1. CASE Top(d) \/ FetchNone(d) \/ Write(d) \/ Finish(d)
      BY <3>1, Invisible DEF Top, FetchNone, Write, Finish, objVars, readerVars
    <3> QED BY <2>2, <3>1, FetchSends, CleanCompletes DEF Run
  <2>3. ASSUME NEW d \in Schedules, Listener(d)
        PROVE  Promise!Next \/ UNCHANGED Promise!vars
    BY <2>3, Invisible
    DEF Listener, ListenOpen, ListenRead, ListenScan, objVars, readerVars
  <2>4. CASE \/ \E d \in Schedules, i \in Queues : Clock(d, i)
             \/ \E m \in Msg : SwitchProcess(m)
             \/ UNCHANGED vars
    BY <2>4, Invisible DEF Clock, Elapse, SetBack, SwitchProcess, vars, objVars, readerVars
  <2> QED BY <2>1, <2>2, <2>3, <2>4 DEF Next
<1> QED BY <1>1, <1>2, Invariance, PTL DEF Spec, ImplementsRelay, Promise!Spec

-----------------------------------------------------------------------------
(* Responses: what the reports of the switch finish, and how much of the  *)
(* window its backlog can take.                                            *)

(* markFinished finishes one candidate at most: stamps tell them apart.    *)
LEMMA MarksOne ==
  ASSUME IInv, NEW d, NEW i, NEW id, MarkFirst(Awaiting(d, i, id))
  PROVE  /\ \A m \in Msg : finished[m] => finished'[m]
         /\ \A m \in Msg : finished'[m] /\ ~finished[m]
                             => m \in Awaiting(d, i, id)
         /\ \A m, n \in Msg :
              finished'[m] /\ ~finished[m] /\ finished'[n] /\ ~finished[n]
                => m = n
<1> DEFINE S == Awaiting(d, i, id)
           First(m) == m \in S /\ \A n \in S : stamp[m] <= stamp[n]
<1>1. \A m \in Msg : finished'[m] = (finished[m] \/ First(m))
  BY Zenon DEF MarkFirst
<1>2. \A m \in S : m \in Msg /\ Pushed(m) /\ Dir[m] = d
  BY DEF Awaiting, InQueue, Pushed
<1>3. ASSUME NEW m \in Msg, NEW n \in Msg, First(m), First(n) PROVE m = n
  <2>1. stamp[m] = stamp[n]
    BY <1>3 DEF IInv, TypeOK, ObjType
  <2> QED BY <1>2, <1>3, <2>1 DEF IInv, OrderInv
<1> QED BY <1>1, <1>3, Zenon

(* A message once made keeps its identity and its flags.                   *)
LEMMA MessagesGrow ==
  ASSUME IInv, [Next]_vars, NEW m \in Msg, stage[m] # "absent"
  PROVE  /\ stage'[m] # "absent" /\ identity'[m] = identity[m]
         /\ inProcess[m] => inProcess'[m]
<1> USE DEF IInv, TypeOK, ObjType
<1>1. ASSUME NEW d \in Schedules, NEW n \in Msg, Receive(d, n)
      PROVE  /\ stage'[m] # "absent" /\ identity'[m] = identity[m]
             /\ inProcess'[m] = inProcess[m]
  BY <1>1 DEF Receive
<1>2. ASSUME NEW d \in Schedules, ReaderGoesOn(d)
      PROVE  /\ stage'[m] # "absent" /\ UNCHANGED <<identity, inProcess>>
  BY <1>2 DEF ReaderGoesOn, NameOwnPipe, NameOtherPipe, SetOtherDpId, PutMsg,
              TouchMsg, objVars
<1>3. ASSUME NEW d \in Schedules, Run(d)
      PROVE  /\ stage'[m] # "absent" /\ UNCHANGED identity
             /\ inProcess[m] => inProcess'[m]
  BY <1>3 DEF Run, Top, Clean, FetchNone, Fetch, Write, Finish, objVars
<1>4. CASE \/ \E d \in Schedules : Listener(d)
           \/ \E d \in Schedules, i \in Queues : Clock(d, i)
           \/ \E n \in Msg : SwitchProcess(n)
           \/ UNCHANGED vars
  BY <1>4 DEF Listener, ListenOpen, ListenRead, ListenScan, Clock, Elapse, SetBack,
              SwitchProcess, vars, objVars
<1> QED BY <1>1, <1>2, <1>3, <1>4 DEF Next, Reader

(* Three things finish a message: a STATS_REPLY, a report read from the    *)
(* FIFO, and run, if the message needs no time.                            *)
FinishedByReply(m) ==
  \E d \in Schedules, r \in Msg :
    /\ Receive(d, r) /\ Kind[r] = "STATS_REPLY"
    /\ m \in Awaiting(Other(d), MULTI_PART_REQUEST_QUEUE_ID, Ident[r])
FinishedByReport(m) ==
  \E d \in Schedules : ListenScan(d) /\ m \in Awaiting(d, lidx[d], lid[d])
FinishedByRun(m) ==
  \E d \in Schedules : Finish(d) /\ m = cur[d] /\ NeedNoTime(m)

LEMMA WhatFinishes ==
  ASSUME IInv, [Next]_vars, NEW m \in Msg
  PROVE  /\ finished[m] => finished'[m]
         /\ finished'[m] /\ ~finished[m]
              => FinishedByReply(m) \/ FinishedByReport(m) \/ FinishedByRun(m)
<1>1. ASSUME NEW d \in Schedules, NEW r \in Msg, Receive(d, r)
      PROVE  /\ finished[m] => finished'[m]
             /\ finished'[m] /\ ~finished[m] => FinishedByReply(m)
  <2>1. CASE Kind[r] = "STATS_REPLY"
    <3>1. MarkFirst(Awaiting(Other(d), MULTI_PART_REQUEST_QUEUE_ID, Ident[r]))
      BY <1>1, <2>1 DEF Receive
    <3> QED BY <1>1, <2>1, <3>1, MarksOne DEF FinishedByReply
  <2>2. CASE Kind[r] # "STATS_REPLY"
    <3>1. finished' = finished
      BY <1>1, <2>2 DEF Receive
    <3> QED BY <3>1
  <2> QED BY <2>1, <2>2
<1>2. ASSUME NEW d \in Schedules, ListenScan(d)
      PROVE  /\ finished[m] => finished'[m]
             /\ finished'[m] /\ ~finished[m] => FinishedByReport(m)
  <2>1. MarkFirst(Awaiting(d, lidx[d], lid[d]))
    BY <1>2 DEF ListenScan
  <2> QED BY <1>2, <2>1, MarksOne DEF FinishedByReport
<1>3. ASSUME NEW d \in Schedules, Finish(d)
      PROVE  /\ finished[m] => finished'[m]
             /\ finished'[m] /\ ~finished[m] => FinishedByRun(m)
  <2>1. finished' = [finished EXCEPT ![cur[d]] = @ \/ NeedNoTime(cur[d])]
    BY <1>3 DEF Finish
  <2>2. finished \in [Msg -> BOOLEAN]
    BY DEF IInv, TypeOK, ObjType
  <2>3. CASE m = cur[d]
    <3>1. finished'[m] = (finished[m] \/ NeedNoTime(m))
      BY <2>1, <2>2, <2>3, Zenon
    <3> QED BY <1>3, <2>3, <3>1 DEF FinishedByRun
  <2>4. CASE m # cur[d]
    BY <2>1, <2>2, <2>4
  <2> QED BY <2>3, <2>4
<1>4. CASE UNCHANGED finished
  BY <1>4
<1>5. ASSUME NEW d \in Schedules, ReaderGoesOn(d) PROVE UNCHANGED finished
  BY <1>5 DEF ReaderGoesOn, NameOwnPipe, NameOtherPipe, SetOtherDpId, PutMsg,
              TouchMsg, objVars
<1>6. ASSUME NEW d \in Schedules, Run(d), ~Finish(d) PROVE UNCHANGED finished
  BY <1>6 DEF Run, Top, Clean, FetchNone, Fetch, Write, objVars
<1>7. ASSUME NEW d \in Schedules, ListenOpen(d) \/ ListenRead(d)
      PROVE  UNCHANGED finished
  BY <1>7 DEF ListenOpen, ListenRead, objVars
<1>8. CASE \/ \E d \in Schedules, i \in Queues : Clock(d, i)
           \/ \E n \in Msg : SwitchProcess(n)
           \/ UNCHANGED vars
  BY <1>4, <1>8 DEF Clock, Elapse, SetBack, SwitchProcess, vars, objVars
<1> QED BY <1>1, <1>2, <1>3, <1>4, <1>5, <1>6, <1>7, <1>8
        DEF Next, Reader, Listener

-----------------------------------------------------------------------------
(* Where identities come from.                                             *)

LEMMA IdentityInit == Init => IdentityInv
<1> SUFFICES ASSUME Init PROVE IdentityInv
  OBVIOUS
<1>1. \A m \in Msg : stage[m] = "absent" /\ ~finished[m]
  BY DEF Init
<1>2. pipe = <<>> /\ \A d \in Schedules : lpc[d] = "off"
  BY DEF Init
<1> QED BY <1>1, <1>2 DEF IdentityInv

(* A report that was made stays made. *)
LEMMA ReportedGrows ==
  ASSUME IInv, [Next]_vars
  PROVE  processed \ lost \subseteq (processed \ lost)'
<1>1. ASSUME NEW m \in Msg, SwitchProcess(m)
      PROVE  processed \ lost \subseteq (processed \ lost)'
  BY <1>1 DEF SwitchProcess
<1>2. ASSUME UNCHANGED <<processed, lost>>
      PROVE  processed \ lost \subseteq (processed \ lost)'
  BY <1>2
<1>3. ASSUME NEW d \in Schedules, Reader(d) \/ Run(d) \/ Listener(d)
      PROVE  UNCHANGED <<processed, lost>>
  BY <1>3
  DEF Reader, ReaderGoesOn, Receive, NameOwnPipe, NameOtherPipe, SetOtherDpId,
      PutMsg, TouchMsg, Run, Top, Clean, FetchNone, Fetch, Write, Finish,
      Listener, ListenOpen, ListenRead, ListenScan, extVars
<1>4. CASE (\E d \in Schedules, i \in Queues : Clock(d, i)) \/ UNCHANGED vars
  BY <1>2, <1>4 DEF Clock, Elapse, SetBack, vars, extVars
<1> QED BY <1>1, <1>2, <1>3, <1>4 DEF Next

LEMMA IdentityStep ==
  ASSUME IInv, IdentityInv, [Next]_vars
  PROVE  IdentityInv'
<1>1. ASSUME NEW m \in Msg, stage'[m] # "absent"
      PROVE  identity'[m] \in IdentChoice(m)
  <2>1. CASE stage[m] # "absent"
    BY <2>1, MessagesGrow DEF IdentityInv
  <2>2. ASSUME NEW d \in Schedules, NEW n \in Msg, Receive(d, n),
               stage[m] = "absent"
        PROVE  identity'[m] \in IdentChoice(m)
    BY <1>1, <2>2 DEF Receive, IInv, TypeOK, ObjType
  <2>3. ASSUME NEW d \in Schedules, PutMsg(d), stage[m] = "absent"
        PROVE  FALSE
    <3>1. rmsg[d] \in Msg /\ stage[rmsg[d]] = "read"
      BY <2>3 DEF PutMsg, IInv, ReaderInv
    <3> QED BY <1>1, <2>3, <3>1 DEF PutMsg, IInv, TypeOK, ObjType
  <2>4. ASSUME NEW d \in Schedules, Clean(d), stage[m] = "absent"
        PROVE  FALSE
    BY <1>1, <2>4 DEF Clean, Done, InQueue
  <2>5. CASE UNCHANGED stage /\ stage[m] = "absent"
    BY <1>1, <2>5
  <2>6. ASSUME NEW d \in Schedules, Run(d), ~Clean(d) PROVE UNCHANGED stage
    BY <2>6 DEF Run, Top, FetchNone, Fetch, Write, Finish, objVars
  <2>7. ASSUME NEW d \in Schedules, ReaderGoesOn(d), ~PutMsg(d)
        PROVE  UNCHANGED stage
    BY <2>7 DEF ReaderGoesOn, NameOwnPipe, NameOtherPipe, SetOtherDpId,
                TouchMsg, objVars
  <2>8. ASSUME \/ \E d \in Schedules : Listener(d)
               \/ \E d \in Schedules, i \in Queues : Clock(d, i)
               \/ \E n \in Msg : SwitchProcess(n)
               \/ UNCHANGED vars
        PROVE  UNCHANGED stage
    BY <2>8 DEF Listener, ListenOpen, ListenRead, ListenScan, Clock, Elapse, SetBack,
                SwitchProcess, vars, objVars
  <2> QED BY <2>1, <2>2, <2>3, <2>4, <2>5, <2>6, <2>7, <2>8 DEF Next, Reader
<1>2. ASSUME NEW m \in Msg, finished'[m] PROVE inProcess'[m]
  <2>1. CASE inProcess[m]
    <3>1. stage[m] # "absent"
      BY <2>1 DEF IInv, FlagInv, Pushed
    <3> QED BY <2>1, <3>1, MessagesGrow
  <2>2. CASE ~finished[m]
    <3>1. FinishedByReply(m) \/ FinishedByReport(m) => inProcess[m]
      BY DEF FinishedByReply, FinishedByReport, Awaiting
    <3>2. FinishedByRun(m) => inProcess[m]
      BY DEF FinishedByRun, Finish, IInv, HandInv
    <3> QED BY <1>2, <2>1, <2>2, <3>1, <3>2, WhatFinishes
  <2> QED BY <2>1, <2>2 DEF IdentityInv
<1> DEFINE Known == Reported'
<1>0. Reported \subseteq Known
  BY ReportedGrows DEF Reported
<1> HIDE DEF Known
<1>3. /\ \A i \in DOMAIN pipe' : pipe'[i] \in Known
      /\ \A d \in Schedules :
           lpc'[d] = "scan" => d = "SERVER" /\ lid'[d] \in Known
  <2> USE <1>0 DEF IdentityInv, IInv, TypeOK, ListenType, ExtType
  <2> DEFINE Heard == /\ \A i \in DOMAIN pipe' : pipe'[i] \in Known
                      /\ \A d \in Schedules :
                           lpc'[d] = "scan"
                             => d = "SERVER" /\ lid'[d] \in Known
  <2>1. ASSUME NEW d \in Schedules, ListenRead(d) PROVE Heard
    <3>1. /\ d = "SERVER" /\ pipe' = Tail(pipe) /\ pipe # <<>>
          /\ lid' = [lid EXCEPT ![d] = Head(pipe)]
          /\ lpc' = [lpc EXCEPT ![d] = "scan"]
      BY <2>1 DEF ListenRead
    <3>2. Head(pipe) \in Reported
      BY <3>1
    <3>3. \A i \in DOMAIN pipe' : pipe'[i] \in Known
      BY <3>1
    <3> QED BY <3>1, <3>2, <3>3
  <2>2. ASSUME NEW d \in Schedules, ListenOpen(d) \/ ListenScan(d) \/ Top(d)
        PROVE  Heard
    <3>1. /\ UNCHANGED <<pipe, lid>>
          /\ \A e \in Schedules : lpc'[e] = "scan" => lpc[e] = "scan"
      BY <2>2 DEF ListenOpen, ListenScan, Top, extVars
    <3> QED BY <3>1
  <2>3. ASSUME NEW m \in Msg, SwitchProcess(m) PROVE Heard
    <3>1. UNCHANGED <<lpc, lid>>
      BY <2>3 DEF SwitchProcess, listenVars
    <3>2. CASE pipe' = Append(pipe, Ident[m]) /\ Kind[m] \in FlowMods
      <4>1. Ident[m] \in Known
        BY <2>3, <3>2 DEF SwitchProcess, Reported, Known
      <4>2. Ident[m] \in Idents
        BY ConstantsAssumption
      <4>3. \A i \in DOMAIN pipe' : pipe'[i] \in Known
        BY <3>2, <4>1, <4>2
      <4> QED BY <3>1, <4>3
    <3>3. CASE pipe' = pipe
      BY <3>1, <3>3
    <3> QED BY <2>3, <3>2, <3>3 DEF SwitchProcess
  <2>4. ASSUME UNCHANGED <<pipe, lpc, lid>> PROVE Heard
    BY <2>4
  <2>5. ASSUME NEW d \in Schedules, Reader(d) PROVE UNCHANGED <<pipe, lpc, lid>>
    BY <2>5 DEF Reader, ReaderGoesOn, Receive, NameOwnPipe, NameOtherPipe,
                SetOtherDpId, PutMsg, TouchMsg, listenVars, extVars
  <2>6. ASSUME NEW d \in Schedules, Run(d), ~Top(d)
        PROVE  UNCHANGED <<pipe, lpc, lid>>
    BY <2>6 DEF Run, Clean, FetchNone, Fetch, Write, Finish, listenVars, extVars
  <2>7. ASSUME \/ \E d \in Schedules, i \in Queues : Clock(d, i)
               \/ UNCHANGED vars
        PROVE  UNCHANGED <<pipe, lpc, lid>>
    BY <2>7 DEF Clock, Elapse, SetBack, vars, listenVars, extVars
  <2> HIDE DEF Heard
  <2>8. Heard
    BY <2>1, <2>2, <2>3, <2>4, <2>5, <2>6, <2>7 DEF Next, Listener
  <2> QED BY <2>8 DEF Heard
<1>4. \A m \in Msg : IdentChoice(m)' = IdentChoice(m)
  BY DEF IdentChoice
<1> QED BY <1>1, <1>2, <1>3, <1>4 DEF IdentityInv, Known

LEMMA IdentityInvariance == Spec => []IdentityInv
BY Invariance, IdentityInit, IdentityStep, PTL DEF Spec

-----------------------------------------------------------------------------
(* A STATS_REPLY names its request; so may a report, if its cookie is the  *)
(* request's xid; nothing else does.                                       *)
LEMMA RequestStep ==
  ASSUME IInv, IdentityInv, RequestAwaitsReply, [Next]_vars
  PROVE  RequestAwaitsReply'
<1> DEFINE Replied(r) == Kind[r] = "STATS_REPLY" /\ stage[r] # "absent"
           ReportCame(r) == Kind[r] \in FlowMods /\ r \in processed \ lost
<1> SUFFICES ASSUME NEW m \in Msg, Kind[m] = "STATS_REQUEST", finished'[m],
                    identity'[m] # 0
             PROVE  \E r \in Msg : /\ Ident[r] = Ident[m]
                                   /\ Replied(r)' \/ ReportCame(r)'
  BY DEF RequestAwaitsReply
<1>1. stage[m] # "absent" /\ identity'[m] = identity[m] /\ identity[m] = Ident[m]
  <2>1. inProcess'[m]
    BY IdentityStep DEF IdentityInv
  <2>2. finished[m] => stage[m] # "absent"
    BY DEF IdentityInv, IInv, FlagInv, Pushed
  <2>3. ~finished[m] => stage[m] # "absent"
    <3>1. FinishedByReply(m) \/ FinishedByReport(m) => stage[m] = "queued"
      BY DEF FinishedByReply, FinishedByReport, Awaiting, InQueue
    <3>2. FinishedByRun(m) => stage[m] = "queued"
      BY DEF FinishedByRun, Finish, IInv, HandInv
    <3> QED BY <3>1, <3>2, WhatFinishes
  <2>4. stage[m] # "absent"
    BY <2>2, <2>3
  <2> QED BY <2>4, MessagesGrow DEF IdentityInv, IdentChoice
<1>2. CASE finished[m]
  <2>1. PICK r \in Msg : Ident[r] = Ident[m] /\ (Replied(r) \/ ReportCame(r))
    BY <1>1, <1>2 DEF RequestAwaitsReply
  <2>2. Replied(r) => Replied(r)'
    BY MessagesGrow
  <2>3. ReportCame(r) => ReportCame(r)'
    BY ReportedGrows
  <2> QED BY <2>1, <2>2, <2>3
<1>3. CASE ~finished[m]
  <2>1. CASE FinishedByReply(m)
    <3>1. PICK d \in Schedules, r \in Msg :
            /\ Receive(d, r) /\ Kind[r] = "STATS_REPLY"
            /\ m \in Awaiting(Other(d), MULTI_PART_REQUEST_QUEUE_ID, Ident[r])
      BY <2>1 DEF FinishedByReply
    <3>2. Ident[r] = Ident[m]
      BY <1>1, <3>1 DEF Awaiting
    <3>3. stage'[r] = "read"
      BY <3>1 DEF Receive, IInv, TypeOK, ObjType
    <3> QED BY <3>1, <3>2, <3>3
  <2>2. CASE FinishedByReport(m)
    <3>1. PICK d \in Schedules :
            ListenScan(d) /\ m \in Awaiting(d, lidx[d], lid[d])
      BY <2>2 DEF FinishedByReport
    <3>2. lid[d] = Ident[m] /\ lid[d] \in Reported
      BY <1>1, <3>1 DEF Awaiting, ListenScan, IdentityInv
    <3>3. PICK r \in processed \ lost :
            Kind[r] \in FlowMods /\ Ident[r] = Ident[m]
      BY <3>2 DEF Reported
    <3>4. r \in Msg
      BY <3>3 DEF IInv, TypeOK, ExtType
    <3> QED BY <3>3, <3>4, ReportedGrows
  <2>3. CASE FinishedByRun(m)
    BY <1>1, <2>3 DEF FinishedByRun, NeedNoTime, Acknowledged
  <2> QED BY <1>3, <2>1, <2>2, <2>3, WhatFinishes
<1> QED BY <1>2, <1>3

LEMMA RequestInit == Init => RequestAwaitsReply
BY DEF Init, RequestAwaitsReply

(* Nothing finishes a STATS_REQUEST but a reply of its xid, or a report    *)
(* whose cookie is that xid.                                               *)
THEOREM RequestsAwaitTheirReply == Spec => []RequestAwaitsReply
<1>1. IInv /\ IdentityInv /\ RequestAwaitsReply /\ [Next]_vars
        => RequestAwaitsReply'
  BY RequestStep
<1> QED BY <1>1, RequestInit, Invariance, IdentityInvariance, PTL DEF Spec

-----------------------------------------------------------------------------
(* The name of the FIFO.                                                   *)

LEMMA NameStep ==
  ASSUME AnnouncedBySwitch, IInv, NameInv, [Next]_vars
  PROVE  NameInv'
<1> USE DEF NameInv, IInv
<1> SUFFICES ASSUME NEW e \in Schedules \ {"CLIENT"}
             PROVE  /\ getDpId'[e] => suffixes'[e] > 0
                    /\ lpc'[e] # "off" => suffixes'[e] > 0
                    /\ \A c \in Schedules : rpc'[c] = "other_flag" /\ e = Other(c)
                                             => suffixes'[e] > 0
  OBVIOUS
<1> DEFINE Named == /\ getDpId'[e] => suffixes'[e] > 0
                    /\ lpc'[e] # "off" => suffixes'[e] > 0
                    /\ \A c \in Schedules : rpc'[c] = "other_flag" /\ e = Other(c)
                                             => suffixes'[e] > 0
<1>1. /\ getDpId[e] \in BOOLEAN /\ suffixes[e] \in Nat
      /\ \A d \in Schedules : d # "CLIENT" => d = e
  BY ConstantsAssumption DEF TypeOK, ListenType
<1>2. ASSUME UNCHANGED <<getDpId, suffixes, rpc>>,
             lpc'[e] # "off" => lpc[e] # "off" \/ getDpId[e]
      PROVE  Named
  BY <1>2
<1>3. ASSUME NEW d \in Schedules, NEW m \in Msg, Receive(d, m) PROVE Named
  <2>1. /\ UNCHANGED <<suffixes, lpc>>
        /\ \A c \in Schedules : rpc'[c] = "other_flag" => rpc[c] = "other_flag"
    BY <1>3 DEF Receive, listenVars, TypeOK, ReaderType
  <2>2. getDpId'[e] = getDpId[e]
    BY <1>3 DEF Receive, AnnouncedBySwitch, TypeOK, ListenType
  <2> QED BY <2>1, <2>2
<1>4. ASSUME NEW d \in Schedules, NameOwnPipe(d) PROVE Named
  <2>1. /\ UNCHANGED <<getDpId, lpc>>
        /\ suffixes'[e] \in Nat /\ suffixes'[e] >= suffixes[e]
        /\ \A c \in Schedules : rpc'[c] = "other_flag" => rpc[c] = "other_flag"
    BY <1>1, <1>4 DEF NameOwnPipe, listenVars, TypeOK, ReaderType, ListenType
  <2> QED BY <1>1, <2>1
<1>5. ASSUME NEW d \in Schedules, NameOtherPipe(d) PROVE Named
  <2>1. /\ UNCHANGED <<getDpId, lpc>>
        /\ suffixes'[e] \in Nat /\ suffixes'[e] >= suffixes[e]
        /\ Other(d) = e => suffixes'[e] > 0
    BY <1>1, <1>5 DEF NameOtherPipe, listenVars, TypeOK, ListenType
  <2>2. \A c \in Schedules : rpc'[c] = "other_flag"
                               => c = d \/ rpc[c] = "other_flag"
    BY <1>5 DEF NameOtherPipe, TypeOK, ReaderType
  <2> QED BY <1>1, <2>1, <2>2
<1>6. ASSUME NEW d \in Schedules, SetOtherDpId(d) PROVE Named
  <2>1. /\ UNCHANGED <<suffixes, lpc>> /\ rpc[d] = "other_flag"
        /\ \A c \in Schedules : rpc'[c] = "other_flag" => rpc[c] = "other_flag"
    BY <1>6 DEF SetOtherDpId, listenVars, TypeOK, ReaderType
  <2>2. getDpId'[e] => getDpId[e] \/ e = Other(d)
    BY <1>6 DEF SetOtherDpId, TypeOK, ListenType
  <2> QED BY <2>1, <2>2
<1>7. ASSUME NEW d \in Schedules, PutMsg(d) \/ TouchMsg(d) PROVE Named
  <2>1. /\ UNCHANGED <<getDpId, suffixes, lpc>>
        /\ \A c \in Schedules : rpc'[c] = "other_flag" => rpc[c] = "other_flag"
    BY <1>7 DEF PutMsg, TouchMsg, pipeVars, listenVars, TypeOK, ReaderType
  <2> QED BY <2>1
<1>8. ASSUME NEW d \in Schedules, Top(d) PROVE Named
  <2>1. /\ UNCHANGED <<getDpId, suffixes, rpc>>
        /\ lpc'[e] # "off" => lpc[e] # "off" \/ getDpId[e]
    BY <1>8 DEF Top, pipeVars, readerVars, TypeOK, ListenType
  <2> QED BY <1>2, <2>1
<1>9. ASSUME NEW d \in Schedules, Run(d), ~Top(d)
      PROVE  UNCHANGED <<getDpId, suffixes, rpc, lpc>>
  BY <1>9
  DEF Run, Clean, FetchNone, Fetch, Write, Finish, pipeVars, readerVars,
      listenVars
<1>10. ASSUME NEW d \in Schedules, Listener(d) PROVE Named
  <2>1. UNCHANGED <<getDpId, suffixes, rpc>>
    BY <1>10
    DEF Listener, ListenOpen, ListenRead, ListenScan, pipeVars, readerVars
  <2>2. lpc'[e] # "off" => lpc[e] # "off"
    BY <1>10
    DEF Listener, ListenOpen, ListenRead, ListenScan, TypeOK, ListenType
  <2> QED BY <1>2, <2>1, <2>2
<1>11. ASSUME \/ \E d \in Schedules, i \in Queues : Clock(d, i)
              \/ \E m \in Msg : SwitchProcess(m)
              \/ UNCHANGED vars
       PROVE  Named
  BY <1>2, <1>11
  DEF Clock, Elapse, SetBack, SwitchProcess, vars, pipeVars, readerVars,
      listenVars
<1> HIDE DEF Named, IInv, NameInv
<1>12. ASSUME NEW d \in Schedules, Reader(d) PROVE Named
  BY <1>3, <1>4, <1>5, <1>6, <1>7, <1>12 DEF Reader, ReaderGoesOn
<1>13. ASSUME NEW d \in Schedules, Run(d) PROVE Named
  <2>1. CASE Top(d)
    BY <1>8, <2>1
  <2>2. CASE ~Top(d)
    <3>1. UNCHANGED <<getDpId, suffixes, rpc>> /\ lpc' = lpc
      BY <1>9, <1>13, <2>2
    <3> QED BY <1>2, <3>1
  <2> QED BY <2>1, <2>2
<1>14. Named
  BY <1>10, <1>11, <1>12, <1>13 DEF Next
<1> QED BY <1>14 DEF Named

LEMMA NameInit == Init => NameInv
<1> SUFFICES ASSUME Init PROVE NameInv
  OBVIOUS
<1>1. \A d \in Schedules :
        /\ lpc[d] = "off" /\ rpc[d] = "read"
        /\ getDpId[d] => suffixes[d] = 1
  BY DEF Init
<1> QED BY <1>1 DEF NameInv

(* If only the switch announces a datapath id, the SERVER's listener never *)
(* looks for a FIFO without that id in its name.                           *)
THEOREM ServerListenerIsNamed ==
  ASSUME AnnouncedBySwitch
  PROVE  Spec => []ServerListenerNamed
<1>1. IInv /\ NameInv /\ [Next]_vars => NameInv'
  BY NameStep
<1>2. NameInv => ServerListenerNamed
  BY DEF NameInv, ServerListenerNamed
<1> QED BY <1>1, <1>2, NameInit, Invariance, PTL DEF Spec

-----------------------------------------------------------------------------
(* The account of the reports.                                             *)

(* Taking the first report leaves the others.                              *)
LEMMA TailCount ==
  ASSUME NEW s \in Seq(Nat), s # <<>>
  PROVE  LET Left == {i \in DOMAIN Tail(s) : Tail(s)[i] # 0}
             All  == {i \in DOMAIN s : s[i] # 0}
         IN  /\ IsFiniteSet(Left) /\ IsFiniteSet(All)
             /\ Cardinality(All)
                  = Cardinality(Left) + (IF Head(s) # 0 THEN 1 ELSE 0)
<1> DEFINE Left == {i \in DOMAIN Tail(s) : Tail(s)[i] # 0}
           All  == {i \in DOMAIN s : s[i] # 0}
           Rest == All \ {1}
           next == [i \in Left |-> i + 1]
<1> SUFFICES /\ IsFiniteSet(Left) /\ IsFiniteSet(All)
             /\ Cardinality(All)
                  = Cardinality(Left) + (IF Head(s) # 0 THEN 1 ELSE 0)
  OBVIOUS
<1>1. /\ Len(s) \in Nat /\ Len(s) > 0 /\ DOMAIN s = 1 .. Len(s)
      /\ DOMAIN Tail(s) = 1 .. Len(s) - 1
      /\ \A i \in 1 .. Len(s) - 1 : Tail(s)[i] = s[i + 1]
      /\ Head(s) = s[1]
  OBVIOUS
<1>2. IsFiniteSet(All) /\ IsFiniteSet(Left)
  <2>1. IsFiniteSet(1 .. Len(s)) /\ IsFiniteSet(1 .. Len(s) - 1)
    BY <1>1, FS_Interval
  <2>2. All \subseteq 1 .. Len(s) /\ Left \subseteq 1 .. Len(s) - 1
    BY <1>1
  <2> QED BY <2>1, <2>2, FS_Subset
<1>3. next \in Bijection(Left, Rest)
  <2>1. \A i \in Left : i \in Nat /\ i + 1 \in Rest
    BY <1>1
  <2>2. \A i, j \in Left : next[i] = next[j] => i = j
    BY <2>1
  <2>3. \A k \in Rest : \E i \in Left : next[i] = k
    <3> SUFFICES ASSUME NEW k \in Rest PROVE k - 1 \in Left /\ next[k - 1] = k
      OBVIOUS
    <3>1. k \in 1 .. Len(s) /\ k # 1 /\ s[k] # 0
      BY <1>1
    <3>2. k - 1 \in Left
      BY <1>1, <3>1
    <3> QED BY <3>1, <3>2
  <2>4. next \in [Left -> Rest]
    BY <2>1
  <2> HIDE DEF next, Left, Rest
  <2> QED BY <2>2, <2>3, <2>4 DEF Bijection, Injection, Surjection, IsInjective
<1>4. Cardinality(Left) = Cardinality(Rest)
  <2> HIDE DEF next, Left, Rest
  <2>1. ExistsBijection(Left, Rest)
    BY <1>3 DEF ExistsBijection
  <2> QED BY <1>2, <2>1, FS_Bijection
<1>5. Cardinality(Left) \in Nat /\ Cardinality(All) \in Nat
  <2> HIDE DEF Left, All
  <2> QED BY <1>2, FS_CardinalityType
<1>6. 1 \in All <=> Head(s) # 0
  BY <1>1
<1>7. Cardinality(Rest) = IF 1 \in All THEN Cardinality(All) - 1
                                       ELSE Cardinality(All)
  <2> HIDE DEF All
  <2> QED BY <1>2, FS_RemoveElement
<1> HIDE DEF Left, All, Rest
<1> QED BY <1>2, <1>4, <1>5, <1>6, <1>7

ReportTyped ==
  /\ IsFiniteSet(Completed) /\ Cardinality(Completed) \in Nat
  /\ IsFiniteSet(WorkedOff) /\ Cardinality(WorkedOff) \in Nat
  /\ IsFiniteSet(InPipe) /\ Cardinality(InPipe) \in Nat
  /\ InEar \in {0, 1} /\ pipe \in Seq(Nat)

LEMMA ReportTypes == TypeOK => ReportTyped
<1> SUFFICES ASSUME TypeOK PROVE ReportTyped
  OBVIOUS
<1>1. pipe \in Seq(Nat)
  BY ConstantsAssumption, SeqMonotonic DEF TypeOK, ExtType
<1>2. IsFiniteSet(InPipe)
  <2>1. InPipe \subseteq 1 .. Len(pipe) /\ Len(pipe) \in Nat
    BY <1>1 DEF InPipe
  <2>2. IsFiniteSet(1 .. Len(pipe))
    BY <2>1, FS_Interval
  <2> QED BY <2>1, <2>2, FS_Subset
<1>3. Cardinality(InPipe) \in Nat
  BY <1>2, FS_CardinalityType
<1>4. Completed \in SUBSET Msg /\ WorkedOff \in SUBSET Msg
  BY DEF Completed, WorkedOff, Tracked
<1> QED BY <1>1, <1>2, <1>3, <1>4, MessagesFinite DEF InEar, ReportTyped

LEMMA ReportInit == Init => ReportInv
<1> SUFFICES ASSUME Init PROVE ReportInv
  OBVIOUS
<1>1. \A m \in Msg : stage[m] = "absent" /\ ~finished[m]
  BY DEF Init
<1>2. /\ pipe = <<>> /\ processed = {}
      /\ \A d \in Schedules : lpc[d] = "off"
  BY DEF Init
<1>3. Completed = {} /\ WorkedOff = {} /\ InPipe = {}
  BY <1>1, <1>2 DEF Completed, Tracked, WorkedOff, InPipe
<1>4. Cardinality(Completed) = 0 /\ Cardinality(WorkedOff) = 0
      /\ Cardinality(InPipe) = 0
  BY <1>3, FS_EmptySet
<1>5. InEar = 0
  BY <1>2 DEF InEar
<1> QED BY <1>1, <1>2, <1>4, <1>5 DEF ReportInv

(* No STATS_REPLY finishes a flow change that awaits a report.             *)
LEMMA RepliesNameNoFlow ==
  ASSUME FlowsToldApart, IInv, IdentityInv, NEW m \in Tracked
  PROVE  ~FinishedByReply(m) /\ ~FinishedByRun(m)
<1>1. ASSUME FinishedByReply(m) PROVE FALSE
  <2>1. PICK d \in Schedules, r \in Msg :
          /\ Receive(d, r) /\ Kind[r] = "STATS_REPLY"
          /\ m \in Awaiting(Other(d), MULTI_PART_REQUEST_QUEUE_ID, Ident[r])
    BY <1>1 DEF FinishedByReply
  <2>2. PICK q \in processed : Kind[q] = "STATS_REQUEST" /\ Ident[q] = Ident[r]
    BY <2>1 DEF Receive, CanArrive
  <2>3. identity[m] = Ident[q] /\ identity[m] \in IdentChoice(m)
    BY <2>1, <2>2 DEF Awaiting, InQueue, IdentityInv
  <2>4. m \in Msg /\ Kind[m] \in FlowMods /\ identity[m] # 0 /\ q \in Msg
    BY DEF Tracked, IInv, TypeOK, ExtType
  <2> QED BY <2>2, <2>3, <2>4 DEF FlowsToldApart
<1>2. ASSUME FinishedByRun(m) PROVE FALSE
  BY <1>2 DEF FinishedByRun, NeedNoTime, Acknowledged, Tracked
<1> QED BY <1>1, <1>2

(* The messages that count, and those of them that are completed, change   *)
(* only as the listener scans.                                             *)
LEMMA CompletedStep ==
  ASSUME FlowsToldApart, IInv, IdentityInv, ReportInv, [Next]_vars
  PROVE  /\ \A m \in Msg : stage[m] # "absent" =>
                             (m \in Tracked <=> m \in Tracked')
         /\ WorkedOff \subseteq WorkedOff'
         /\ Completed' # Completed =>
              \E d \in Schedules, m \in Msg :
                /\ ListenScan(d) /\ lid[d] # 0 /\ Awaiting(d, lidx[d], lid[d]) # {}
                /\ m \notin Completed /\ Completed' = Completed \cup {m}
<1>1. \A m \in Msg : stage[m] # "absent" => (m \in Tracked <=> m \in Tracked')
  BY MessagesGrow DEF Tracked
<1>2. \A m \in processed : stage[m] # "absent" /\ m \in Msg
  BY DEF ReportInv, IInv, FlagInv, TypeOK, ExtType, Pushed
<1>3. processed \subseteq processed'
  <2>1. ASSUME NEW d \in Schedules, Reader(d) \/ Run(d) \/ Listener(d)
        PROVE  UNCHANGED processed
    BY <2>1 DEF Reader, ReaderGoesOn, Receive, NameOwnPipe, NameOtherPipe,
                SetOtherDpId, PutMsg, TouchMsg, Run, Top, Clean, FetchNone,
                Fetch, Write, Finish, Listener, ListenOpen, ListenRead,
                ListenScan, extVars
  <2> QED BY <2>1 DEF Next, Clock, Elapse, SetBack, SwitchProcess, vars, extVars
<1>4. WorkedOff \subseteq WorkedOff'
  <2>1. \A m \in processed : m \in Tracked => m \in Tracked'
    BY <1>1, <1>2
  <2> QED BY <1>3, <2>1 DEF WorkedOff
<1>5. \A m \in Msg : finished[m] => stage[m] # "absent"
  BY DEF IdentityInv, IInv, FlagInv, Pushed
<1>6. Completed \subseteq Completed'
  <2>1. \A m \in Completed : m \in Msg /\ m \in Tracked' /\ finished'[m]
    BY <1>1, <1>5, WhatFinishes DEF Completed, Tracked
  <2> QED BY <2>1 DEF Completed
<1>7. ASSUME NEW m \in Completed', m \notin Completed
      PROVE  /\ m \in Msg /\ ~finished[m] /\ finished'[m] /\ FinishedByReport(m)
             /\ identity[m] # 0
  <2>1. m \in Msg /\ finished'[m] /\ identity'[m] # 0 /\ m \in Tracked'
    BY <1>7 DEF Completed, Tracked
  <2>2. stage[m] # "absent"
    <3>1. CASE finished[m]
      BY <1>5, <2>1, <3>1
    <3>2. CASE ~finished[m]
      <4>1. FinishedByReply(m) \/ FinishedByReport(m) => stage[m] = "queued"
        BY DEF FinishedByReply, FinishedByReport, Awaiting, InQueue
      <4>2. FinishedByRun(m) => stage[m] = "queued"
        BY DEF FinishedByRun, Finish, IInv, HandInv
      <4> QED BY <2>1, <3>2, <4>1, <4>2, WhatFinishes
    <3> QED BY <3>1, <3>2
  <2>3. m \in Tracked
    BY <1>1, <2>1, <2>2
  <2>4. ~finished[m]
    BY <1>7, <2>3 DEF Completed
  <2> QED BY <2>1, <2>3, <2>4, WhatFinishes, RepliesNameNoFlow DEF Tracked
<1>8. ASSUME Completed' # Completed
      PROVE  \E d \in Schedules, m \in Msg :
               /\ ListenScan(d) /\ lid[d] # 0 /\ Awaiting(d, lidx[d], lid[d]) # {}
               /\ m \notin Completed /\ Completed' = Completed \cup {m}
  <2>1. PICK m \in Completed' : m \notin Completed
    BY <1>6, <1>8
  <2>2. PICK d \in Schedules :
          ListenScan(d) /\ m \in Awaiting(d, lidx[d], lid[d])
    BY <1>7, <2>1 DEF FinishedByReport
  <2>3. lid[d] # 0
    BY <1>7, <2>1, <2>2 DEF Awaiting
  <2>4. \A n \in Completed' : n \notin Completed => n = m
    <3>1. MarkFirst(Awaiting(d, lidx[d], lid[d]))
      BY <2>2 DEF ListenScan
    <3>2. \A k, n \in Msg :
            finished'[k] /\ ~finished[k] /\ finished'[n] /\ ~finished[n] => k = n
      BY <3>1, MarksOne
    <3> QED BY <1>7, <2>1, <3>2
  <2>5. Completed' = Completed \cup {m}
    BY <1>6, <2>1, <2>4
  <2> QED BY <1>7, <2>1, <2>2, <2>3, <2>5
<1> QED BY <1>1, <1>4, <1>8

LEMMA ReportStep ==
  ASSUME FlowsToldApart, IInv, IdentityInv, ReportInv, [Next]_vars
  PROVE  ReportInv'
<1> DEFINE C == Cardinality(Completed)
           W == Cardinality(WorkedOff)
           N == Cardinality(InPipe)
<1>1. /\ C \in Nat /\ W \in Nat /\ N \in Nat /\ InEar \in {0, 1}
      /\ IsFiniteSet(Completed) /\ IsFiniteSet(WorkedOff)
      /\ IsFiniteSet(InPipe) /\ pipe \in Seq(Nat)
  BY ReportTypes DEF IInv, ReportTyped
<1>2. ReportTyped'
  BY TypeStep, ReportTypes, PTL DEF IInv
<1>3. /\ C' \in Nat /\ W' \in Nat /\ N' \in Nat /\ InEar' \in {0, 1}
      /\ IsFiniteSet(Completed') /\ IsFiniteSet(WorkedOff')
      /\ IsFiniteSet(InPipe') /\ pipe' \in Seq(Nat)
  BY <1>2 DEF ReportTyped
<1>4. C + N + InEar <= W
  BY DEF ReportInv
<1>5. W <= W'
  <2>1. WorkedOff \subseteq WorkedOff'
    BY CompletedStep
  <2> QED BY <1>3, <2>1, FS_Subset
<1>6. ASSUME NEW m \in Msg, stage'[m] = "freed" PROVE finished'[m]
  <2>1. CASE stage[m] = "freed"
    BY <2>1, WhatFinishes DEF ReportInv
  <2>2. ASSUME NEW d \in Schedules, Clean(d), stage[m] # "freed"
        PROVE  finished'[m]
    <3>1. m \in Done(d, idx[d]) /\ UNCHANGED finished
      BY <1>6, <2>2 DEF Clean
    <3> QED BY <3>1 DEF Done
  <2>3. ASSUME \A d \in Schedules : ~Clean(d), stage[m] # "freed"
        PROVE  FALSE
    <3>1. ASSUME NEW e \in Schedules, ~Clean(e), NEW n \in Msg, Dir[n] = e
          PROVE  stage'[n] = "freed" => stage[n] = "freed"
      BY <3>1, CleanedStep DEF Cleaned
    <3> QED BY <1>6, <2>3, <3>1, ConstantsAssumption
  <2> QED BY <2>1, <2>2, <2>3
<1>7. ASSUME NEW m \in processed' PROVE Dir[m] = "SERVER" /\ written'[m] = "sent"
  <2>1. CASE m \in processed
    <3>1. written[m] = "sent" /\ Dir[m] = "SERVER" /\ m \in Msg
      BY <2>1 DEF ReportInv, IInv, TypeOK, ExtType
    <3>2. ASSUME NEW d \in Schedules, Write(d) PROVE written'[m] = written[m]
      <4>1. written[cur[d]] = "no"
        BY <3>2 DEF Write, IInv, HandInv
      <4> QED BY <3>1, <3>2, <4>1 DEF Write, IInv, TypeOK, ObjType
    <3>3. ASSUME NEW d \in Schedules, Run(d), ~Write(d) PROVE UNCHANGED written
      BY <3>3 DEF Run, Top, Clean, FetchNone, Fetch, Finish, objVars
    <3>4. ASSUME NEW d \in Schedules, Reader(d) \/ Listener(d)
          PROVE  UNCHANGED written
      BY <3>4 DEF Reader, ReaderGoesOn, Receive, NameOwnPipe, NameOtherPipe,
                  SetOtherDpId, PutMsg, TouchMsg, Listener, ListenOpen,
                  ListenRead, ListenScan, objVars
    <3>5. ASSUME \/ \E d \in Schedules, i \in Queues : Clock(d, i)
                 \/ \E n \in Msg : SwitchProcess(n)
                 \/ UNCHANGED vars
          PROVE  UNCHANGED written
      BY <3>5 DEF Clock, Elapse, SetBack, SwitchProcess, vars, objVars
    <3> QED BY <3>1, <3>2, <3>3, <3>4, <3>5 DEF Next
  <2>2. CASE m \notin processed
    <3>1. ASSUME NEW d \in Schedules, Reader(d) \/ Run(d) \/ Listener(d)
          PROVE  UNCHANGED processed
      BY <3>1 DEF Reader, ReaderGoesOn, Receive, NameOwnPipe, NameOtherPipe,
                  SetOtherDpId, PutMsg, TouchMsg, Run, Top, Clean, FetchNone,
                  Fetch, Write, Finish, Listener, ListenOpen, ListenRead,
                  ListenScan, extVars
    <3>2. PICK n \in Msg : SwitchProcess(n)
      BY <2>2, <3>1 DEF Next, Clock, Elapse, SetBack, vars, extVars
    <3> QED BY <2>2, <3>2 DEF SwitchProcess, objVars
  <2> QED BY <2>1, <2>2
<1>8. ASSUME N' + InEar' <= N + InEar, Completed' = Completed
      PROVE  C' + N' + InEar' <= W'
  BY <1>1, <1>3, <1>4, <1>5, <1>8
<1>9. ASSUME NEW m \in Msg, SwitchProcess(m)
      PROVE  C' + N' + InEar' <= W'
  <2>1. /\ UNCHANGED <<stage, identity, finished, lpc, lid>>
        /\ processed' = processed \cup {m} /\ m \notin processed
        /\ Dir[m] = "SERVER" /\ written[m] = "sent"
    BY <1>9 DEF SwitchProcess, objVars, listenVars
  <2>2. Completed' = Completed /\ Tracked' = Tracked /\ InEar' = InEar
    BY <2>1 DEF Completed, Tracked, InEar
  <2>3. CASE pipe' = pipe
    <3>1. InPipe' = InPipe
      BY <2>3 DEF InPipe
    <3> QED BY <1>8, <2>2, <3>1, <1>1
  <2>4. CASE Kind[m] \in FlowMods /\ pipe' = Append(pipe, Ident[m])
    <3>1. CASE Ident[m] = 0
      <4>1. InPipe' = InPipe
        BY <1>1, <2>4, <3>1 DEF InPipe
      <4> QED BY <1>8, <2>2, <4>1, <1>1
    <3>2. CASE Ident[m] # 0
      <4>1. stage[m] # "absent"
        BY <2>1 DEF IInv, FlagInv, Pushed
      <4>2. identity[m] # 0
        BY <2>4, <3>2, <4>1 DEF IdentityInv, FlowsToldApart
      <4>3. WorkedOff' = WorkedOff \cup {m} /\ m \notin WorkedOff
        BY <2>1, <2>2, <2>4, <4>2 DEF WorkedOff, Tracked
      <4>4. W' = W + 1
        BY <1>1, <4>3, FS_AddElement
      <4>5. /\ InPipe' = InPipe \cup {Len(pipe) + 1}
            /\ Len(pipe) + 1 \notin InPipe
        BY <1>1, <2>4, <3>2, ConstantsAssumption DEF InPipe
      <4>6. N' = N + 1
        BY <1>1, <4>5, FS_AddElement
      <4> QED BY <1>1, <1>4, <2>2, <4>4, <4>6
    <3> QED BY <3>1, <3>2
  <2> QED BY <1>9, <2>3, <2>4 DEF SwitchProcess
<1>10. ASSUME NEW d \in Schedules, ListenRead(d)
       PROVE  C' + N' + InEar' <= W'
  <2>1. /\ lpc[d] = "read" /\ d = "SERVER" /\ pipe # <<>> /\ pipe' = Tail(pipe)
        /\ lid' = [lid EXCEPT ![d] = Head(pipe)]
        /\ lpc' = [lpc EXCEPT ![d] = "scan"]
        /\ UNCHANGED <<identity, finished>>
    BY <1>10 DEF ListenRead, objVars
  <2>2. Completed' = Completed
    BY <2>1 DEF Completed, Tracked
  <2>3. \A e \in Schedules : lpc[e] # "scan"
    BY <2>1 DEF IdentityInv
  <2>4. InEar = 0 /\ InEar' = IF Head(pipe) # 0 THEN 1 ELSE 0
    BY <2>1, <2>3 DEF InEar, IInv, TypeOK, ListenType
  <2>5. N = N' + IF Head(pipe) # 0 THEN 1 ELSE 0
    BY <1>1, <2>1, TailCount DEF InPipe
  <2> QED BY <1>1, <1>3, <1>8, <2>2, <2>4, <2>5
<1>11. ASSUME NEW d \in Schedules, ListenScan(d)
       PROVE  C' + N' + InEar' <= W'
  <2>1. /\ UNCHANGED <<pipe, lid>> /\ lpc[d] = "scan" /\ d = "SERVER"
        /\ lpc' \in {lpc, [lpc EXCEPT ![d] = "read"]}
    BY <1>11 DEF ListenScan, extVars, IdentityInv
  <2>2. N' = N /\ InEar' <= InEar
    <3>1. InPipe' = InPipe
      BY <2>1 DEF InPipe
    <3>2. \A e \in Schedules : lpc'[e] = "scan" => lpc[e] = "scan"
      BY <2>1 DEF IInv, TypeOK, ListenType
    <3> QED BY <2>1, <3>1, <3>2 DEF InEar
  <2>3. CASE Completed' = Completed
    BY <1>1, <1>3, <1>8, <2>2, <2>3
  <2>4. CASE Completed' # Completed
    <3>1. PICK e \in Schedules, m \in Msg :
            /\ ListenScan(e) /\ lid[e] # 0 /\ Awaiting(e, lidx[e], lid[e]) # {}
            /\ m \notin Completed /\ Completed' = Completed \cup {m}
      BY <2>4, CompletedStep
    <3>2. e = d
      BY <2>1, <3>1 DEF ListenScan, IdentityInv
    <3>3. C' = C + 1
      BY <1>1, <3>1, FS_AddElement
    <3>4. InEar = 1
      BY <2>1, <3>1, <3>2 DEF InEar
    <3>5. lpc' = [lpc EXCEPT ![d] = "read"]
      BY <1>11, <3>1, <3>2 DEF ListenScan
    <3>6. \A x \in Schedules : lpc'[x] # "scan"
      BY <2>1, <3>5 DEF IdentityInv, IInv, TypeOK, ListenType
    <3>7. InEar' = 0
      BY <3>6 DEF InEar
    <3> QED BY <1>1, <1>3, <1>4, <1>5, <2>2, <3>3, <3>4, <3>7
  <2> QED BY <2>3, <2>4
<1>12. ASSUME UNCHANGED <<pipe, lid>>,
              \A e \in Schedules : lpc'[e] = "scan" <=> lpc[e] = "scan",
              \A d \in Schedules : ~ListenScan(d)
       PROVE  C' + N' + InEar' <= W'
  <2>1. InPipe' = InPipe /\ InEar' = InEar
    BY <1>12 DEF InPipe, InEar
  <2>2. Completed' = Completed
    BY <1>12, CompletedStep
  <2> QED BY <1>1, <1>8, <2>1, <2>2
<1> HIDE DEF C, W, N
<1>13. C' + N' + InEar' <= W'
  <2>1. CASE \E d \in Schedules : ListenScan(d)
    BY <1>11, <2>1
  <2>2. CASE \A d \in Schedules : ~ListenScan(d)
    <3>1. ASSUME NEW d \in Schedules, Top(d) \/ ListenOpen(d)
          PROVE  C' + N' + InEar' <= W'
      BY <1>12, <2>2, <3>1 DEF Top, ListenOpen, extVars, IInv, TypeOK, ListenType
    <3>2. ASSUME NEW d \in Schedules, Reader(d)
          PROVE  UNCHANGED <<pipe, lpc, lid>>
      BY <3>2 DEF Reader, ReaderGoesOn, Receive, NameOwnPipe, NameOtherPipe,
                  SetOtherDpId, PutMsg, TouchMsg, listenVars, extVars
    <3>3. ASSUME NEW d \in Schedules, Run(d), ~Top(d)
          PROVE  UNCHANGED <<pipe, lpc, lid>>
      BY <3>3 DEF Run, Clean, FetchNone, Fetch, Write, Finish, listenVars, extVars
    <3>4. ASSUME \/ \E d \in Schedules, i \in Queues : Clock(d, i)
                 \/ UNCHANGED vars
          PROVE  UNCHANGED <<pipe, lpc, lid>>
      BY <3>4 DEF Clock, Elapse, SetBack, vars, listenVars, extVars
    <3>5. ASSUME UNCHANGED <<pipe, lpc, lid>> PROVE C' + N' + InEar' <= W'
      BY <1>12, <2>2, <3>5
    <3> QED BY <1>9, <1>10, <2>2, <3>1, <3>2, <3>3, <3>4, <3>5 DEF Next, Listener
  <2> QED BY <2>1, <2>2
<1> QED BY <1>6, <1>7, <1>13 DEF ReportInv, C, W, N

LEMMA ReportInvariance ==
  ASSUME FlowsToldApart
  PROVE  Spec => []ReportInv
<1>1. IInv /\ IdentityInv /\ ReportInv /\ [Next]_vars => ReportInv'
  BY ReportStep
<1> QED BY <1>1, ReportInit, Invariance, IdentityInvariance, PTL DEF Spec

(* So the backlog is no larger than what is in process: the flow changes   *)
(* that are finished are fewer than those the switch has worked off.       *)
LEMMA BacklogInProcess ==
  ASSUME IInv, IdentityInv, ReportInv
  PROVE  Cardinality(Backlog) <= Cardinality(InProcess("SERVER"))
<1> DEFINE Sent   == {m \in Tracked : written[m] = "sent"}
           Begun  == {m \in Tracked : inProcess[m]}
           Open   == Begun \ Completed
<1>1. /\ IsFiniteSet(Sent) /\ IsFiniteSet(Begun) /\ IsFiniteSet(Open)
      /\ IsFiniteSet(WorkedOff) /\ IsFiniteSet(Completed)
  BY MessagesFinite DEF Tracked, WorkedOff, Completed
<1>2. WorkedOff \subseteq Sent /\ Backlog = Sent \ WorkedOff
  BY DEF ReportInv, WorkedOff, Backlog, Tracked
<1>3. Sent \subseteq Begun
  BY DEF IInv, FlagInv, Tracked
<1>4. Completed \subseteq Begun
  BY DEF IdentityInv, Completed, Tracked
<1>5. Open \subseteq InProcess("SERVER")
  BY DEF IInv, FlagInv, Pushed, ReportInv, Completed, Tracked, InProcess
<1> HIDE DEF Sent, Begun, Open
<1>6. /\ Cardinality(Sent) \in Nat /\ Cardinality(Begun) \in Nat
      /\ Cardinality(WorkedOff) \in Nat /\ Cardinality(Completed) \in Nat
      /\ Cardinality(Backlog) \in Nat
  BY <1>1, <1>2, FS_CardinalityType, FS_Difference
<1>7. Cardinality(Backlog) = Cardinality(Sent) - Cardinality(WorkedOff)
  <2>1. Sent \cap WorkedOff = WorkedOff
    BY <1>2
  <2>2. Cardinality(Sent \ WorkedOff)
          = Cardinality(Sent) - Cardinality(Sent \cap WorkedOff)
    BY <1>1, FS_Difference
  <2>3. Backlog = Sent \ WorkedOff
    BY <1>2
  <2> QED BY <2>1, <2>2, <2>3, Zenon
<1>8. Cardinality(Open) = Cardinality(Begun) - Cardinality(Completed)
  <2>1. Begun \cap Completed = Completed
    BY <1>4
  <2> QED BY <1>1, <2>1, FS_Difference DEF Open
<1>9. Cardinality(Sent) <= Cardinality(Begun)
  BY <1>1, <1>3, FS_Subset
<1>10. Cardinality(Open) <= Cardinality(InProcess("SERVER"))
  BY <1>5, InProcessFinite, FS_Subset
<1>11. Cardinality(Completed) <= Cardinality(WorkedOff)
  <2>1. Cardinality(InPipe) \in Nat /\ InEar \in {0, 1}
    BY ReportTypes DEF IInv, ReportTyped
  <2> QED BY <1>6, <2>1 DEF ReportInv
<1>12. Cardinality(InProcess("SERVER")) \in Nat
  BY InProcessFinite
<1> QED BY <1>6, <1>7, <1>8, <1>9, <1>10, <1>11, <1>12

(* max_in_process is what it is for: the switch never has more flow        *)
(* changes to work off and report than that, if its reports can be told    *)
(* apart.                                                                  *)
THEOREM BacklogIsBounded ==
  ASSUME FlowsToldApart
  PROVE  Spec => []SwitchBacklogBounded
<1>1. IInv /\ IdentityInv /\ ReportInv => SwitchBacklogBounded
  <2> SUFFICES ASSUME IInv, IdentityInv, ReportInv PROVE SwitchBacklogBounded
    OBVIOUS
  <2>1. Cardinality(Backlog) \in Nat
    BY MessagesFinite DEF Backlog
  <2>2. CASE "SERVER" \in Schedules
    <3>1. Cardinality(InProcess("SERVER")) <= MaxInProcess
      <4>1. /\ credits["SERVER"] + cleaned["SERVER"]
                 + Cardinality(InProcess("SERVER"))
                 = MaxInProcess + InHand("SERVER")
            /\ pc["SERVER"] \in {"write", "finish"} => credits["SERVER"] > 0
            /\ credits["SERVER"] >= 0
        BY <2>2 DEF IInv, CreditInv, CreditBalance
      <4>2. credits["SERVER"] \in Int /\ cleaned["SERVER"] \in Nat
        BY <2>2 DEF IInv, TypeOK, SchedType
      <4>3. Cardinality(InProcess("SERVER")) \in Nat
        BY InProcessFinite
      <4>4. CASE pc["SERVER"] \in {"write", "finish"}
        <5>1. InHand("SERVER") = 1
          BY <4>4 DEF InHand
        <5> QED BY <4>1, <4>2, <4>3, <4>4, <5>1, SchedAssumption
      <4>5. CASE pc["SERVER"] \notin {"write", "finish"}
        <5>1. InHand("SERVER") = 0
          BY <4>5 DEF InHand
        <5> QED BY <4>1, <4>2, <4>3, <5>1, SchedAssumption
      <4> QED BY <4>4, <4>5
    <3>2. Cardinality(InProcess("SERVER")) \in Nat
      BY InProcessFinite
    <3> QED BY <2>1, <3>1, <3>2, BacklogInProcess, SchedAssumption
            DEF SwitchBacklogBounded
  <2>3. CASE "SERVER" \notin Schedules
    <3>1. Backlog = {}
      BY <2>3, ConstantsAssumption DEF Backlog
    <3> QED BY <3>1, FS_EmptySet, SchedAssumption DEF SwitchBacklogBounded
  <2> QED BY <2>2, <2>3
<1> QED BY <1>1, Invariance, IdentityInvariance, ReportInvariance, PTL
=============================================================================
