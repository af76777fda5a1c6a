--------------------------- MODULE PriorityManager ---------------------------
(***************************************************************************)
(* The UEP statistics (PriorityManager.h, RingBuffer.h) as one reader      *)
(* thread uses them: only messages of the controller are counted, so only  *)
(* the reader of the SERVER schedule works on them.  Time passes between   *)
(* any two of its steps.                                                   *)
(***************************************************************************)
EXTENDS Integers

CONSTANTS
  UEP,         \* the UEP ids in play
  NoUEP,       \* the id of a message without a tag: (0, 0)
  RequestUEP,  \* what STATS_REQUESTs are counted as: (0x55, 0x56)
  TagUEP,      \* the UEP ids the controller's tags may carry
  Numbers,     \* the numbers they may carry
  bufferSize,  \* slots of the ring: 20 in the source
  WindowIds,   \* how many window ids there are: 2^16
  MaxClock,    \* bound on the windows a run goes through
  MaxTotal,    \* bound on what is counted in one window
  MaxTail,     \* bound on tail, which grows with every stale update
  MaxSent,     \* bound on the history sent
  ClockMayStepBack  \* gettimeofday is not monotonic

ASSUME UEPAssumption ==
  /\ NoUEP \in UEP /\ RequestUEP \in UEP \ {NoUEP}
  /\ TagUEP \subseteq UEP /\ Numbers \subseteq Nat
  /\ bufferSize \in Nat \ {0}
  /\ WindowIds \in Nat \ {0}
  /\ MaxClock \in Nat /\ MaxTotal \in Nat /\ MaxTail \in Nat
  /\ MaxSent \in Nat
  /\ ClockMayStepBack \in BOOLEAN

VARIABLES
  clock,       \* windows since the manager was built
  head, tail, current_size, buffer,   \* the RingBuffer
  uep,         \* the UEP_Msg of the message in hand
  demoted,     \* the last message went to a demoted queue
  sent         \* history: what each UEP has sent in all windows together

ringVars == <<head, tail, current_size, buffer>>
vars == <<clock, ringVars, uep, demoted, sent>>

windowSize == 1
Slots == 0 .. bufferSize - 1

(* Split: a count per UEP, 0 when it is not in the map, and their total.   *)
Split == [uepMap : [UEP -> Nat], totalNumberSplit : Nat]
EmptySplit == [uepMap |-> [u \in UEP |-> 0], totalNumberSplit |-> 0]

UEPMsg == [uepid : UEP, window : 0 .. WindowIds - 1]
NoUEPMsg == [uepid |-> NoUEP, window |-> 0]

TypeOK ==
  /\ clock \in 0 .. MaxClock
  /\ head \in Nat /\ tail \in Nat /\ current_size \in 0 .. windowSize
  /\ buffer \in [Slots -> Split]
  /\ uep \in UEPMsg
  /\ demoted \in BOOLEAN
  /\ sent \in [UEP -> 0 .. MaxSent]

Init ==
  /\ clock = 0
  /\ head = 0 /\ tail = 0 /\ current_size = 0
  /\ buffer = [s \in Slots |-> EmptySplit]
  /\ uep = NoUEPMsg
  /\ demoted = FALSE
  /\ sent = [u \in UEP |-> 0]

-----------------------------------------------------------------------------
(* RingBuffer.                                                             *)

aheadofHead(i) == i < head
aheadoftail(i) == i < tail
getData(i) == buffer[i % bufferSize]

updateData(i, data) ==
  /\ buffer' = [buffer EXCEPT ![i % bufferSize] = data]
  /\ UNCHANGED <<head, tail, current_size>>

(* Mutant: the window may grow one slot too wide. *)
putdDataLate(h, t, c, data) ==
  /\ buffer' = [buffer EXCEPT ![t % bufferSize] = data]
  /\ tail' = t + 1
  /\ IF c <= windowSize
     THEN head' = h /\ current_size' = c + 1
     ELSE head' = h + 1 /\ current_size' = c
(* putdData with the tail at t, the head at h and c slots in use. *)
putdData(h, t, c, data) ==
  /\ buffer' = [buffer EXCEPT ![t % bufferSize] = data]
  /\ tail' = t + 1
  /\ IF c + 1 <= windowSize
     THEN head' = h /\ current_size' = c + 1
     ELSE head' = h + 1 /\ current_size' = c

-----------------------------------------------------------------------------
(* PriorityManager.                                                        *)

(* Mutant: the total is set to the number, not increased by it. *)
addUEPLast(split, u, n) ==
  [uepMap |-> [split.uepMap EXCEPT ![u] = @ + n], totalNumberSplit |-> n]
addUEP(split, u, n) ==
  [uepMap |-> [split.uepMap EXCEPT ![u] = @ + n],
   totalNumberSplit |-> split.totalNumberSplit + n]

(* Mutant: a window that is over is counted on. *)
KeepCounting(i, u, n) == updateData(i, addUEP(getData(i), u, n))
updateSplitOfUEP(i, u, n) ==
  IF ~aheadofHead(i) /\ aheadoftail(i)
  THEN updateData(i, addUEP(getData(i), u, n))
  ELSE IF ~aheadoftail(i)
       THEN putdData(i, i, 0, addUEP(EmptySplit, u, n))
       ELSE putdData(head, tail, current_size, addUEP(EmptySplit, u, n))

(* (uint16_t)(ms / 2000), as the build truncates it. *)
getNowWindowId == clock % WindowIds

(***************************************************************************)
(* isDangerous(exp(-ratio)): exp(-r) < 0.5 exactly when r > ln 2, which is *)
(* 0.693147 to the precision that totals below a million can tell apart.   *)
(***************************************************************************)
(* Mutant: no allowance for a UEP's first messages. *)
isDangerousAtOnce(number, total) ==
  total # 0 /\ 1000000 * number > 693147 * total
isDangerous(number, total) ==
  total # 0 /\ 1000000 * number > 693147 * (total + 5)

(* getUEPPriorityOfSplitK for the UEP and window of the message in hand;   *)
(* the window's total is that of one slot, windowSize being 1.             *)
Number == getData(uep.window).uepMap[uep.uepid]
Total  == getData(uep.window - windowSize + 1).totalNumberSplit

(* The bounds of the model. *)
Room(n) ==
  /\ tail <= MaxTail
  /\ getData(getNowWindowId).totalNumberSplit + n <= MaxTotal
     \/ aheadofHead(getNowWindowId) \/ ~aheadoftail(getNowWindowId)

-----------------------------------------------------------------------------
Send(u, n) ==
  sent' = [sent EXCEPT ![u] = IF @ + n <= MaxSent THEN @ + n ELSE MaxSent]

(* One tag of a FLOW_MOD or PACKET_OUT: count it in the running window.    *)
(* Of several tags the last one decides.                                   *)
Tag(u, n) ==
  /\ Room(n)
  /\ updateSplitOfUEP(getNowWindowId, u, n)
  /\ uep' = [uepid |-> u, window |-> getNowWindowId]
  /\ Send(u, n)
  /\ UNCHANGED <<clock, demoted>>

(* A STATS_REQUEST is counted; its queue does not depend on its priority.  *)
StatsRequest ==
  /\ uep = NoUEPMsg /\ Room(1)
  /\ updateSplitOfUEP(getNowWindowId, RequestUEP, 1)
  /\ Send(RequestUEP, 1)
  /\ UNCHANGED <<clock, uep, demoted>>

(* The end of a FLOW_MOD, or of a PACKET_OUT that had a tag. *)
Decide ==
  /\ demoted' = isDangerous(Number, Total)
  /\ uep' = NoUEPMsg
  /\ UNCHANGED <<clock, ringVars, sent>>

(* Time passes, or is set back. *)
Tick ==
  /\ clock < MaxClock /\ clock' = clock + 1
  /\ UNCHANGED <<ringVars, uep, demoted, sent>>

StepBack ==
  /\ ClockMayStepBack /\ clock > 0 /\ clock' = clock - 1
  /\ UNCHANGED <<ringVars, uep, demoted, sent>>

Next ==
  \/ \E u \in TagUEP, n \in Numbers : Tag(u, n)
  \/ StatsRequest \/ Decide
  \/ Tick \/ StepBack

Spec == Init /\ [][Next]_vars

-----------------------------------------------------------------------------
(***************************************************************************)
(* At any moment at most one UEP of a window is suspect, whatever the ring *)
(* buffer has mixed up: to demote everybody is impossible.                 *)
(***************************************************************************)
AtMostOneSuspect ==
  \A s \in Slots : \A u, v \in UEP :
    /\ isDangerous(buffer[s].uepMap[u], buffer[s].totalNumberSplit)
    /\ isDangerous(buffer[s].uepMap[v], buffer[s].totalNumberSplit)
    => u = v

(* Why: no two UEPs of a window have counted more than its total, even if   *)
(* a slot is reused for another window.                                     *)
SplitOK(split) ==
  /\ \A u \in UEP : split.uepMap[u] <= split.totalNumberSplit
  /\ \A u, v \in UEP :
       u # v => split.uepMap[u] + split.uepMap[v] <= split.totalNumberSplit
SplitsOK == \A s \in Slots : SplitOK(buffer[s])

(***************************************************************************)
(* Nobody is demoted for what others have sent: however slots are mixed up *)
(* by a clock set back, by ids that wrap or by a tail that runs away, no   *)
(* UEP is suspect before it has itself sent twelve; and a UEP that fills   *)
(* its window alone is demoted from twelve on.                             *)
(***************************************************************************)
DemotedForOwn ==
  [][Decide => /\ demoted' => sent[uep.uepid] >= 12
               /\ Number >= 12 /\ Number = Total => demoted']_vars

(* Why: no slot counts more for a UEP than it has sent. *)
CountedIsSent ==
  \A s \in Slots, u \in UEP :
    buffer[s].uepMap[u] <= sent[u] \/ sent[u] = MaxSent

(***************************************************************************)
(* As long as the clock is never set back, the window ids do not wrap and  *)
(* no tag names the absent UEP, the ring buffer with its head and tail     *)
(* counts exactly what each UEP has sent in the running window, and every  *)
(* decision is taken on what was there when the last tag was counted.      *)
(***************************************************************************)
SteadyClock ==
  ~ClockMayStepBack /\ MaxClock < WindowIds /\ NoUEP \notin TagUEP

(* Why: the window in the ring is never ahead of the clock, and the absent  *)
(* UEP, which a message without a tag is judged by, counts nothing.         *)
RingSteady ==
  /\ head <= clock /\ tail <= clock + 1
  /\ \A s \in Slots : buffer[s].uepMap[NoUEP] = 0

Running == IF ~aheadofHead(clock) /\ aheadoftail(clock)
           THEN getData(clock) ELSE EmptySplit
Promise ==
  INSTANCE UEPCount WITH
    Sender <- UEP \ {NoUEP}, Amount <- Numbers, Suspect <- isDangerous,
    now <- clock, count <- [u \in UEP \ {NoUEP} |-> Running.uepMap[u]],
    total <- Running.totalNumberSplit,
    held <- IF uep = NoUEPMsg THEN [number |-> 0, total |-> 0]
                              ELSE [number |-> Number, total |-> Total],
    demoted <- demoted
ImplementsUEPCount == Promise!Spec
=============================================================================
