------------------------------ MODULE Schedule ------------------------------
(***************************************************************************)
(* The two Schedule objects of a tunnelled session (schedule.h,            *)
(* schedule.cpp) and the threads that work on them: for each direction d   *)
(* a reader (read_client / read_server calling putMessage), a scheduler    *)
(* (Schedule::run) and, once the datapath id is known, a listener          *)
(* (Run_listen_resp) that reads completed identities from a FIFO.  The     *)
(* switch at the far end of the SERVER schedule is external.               *)
(*                                                                         *)
(* One action is one stretch of a thread between two points where another  *)
(* thread can see or change what it works on: a critical section under     *)
(* queue_mutex, a system call, or an unlocked store to a shared object.    *)
(***************************************************************************)
EXTENDS OFPMessages, Sequences

CONSTANTS
  MaxInProcess,   \* initial max_in_process: 12 in the source
  IntMax,         \* INT32_MAX
  WriteCanFail,   \* whether writev may fail
  RespMayBeLost,  \* whether the switch's completion report may be lost
  FifoExists,     \* the possible answers to "is the FIFO already there?"
  MaxSetBacks,    \* bound: how often the clock is set back past a queue
  Announced,      \* the schedules whose datapath id is known from the start
  NoMsg           \* no message

ASSUME SchedAssumption ==
  /\ MaxInProcess \in Nat /\ MaxInProcess >= 2
  /\ IntMax \in Nat /\ IntMax > MaxInProcess
  /\ WriteCanFail \in BOOLEAN /\ RespMayBeLost \in BOOLEAN
  /\ FifoExists \subseteq BOOLEAN
  /\ MaxSetBacks \in Nat
  /\ Announced \subseteq Schedules
  /\ NoMsg \notin Msg

VARIABLES
  \* the OFP_Msg objects, by message
  stage,      \* "absent", "read" (made by the reader), "queued", "freed"
  qid,        \* the queue it is put into
  stamp,      \* its place in push_back order; a vector is a set so ordered
  identity,   \* its identity field
  inProcess, finished,   \* its flags
  written,    \* "no", "sent" or "failed": what writev did with it
  \* the reader threads, by direction
  rpc, rmsg,
  puts,       \* how many messages it has pushed
  \* the scheduler threads
  pc, idx, cur,   \* where it is, the queue it looks at, the message in hand
  cleaned, credits,     \* clean_num and max_in_process
  due,        \* queues with more than interval_ms gone by since last_fetch
  scanFrom,   \* history: puts when the current scan of the queues began
  skipped,    \* history: queues this scan passed that were not in time
  \* the listener threads
  getDpId,    \* get_dp_id
  suffixes,   \* datapath-id characters appended to resp_pipe
  lpc, lid, lidx,
  \* external
  pipe,       \* completed identities in the switch's FIFO, oldest first
  processed,  \* messages the switch has worked off
  lost,       \* history: those of them whose report never came
  setbacks,   \* how often the clock was set back past a queue's last_fetch
  crashed     \* the process was killed by an access outside queues

objVars    == <<stage, qid, stamp, identity, inProcess, finished, written>>
readerVars == <<rpc, rmsg, puts>>
schedVars  == <<pc, idx, cur, cleaned, credits, due, scanFrom, skipped>>
listenVars == <<lpc, lid, lidx>>
pipeVars   == <<getDpId, suffixes>>
extVars    == <<pipe, processed, lost, setbacks, crashed>>
vars == <<objVars, readerVars, schedVars, listenVars, pipeVars, extVars>>

(* The queues made with an interval of -1. *)
Unpaced == 0 .. FirstPaced - 1

Stages    == {"absent", "read", "queued", "freed"}
ReaderPcs == {"read", "own_name", "other_name", "other_flag", "put", "touch"}
SchedPcs  == {"top", "clean", "fetch", "write", "finish"}
ListenPcs == {"off", "open", "read", "scan", "deaf"}

ObjType ==
  /\ stage \in [Msg -> Stages]
  /\ qid \in [Msg -> Nat]
  /\ stamp \in [Msg -> Nat]
  /\ identity \in [Msg -> Idents]
  /\ inProcess \in [Msg -> BOOLEAN]
  /\ finished \in [Msg -> BOOLEAN]
  /\ written \in [Msg -> {"no", "sent", "failed"}]
ReaderType ==
  /\ rpc \in [Schedules -> ReaderPcs]
  /\ rmsg \in [Schedules -> Msg \cup {NoMsg}]
  /\ puts \in [Schedules -> Nat]
SchedType ==
  /\ pc \in [Schedules -> SchedPcs]
  /\ idx \in [Schedules -> Queues]
  /\ cur \in [Schedules -> Msg \cup {NoMsg}]
  /\ cleaned \in [Schedules -> Nat]
  /\ credits \in [Schedules -> Int]
  /\ due \in [Schedules -> SUBSET Queues]
  /\ scanFrom \in [Schedules -> Nat]
  /\ skipped \in [Schedules -> SUBSET Queues]
ListenType ==
  /\ lpc \in [Schedules -> ListenPcs]
  /\ lid \in [Schedules -> Idents]
  /\ lidx \in [Schedules -> Queues]
  /\ getDpId \in [Schedules -> BOOLEAN]
  /\ suffixes \in [Schedules -> Nat]
ExtType ==
  /\ pipe \in Seq(Idents)
  /\ processed \subseteq Msg /\ lost \subseteq processed
  /\ setbacks \in 0 .. MaxSetBacks
  /\ crashed \in BOOLEAN

(* qid is a byte or a queue; the rest of the types are as declared.        *)
TypeOK ==
  /\ ObjType /\ ReaderType /\ SchedType /\ ListenType /\ ExtType
  /\ \A m \in Msg : qid[m] \in 0 .. 255 \/ qid[m] \in Queues

(* A session is observed from its start or, with Announced, from the moment *)
(* a FEATURES_REPLY has been dealt with.  An unpaced queue has an interval  *)
(* of -1 and is in time at once.                                            *)
Init ==
  /\ stage = [m \in Msg |-> "absent"]
  /\ qid = [m \in Msg |-> 0]
  /\ stamp = [m \in Msg |-> 0]
  /\ identity = [m \in Msg |-> 0]
  /\ inProcess = [m \in Msg |-> FALSE]
  /\ finished = [m \in Msg |-> FALSE]
  /\ written = [m \in Msg |-> "no"]
  /\ rpc = [d \in Schedules |-> "read"]
  /\ rmsg = [d \in Schedules |-> NoMsg]
  /\ puts = [d \in Schedules |-> 0]
  /\ pc = [d \in Schedules |-> "top"]
  /\ idx = [d \in Schedules |-> 0]
  /\ cur = [d \in Schedules |-> NoMsg]
  /\ cleaned = [d \in Schedules |-> 0]
  /\ credits = [d \in Schedules |-> MaxInProcess]
  /\ due = [d \in Schedules |-> Unpaced]
  /\ scanFrom = [d \in Schedules |-> 0]
  /\ skipped = [d \in Schedules |-> {}]
  /\ getDpId = [d \in Schedules |-> d \in Announced]
  /\ suffixes = [d \in Schedules |-> IF d \in Announced THEN 1 ELSE 0]
  /\ lpc = [d \in Schedules |-> "off"]
  /\ lid = [d \in Schedules |-> 0]
  /\ lidx = [d \in Schedules |-> 0]
  /\ pipe = <<>>
  /\ processed = {}
  /\ lost = {}
  /\ setbacks = 0
  /\ crashed = FALSE

-----------------------------------------------------------------------------
(* Queue: the vector of a queue is the set of its messages, in the order   *)
(* of their stamps.                                                        *)

InQueue(d, i) == {m \in Msg : stage[m] = "queued" /\ Dir[m] = d /\ qid[m] = i}
InProcess(d)  == {m \in Msg : stage[m] = "queued" /\ Dir[m] = d /\ inProcess[m]}

Fetchable(d, i) == {m \in InQueue(d, i) : ~inProcess[m]}
(* Mutants: clean whatever is in the queue; clean only what is not in      *)
(* process.                                                                *)
DoneIsAll(d, i)  == InQueue(d, i)
DoneIsIdle(d, i) == {m \in InQueue(d, i) : ~inProcess[m] /\ finished[m]}
Done(d, i)       == {m \in InQueue(d, i) : inProcess[m] /\ finished[m]}
Awaiting(d, i, id) ==
  {m \in InQueue(d, i) : inProcess[m] /\ ~finished[m] /\ identity[m] = id}

(* Mutants: only STATS_REQUESTs, or only FLOW_MODs, wait for a response. *)
NeedNoTimeButStats(m) == ~(Kind[m] = "STATS_REQUEST" /\ identity[m] # 0)
NeedNoTimeButFlows(m) == ~(Kind[m] \in FlowMods /\ identity[m] # 0)
(* msgNeedNoTime: writing the message completes it. *)
NeedNoTime(m) == ~(Kind[m] \in Acknowledged /\ identity[m] # 0)

(* markFinished(identify): finish the first of the candidates, if any. *)
MarkFirst(S) ==
  finished' = [m \in Msg |-> \/ finished[m]
                             \/ m \in S /\ \A n \in S : stamp[m] <= stamp[n]]

(* fetchMsg's scan settles on m: no other candidate replaces it. *)
Chosen(m, S) ==
  \A n \in S \ {m} : IF stamp[n] < stamp[m] THEN LessPriority(n, m)
                                            ELSE ~LessPriority(m, n)

(* Mutant: max_in_process = clean_num instead of += clean_num. *)
Int32Assign(a, b) == b
(* int32_t addition, as the build wraps it. *)
Int32Plus(a, b) == IF a + b > IntMax THEN a + b - 2 * (IntMax + 1) ELSE a + b

-----------------------------------------------------------------------------
(* The reader thread of direction d.                                       *)

(* A switch answers a STATS_REQUEST only after it has worked it off. *)
CanArrive(m) ==
  Kind[m] = "STATS_REPLY" =>
    \E r \in processed : Kind[r] = "STATS_REQUEST" /\ Ident[r] = Ident[m]

(***************************************************************************)
(* read_ofp_msg has returned m; getOFPMsgArg classifies it.  A STATS_REPLY *)
(* finishes its request in the other schedule; a FEATURES_REPLY starts the *)
(* announcement of the datapath id (the next three actions).               *)
(***************************************************************************)
Receive(d, m) ==
  /\ rpc[d] = "read" /\ Dir[m] = d /\ stage[m] = "absent" /\ CanArrive(m)
  /\ stage' = [stage EXCEPT ![m] = "read"]
  /\ \E q \in QueueChoice(m) : qid' = [qid EXCEPT ![m] = q]
  /\ \E id \in IdentChoice(m) : identity' = [identity EXCEPT ![m] = id]
  /\ IF Kind[m] = "STATS_REPLY"
     THEN MarkFirst(Awaiting(Other(d), MULTI_PART_REQUEST_QUEUE_ID, Ident[m]))
     ELSE UNCHANGED finished
  /\ rmsg' = [rmsg EXCEPT ![d] = m]
  /\ IF Kind[m] = "FEATURES_REPLY"
     THEN /\ getDpId' = [getDpId EXCEPT ![d] = TRUE]
          /\ rpc' = [rpc EXCEPT ![d] = "own_name"]
     ELSE /\ rpc' = [rpc EXCEPT ![d] = "put"]
          /\ UNCHANGED getDpId
  /\ UNCHANGED <<stamp, inProcess, written, puts, schedVars, listenVars,
                 suffixes, extVars>>

(* The rest of a FEATURES_REPLY, in program order: the own pipe name, the  *)
(* other schedule's pipe name, the other schedule's get_dp_id.             *)
NameOwnPipe(d) ==
  /\ rpc[d] = "own_name"
  /\ suffixes' = [suffixes EXCEPT ![d] = @ + 1]
  /\ rpc' = [rpc EXCEPT ![d] = "other_name"]
  /\ UNCHANGED <<objVars, rmsg, puts, schedVars, listenVars, getDpId, extVars>>

(* Mutant: the other pipe is marked as named before its name is complete. *)
FlagOtherFirst(d) ==
  /\ rpc[d] = "other_name"
  /\ getDpId' = [getDpId EXCEPT ![Other(d)] = TRUE]
  /\ rpc' = [rpc EXCEPT ![d] = "other_flag"]
  /\ UNCHANGED <<objVars, rmsg, puts, schedVars, listenVars, suffixes, extVars>>
NameOtherPipe(d) ==
  /\ rpc[d] = "other_name"
  /\ suffixes' = [suffixes EXCEPT ![Other(d)] = @ + 1]
  /\ rpc' = [rpc EXCEPT ![d] = "other_flag"]
  /\ UNCHANGED <<objVars, rmsg, puts, schedVars, listenVars, getDpId, extVars>>

SetOtherDpId(d) ==
  /\ rpc[d] = "other_flag"
  /\ getDpId' = [getDpId EXCEPT ![Other(d)] = TRUE]
  /\ rpc' = [rpc EXCEPT ![d] = "put"]
  /\ UNCHANGED <<objVars, rmsg, puts, schedVars, listenVars, suffixes, extVars>>

(***************************************************************************)
(* queues[arg.qid]->putMsg(ofp_msg); an unassigned qid may be no queue.    *)
(* Queue(double_t) leaves queue_mutex uninitialized; that it excludes, as  *)
(* assumed here, rests on its fresh memory being zero, which is what       *)
(* PTHREAD_MUTEX_INITIALIZER is.                                           *)
(***************************************************************************)
PutMsg(d) ==
  /\ rpc[d] = "put"
  /\ IF qid[rmsg[d]] \in Queues
     THEN /\ stage' = [stage EXCEPT ![rmsg[d]] = "queued"]
          /\ stamp' = [stamp EXCEPT ![rmsg[d]] = puts[d] + 1]
          /\ puts' = [puts EXCEPT ![d] = @ + 1]
          /\ rpc' = [rpc EXCEPT ![d] = "touch"]
          /\ UNCHANGED crashed
     ELSE /\ crashed' = TRUE
          /\ UNCHANGED <<stage, stamp, puts, rpc>>
  /\ UNCHANGED <<qid, identity, inProcess, finished, written, rmsg, schedVars,
                 listenVars, pipeVars, pipe, processed, lost, setbacks>>

(* putMessage's last accesses to the message, after the queue's unlock: it *)
(* reads the identity into pos_map, which nothing reads, and sets          *)
(* read_to_be_sent, which the constructor has already set.                 *)
TouchMsg(d) ==
  /\ rpc[d] = "touch"
  /\ rpc' = [rpc EXCEPT ![d] = "read"]
  /\ rmsg' = [rmsg EXCEPT ![d] = NoMsg]
  /\ UNCHANGED <<objVars, puts, schedVars, listenVars, pipeVars, extVars>>

-----------------------------------------------------------------------------
(* The scheduler thread of direction d.                                    *)

(* Mutant: the scan goes on where the last one stopped. *)
ResumeScan(d, c) ==
  /\ pc' = [pc EXCEPT ![d] = IF c > 0 THEN "fetch" ELSE "top"]
  /\ idx' = idx
  /\ scanFrom' = [scanFrom EXCEPT ![d] = IF c > 0 THEN puts[d] ELSE @]
  /\ skipped' = [skipped EXCEPT ![d] = {}]
(* Enter "while (max_in_process > 0)" with c credits. *)
StartScan(d, c) ==
  /\ pc' = [pc EXCEPT ![d] = IF c > 0 THEN "fetch" ELSE "top"]
  /\ idx' = [idx EXCEPT ![d] = 0]
  /\ scanFrom' = [scanFrom EXCEPT ![d] = IF c > 0 THEN puts[d] ELSE @]
  /\ skipped' = [skipped EXCEPT ![d] = {}]

(* The head of the loop: start the listener, decide whether to clean. *)
Top(d) ==
  /\ pc[d] = "top"
  /\ lpc' = IF getDpId[d] /\ lpc[d] = "off"
            THEN [lpc EXCEPT ![d] = "open"] ELSE lpc
  /\ \/ /\ credits[d] < 2 \/ SWToControl(d)
        /\ pc' = [pc EXCEPT ![d] = "clean"]
        /\ idx' = [idx EXCEPT ![d] = 0]
        /\ UNCHANGED <<scanFrom, skipped>>
     \/ /\ credits[d] >= 2 /\ ~SWToControl(d)
        /\ StartScan(d, credits[d])
  /\ cleaned' = [cleaned EXCEPT ![d] = 0]
  /\ UNCHANGED <<objVars, readerVars, cur, credits, due, lid, lidx, pipeVars,
                 extVars>>

(* cleanFinishMsg on one queue; after the last, the credits come back. *)
Clean(d) ==
  /\ pc[d] = "clean"
  /\ LET gone == Done(d, idx[d])
         num  == cleaned[d] + Cardinality(gone)
     IN /\ stage' = [m \in Msg |-> IF m \in gone THEN "freed" ELSE stage[m]]
        /\ IF idx[d] < LastQueue
           THEN /\ idx' = [idx EXCEPT ![d] = @ + 1]
                /\ cleaned' = [cleaned EXCEPT ![d] = num]
                /\ UNCHANGED <<pc, credits, scanFrom, skipped>>
           ELSE /\ credits' = [credits EXCEPT ![d] = Int32Plus(@, num)]
                /\ cleaned' = [cleaned EXCEPT ![d] = 0]
                /\ StartScan(d, Int32Plus(credits[d], num))
  /\ UNCHANGED <<qid, stamp, identity, inProcess, finished, written, readerVars,
                 cur, due, listenVars, pipeVars, extVars>>

(* Mutant: the comparison with interval_ms is the wrong way round. *)
InTimeNever(d, i) == i \notin due[d]
(* Whether fetchMsg looks into queue i at all: ms > interval_ms, also for  *)
(* an interval of -1.                                                      *)
InTime(d, i) == i \in due[d]

(* Mutant: the interval of an unpaced queue is 0 instead of -1. *)
LookedIntoZero(d, i) == due' = [due EXCEPT ![d] = @ \ {i}]
(* last_fetch = now: a paced queue has its interval ahead of it again, an  *)
(* unpaced one stays in time.                                              *)
LookedInto(d, i) == due' = [due EXCEPT ![d] = @ \ ({i} \ Unpaced)]

(* fetchMsg yields nothing: on to the next queue, or back to the top. *)
FetchNone(d) ==
  /\ pc[d] = "fetch"
  /\ \/ /\ InTime(d, idx[d]) /\ Fetchable(d, idx[d]) = {}
        /\ LookedInto(d, idx[d])
        /\ UNCHANGED skipped
     \/ /\ ~InTime(d, idx[d])
        /\ skipped' = [skipped EXCEPT ![d] = @ \cup {idx[d]}]
        /\ UNCHANGED due
  /\ IF idx[d] < LastQueue
     THEN idx' = [idx EXCEPT ![d] = @ + 1] /\ UNCHANGED pc
     ELSE pc' = [pc EXCEPT ![d] = "top"] /\ UNCHANGED idx
  /\ UNCHANGED <<objVars, readerVars, cur, cleaned, credits, scanFrom,
                 listenVars, pipeVars, extVars>>

(* fetchMsg yields m, and run marks it in process before writing it.  No   *)
(* other thread tells the store from the fetch: only this one fetches, and *)
(* markFinished skips what is not in process.                              *)
Fetch(d, m) ==
  /\ pc[d] = "fetch" /\ InTime(d, idx[d])
  /\ m \in Fetchable(d, idx[d]) /\ Chosen(m, Fetchable(d, idx[d]))
  /\ inProcess' = [inProcess EXCEPT ![m] = TRUE]
  /\ cur' = [cur EXCEPT ![d] = m]
  /\ LookedInto(d, idx[d])
  /\ pc' = [pc EXCEPT ![d] = "write"]
  /\ UNCHANGED <<stage, qid, stamp, identity, finished, written, readerVars, idx,
                 cleaned, credits, scanFrom, skipped, listenVars, pipeVars,
                 extVars>>

(* Writev_nByte; its result is not looked at. *)
Write(d) ==
  /\ pc[d] = "write"
  /\ \E r \in {"sent"} \cup (IF WriteCanFail THEN {"failed"} ELSE {}) :
       written' = [written EXCEPT ![cur[d]] = r]
  /\ pc' = [pc EXCEPT ![d] = "finish"]
  /\ UNCHANGED <<stage, qid, stamp, identity, inProcess, finished, readerVars,
                 idx, cur, cleaned, credits, due, scanFrom, skipped,
                 listenVars, pipeVars, extVars>>

(* Complete what needs no response.  Towards the switch a message costs a  *)
(* credit; towards the controller one message is sent per round.           *)
Finish(d) ==
  /\ pc[d] = "finish"
  /\ finished' = [finished EXCEPT ![cur[d]] = @ \/ NeedNoTime(cur[d])]
  /\ cur' = [cur EXCEPT ![d] = NoMsg]
  /\ IF SWToControl(d)
     THEN /\ pc' = [pc EXCEPT ![d] = "top"]
          /\ UNCHANGED <<idx, credits, scanFrom, skipped>>
     ELSE /\ credits' = [credits EXCEPT ![d] = @ - 1]
          /\ StartScan(d, credits[d] - 1)
  /\ UNCHANGED <<stage, qid, stamp, identity, inProcess, written, readerVars,
                 cleaned, due, listenVars, pipeVars, extVars>>

(* Time passes: the interval of a paced queue is over, or the clock has    *)
(* caught up with the last_fetch of a queue.                               *)
Elapse(d, i) ==
  /\ i \notin due[d]
  /\ due' = [due EXCEPT ![d] = @ \cup {i}]
  /\ UNCHANGED <<objVars, readerVars, pc, idx, cur, cleaned, credits, scanFrom,
                 skipped, listenVars, pipeVars, extVars>>

(* The clock of the day is set back so far that less than interval_ms has  *)
(* gone by since a queue's last_fetch; for several queues, several steps.  *)
SetBack(d, i) ==
  /\ i \in due[d] /\ setbacks < MaxSetBacks
  /\ due' = [due EXCEPT ![d] = @ \ {i}]
  /\ setbacks' = setbacks + 1
  /\ UNCHANGED <<objVars, readerVars, pc, idx, cur, cleaned, credits, scanFrom,
                 skipped, listenVars, pipeVars, pipe, processed, lost, crashed>>

-----------------------------------------------------------------------------
(* The listener thread of direction d.                                     *)

(***************************************************************************)
(* mkfifo returns 0 when it creates the FIFO, and 0 is then read as the    *)
(* descriptor: the listener reads standard input.  It hears the switch     *)
(* only if the FIFO was there and its name carries the datapath id once.   *)
(***************************************************************************)
ListenOpen(d) ==
  /\ lpc[d] = "open"
  /\ \E exists \in FifoExists :
       lpc' = [lpc EXCEPT ![d] =
                 IF exists /\ suffixes[d] = 1 THEN "read" ELSE "deaf"]
  /\ UNCHANGED <<objVars, readerVars, schedVars, lid, lidx, pipeVars, extVars>>

(* Read one identity; the switch writes only to the SERVER schedule's FIFO. *)
ListenRead(d) ==
  /\ lpc[d] = "read" /\ d = "SERVER" /\ pipe # <<>>
  /\ lid' = [lid EXCEPT ![d] = Head(pipe)]
  /\ lidx' = [lidx EXCEPT ![d] = 0]
  /\ pipe' = Tail(pipe)
  /\ lpc' = [lpc EXCEPT ![d] = "scan"]
  /\ UNCHANGED <<objVars, readerVars, schedVars, pipeVars, processed, lost,
                 setbacks, crashed>>

(* markFinished on one queue; stop at the first queue that had a match. *)
ListenScan(d) ==
  /\ lpc[d] = "scan"
  /\ MarkFirst(Awaiting(d, lidx[d], lid[d]))
  /\ IF Awaiting(d, lidx[d], lid[d]) # {} \/ lidx[d] = LastQueue
     THEN lpc' = [lpc EXCEPT ![d] = "read"] /\ UNCHANGED lidx
     ELSE lidx' = [lidx EXCEPT ![d] = @ + 1] /\ UNCHANGED lpc
  /\ UNCHANGED <<stage, qid, stamp, identity, inProcess, written, readerVars,
                 schedVars, lid, pipeVars, extVars>>

-----------------------------------------------------------------------------
(* The switch works off a message; a FLOW_MOD's cookie goes to the FIFO,   *)
(* unless the report is lost.                                              *)
SwitchProcess(m) ==
  /\ Dir[m] = "SERVER" /\ written[m] = "sent" /\ m \notin processed
  /\ processed' = processed \cup {m}
  /\ \/ Kind[m] \in FlowMods /\ pipe' = Append(pipe, Ident[m]) /\ UNCHANGED lost
     \/ Kind[m] \in FlowMods /\ RespMayBeLost
           /\ lost' = lost \cup {m} /\ UNCHANGED pipe
     \/ Kind[m] \notin FlowMods /\ UNCHANGED <<pipe, lost>>
  /\ UNCHANGED <<objVars, readerVars, schedVars, listenVars, pipeVars, setbacks,
                 crashed>>

-----------------------------------------------------------------------------
ReaderGoesOn(d) == NameOwnPipe(d) \/ NameOtherPipe(d) \/ SetOtherDpId(d)
                   \/ PutMsg(d) \/ TouchMsg(d)
Reader(d)   == (\E m \in Msg : Receive(d, m)) \/ ReaderGoesOn(d)
Run(d)      == Top(d) \/ Clean(d) \/ FetchNone(d) \/ (\E m \in Msg : Fetch(d, m))
               \/ Write(d) \/ Finish(d)
Listener(d) == ListenOpen(d) \/ ListenRead(d) \/ ListenScan(d)
Clock(d, i) == Elapse(d, i) \/ SetBack(d, i)

Next ==
  /\ ~crashed
  /\ \/ \E d \in Schedules : Reader(d) \/ Run(d) \/ Listener(d)
     \/ \E d \in Schedules, i \in Queues : Clock(d, i)
     \/ \E m \in Msg : SwitchProcess(m)

Spec == Init /\ [][Next]_vars

(***************************************************************************)
(* Fairness: the system schedules every thread (none of them blocks for    *)
(* ever: the loops poll), time passes (the clock is set back only finitely *)
(* often), and the switch works off what it is sent and answers a request. *)
(* Nobody is obliged to send anything else, nor to report.                 *)
(***************************************************************************)
Replies == {m \in Msg : Kind[m] \in {"FEATURES_REPLY", "STATS_REPLY"}}

Fairness ==
  /\ \A d \in Schedules : /\ WF_vars(~crashed /\ ReaderGoesOn(d))
                          /\ WF_vars(~crashed /\ Run(d))
                          /\ WF_vars(~crashed /\ Listener(d))
  /\ \A d \in Schedules, i \in Queues :
       WF_vars(~crashed /\ Elapse(d, i))
  /\ WF_vars(~crashed /\ \E m \in Msg : SwitchProcess(m))
  /\ \A m \in Replies : WF_vars(~crashed /\ Receive(Dir[m], m))

FairSpec == Spec /\ Fairness

-----------------------------------------------------------------------------
(* Safety.                                                                 *)

(***************************************************************************)
(* max_in_process is a window: what it lacks of its initial value is out   *)
(* with messages marked in process and not yet cleaned, save that the      *)
(* message in run's hand has not been charged yet.  cleanFinishMsg's       *)
(* count, msgNeedNoTime and the loop must agree for that to stay so.       *)
(***************************************************************************)
InHand(d) == IF pc[d] \in {"write", "finish"} THEN 1 ELSE 0

CreditBalance ==
  \A d \in Schedules \ {"CLIENT"} :
    credits[d] + cleaned[d] + Cardinality(InProcess(d))
      = MaxInProcess + InHand(d)

(* Towards the controller the window is none: credits are only added, and  *)
(* that direction stops for want of them only once so many messages have   *)
(* been cleaned that max_in_process has wrapped (schedule.cpp:117).        *)
Cleaned(d) == {m \in Msg : Dir[m] = d /\ stage[m] = "freed"}
UnthrottledUntilWrap ==
  \A d \in Schedules :
    SWToControl(d) /\ credits[d] <= 0
      => Cardinality(Cleaned(d)) > IntMax - MaxInProcess

(* cleanFinishMsg deletes no message that run has not yet tried to write,  *)
(* even if a report of the same cookie has finished it before the write    *)
(* (schedule.cpp:129-143).  The result of the write is not looked at, so a *)
(* failed one counts.                                                      *)
SentBeforeFreed == \A m \in Msg : stage[m] = "freed" => written[m] # "no"

(***************************************************************************)
(* What max_in_process is for: the switch never holds more than            *)
(* MaxInProcess flow changes that it will report and has not worked off.   *)
(***************************************************************************)
Backlog == {m \in Msg : /\ Dir[m] = "SERVER" /\ Kind[m] \in FlowMods
                        /\ identity[m] # 0
                        /\ written[m] = "sent" /\ m \notin processed}
SwitchBacklogBounded == Cardinality(Backlog) <= MaxInProcess

(***************************************************************************)
(* run sends by priority: when it takes a message from a queue, a queue    *)
(* above it that is not paced may still hold one that was there when run   *)
(* began to look through the queues only if the clock had been set back    *)
(* past that queue's last fetch when the scan came by (schedule.h:241);    *)
(* while the clock is steady there is none.                                *)
(***************************************************************************)
Urgent(d, i) ==
  {n \in Msg : /\ stage[n] = "queued" /\ Dir[n] = d /\ ~inProcess[n]
               /\ qid[n] < i /\ qid[n] < FirstPaced
               /\ stamp[n] <= scanFrom[d]}
PassedOver(d) == {n \in Msg : qid[n] \in skipped[d]}
StrictPriority ==
  [][\A m \in Msg : inProcess'[m] /\ ~inProcess[m]
       => /\ Urgent(Dir[m], qid[m]) \subseteq PassedOver(Dir[m])
          /\ setbacks = 0 => Urgent(Dir[m], qid[m]) = {}]_vars

(***************************************************************************)
(* A STATS_REQUEST stays in process until a STATS_REPLY of its xid has     *)
(* come in, or a FLOW_MOD whose cookie equals that xid has been worked off *)
(* (markFinished compares nothing but the identity): neither the write nor *)
(* any other reply or report finishes it.                                  *)
(***************************************************************************)
RequestAwaitsReply ==
  \A m \in Msg :
    Kind[m] = "STATS_REQUEST" /\ finished[m] /\ identity[m] # 0
      => \E r \in Msg :
           /\ Ident[r] = Ident[m]
           /\ \/ Kind[r] = "STATS_REPLY" /\ stage[r] # "absent"
              \/ Kind[r] \in FlowMods /\ r \in processed \ lost

(* The SERVER schedule's listener, the only one the switch reports to, is  *)
(* started only when the datapath id is in the name of its FIFO: the       *)
(* CLIENT's reader stores the name before the flag that starts it.         *)
ServerListenerNamed ==
  \A d \in Schedules \ {"CLIENT"} : lpc[d] # "off" => suffixes[d] > 0

(* The two schedules implement the Relay: nothing is lost, duplicated or   *)
(* reordered within a queue, and no more than MaxInProcess messages are in *)
(* process towards the switch.                                             *)
RelayState ==
  [m \in Msg |-> CASE stage[m] \in {"absent", "read"} -> "new"
                   [] stage[m] = "queued" /\ ~inProcess[m] -> "waiting"
                   [] stage[m] = "queued" /\ inProcess[m] -> "outstanding"
                   [] OTHER -> "done"]
RelayLane ==
  [m \in Msg |-> IF stage[m] \in {"absent", "read"} THEN 0 ELSE qid[m]]
Promise ==
  INSTANCE Relay WITH
    Direction <- Schedules, Lanes <- Queues, Toward <- Dir,
    Windowed <- Schedules \ {"CLIENT"}, Window <- MaxInProcess,
    state <- RelayState, lane <- RelayLane, turn <- stamp, accepted <- puts
ImplementsRelay == Promise!Spec

-----------------------------------------------------------------------------
(* Liveness.                                                               *)

(* What the proxy waits for in vain: the switch never got it, its report   *)
(* is lost, the listener does not hear, or the identity is a leftover that *)
(* no report carries (schedule.cpp:534 is reached only with instructions). *)
Silent ==
  {m \in Msg : /\ identity[m] # 0
               /\ \/ written[m] = "failed"
                  \/ m \in lost
                  \/ written[m] = "sent" /\ lpc[Dir[m]] = "deaf"
                  \/ Kind[m] \in Acknowledged /\ identity[m] # Ident[m]}

(* No queued message waits for ever, whatever queue it is in, as long as   *)
(* fewer than MaxInProcess are waited for in vain, each of which keeps its *)
(* credit for good: again and again the window opens and every queue has   *)
(* been emptied once the peer pauses.                                      *)
EveryMessageSent ==
  []<>(\/ crashed
       \/ Cardinality(Silent) >= MaxInProcess
       \/ \A m \in Msg : stage[m] = "queued" => written[m] # "no")

(* Every message that is sent is finished, so that its credit comes back   *)
(* (by itself, by the switch's FIFO or by a STATS_REPLY), unless it or one *)
(* of the same identity is waited for in vain.                             *)
EverySentIsFinished ==
  []<>(\/ crashed
       \/ \A m \in Msg : written[m] # "no" =>
            finished[m] \/ \E n \in Silent : identity[n] = identity[m])
=============================================================================
