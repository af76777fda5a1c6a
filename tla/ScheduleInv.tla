---------------------------- MODULE ScheduleInv ----------------------------
(***************************************************************************)
(* The inductive invariant behind the safety properties of Schedule: why   *)
(* the account of the credits, the order of the queues and the priority of *)
(* a scan survive every step of every thread.                              *)
(***************************************************************************)
EXTENDS Schedule

Pushed(m) == stage[m] \in {"queued", "freed"}

(* What a reader thread has in hand. *)
ReaderInv ==
  \A d \in Schedules :
    /\ rpc[d] # "read" => rmsg[d] \in Msg /\ Dir[rmsg[d]] = d
    /\ rpc[d] \notin {"read", "touch"} => stage[rmsg[d]] = "read"

(* What a scheduler thread has in hand. *)
HandInv ==
  \A d \in Schedules :
    /\ pc[d] \in {"write", "finish"} =>
         /\ cur[d] \in Msg /\ Dir[cur[d]] = d
         /\ stage[cur[d]] = "queued" /\ inProcess[cur[d]]
    /\ pc[d] = "write" => written[cur[d]] = "no"

(* How a message's stage, its flags and its fate on the wire agree. *)
FlagInv ==
  \A m \in Msg :
    /\ ~Pushed(m) => ~inProcess[m]
    /\ Pushed(m) => qid[m] \in Queues
    /\ stage[m] = "freed" => inProcess[m]
    /\ ~inProcess[m] => written[m] = "no"
    /\ inProcess[m] /\ written[m] = "no"
         => pc[Dir[m]] = "write" /\ cur[Dir[m]] = m

(* Stamps number the messages of a direction in the order they were pushed. *)
OrderInv ==
  /\ \A m \in Msg : Pushed(m) => stamp[m] <= puts[Dir[m]]
  /\ \A m, n \in Msg :
       Pushed(m) /\ Pushed(n) /\ Dir[m] = Dir[n] /\ m # n
         => stamp[m] # stamp[n]

(* The credits are never overdrawn, and count only between two cleanings. *)
CreditInv ==
  /\ CreditBalance
  /\ \A d \in Schedules \ {"CLIENT"} :
       /\ pc[d] \in {"fetch", "write", "finish"} => credits[d] > 0
       /\ pc[d] # "clean" => cleaned[d] = 0
       /\ credits[d] >= 0

(* The queues the scan has passed held nothing that was there at its start. *)
ScanInv ==
  \A d \in Schedules :
    /\ scanFrom[d] <= puts[d]
    /\ pc[d] = "fetch" => Urgent(d, idx[d]) \subseteq PassedOver(d)

(* A FEATURES_REPLY comes from the switch. *)
AnnouncedBySwitch ==
  \A m \in Msg : Kind[m] = "FEATURES_REPLY" => Dir[m] = "CLIENT"

(* With a steady clock an unpaced queue is always looked into. *)
SteadyInv ==
  setbacks = 0 => \A d \in Schedules :
    /\ Unpaced \subseteq due[d]
    /\ skipped[d] \cap Unpaced = {}

(* The name of the FIFO is there before the flag and the listener. *)
NameInv ==
  \A d \in Schedules \ {"CLIENT"} :
    /\ getDpId[d] => suffixes[d] > 0
    /\ lpc[d] # "off" => suffixes[d] > 0
    /\ \A c \in Schedules : rpc[c] = "other_flag" /\ d = Other(c)
                                  => suffixes[d] > 0

IInv == /\ TypeOK /\ ReaderInv /\ HandInv /\ FlagInv /\ OrderInv
        /\ CreditInv /\ ScanInv /\ SteadyInv

-----------------------------------------------------------------------------
(* Responses: what finishes a message that waits for one.                  *)

(* What the switch has written to the FIFO. *)
Reported == {Ident[m] : m \in {n \in processed \ lost : Kind[n] \in FlowMods}}

(* Where identities come from: a message keeps the one it was given, and   *)
(* the SERVER listener alone hears the cookies that were reported.         *)
IdentityInv ==
  /\ \A m \in Msg : stage[m] # "absent" => identity[m] \in IdentChoice(m)
  /\ \A m \in Msg : finished[m] => inProcess[m]
  /\ \A i \in DOMAIN pipe : pipe[i] \in Reported
  /\ \A d \in Schedules : lpc[d] = "scan" => d = "SERVER" /\ lid[d] \in Reported

(* The flow changes whose completion the switch reports, those of them it  *)
(* has worked off, and those that count as finished.                       *)
Tracked   == {m \in Msg : /\ Dir[m] = "SERVER" /\ Kind[m] \in FlowMods
                          /\ identity[m] # 0}
WorkedOff == Tracked \cap processed
Completed == {m \in Tracked : finished[m]}

(* Reports not yet matched: in the FIFO, or in the listener's hand. *)
InPipe == {i \in DOMAIN pipe : pipe[i] # 0}
InEar  == IF \E d \in Schedules : lpc[d] = "scan" /\ lid[d] # 0 THEN 1 ELSE 0

(* Every completed flow change has used up a report, and there are no more *)
(* reports than flow changes worked off.                                   *)
ReportInv ==
  /\ \A m \in Msg : stage[m] = "freed" => finished[m]
  /\ \A m \in processed : Dir[m] = "SERVER" /\ written[m] = "sent"
  /\ Cardinality(Completed) + Cardinality(InPipe) + InEar
       <= Cardinality(WorkedOff)

(* What a session must grant for its responses to be told apart: no flow   *)
(* change goes by the xid of a STATS_REQUEST, nor by 0 while its cookie is  *)
(* another.                                                                 *)
FlowsToldApart ==
  \A m \in Msg : Kind[m] \in FlowMods =>
    /\ 0 \in IdentChoice(m) => Ident[m] = 0
    /\ \A r \in Msg : Kind[r] = "STATS_REQUEST" /\ Ident[r] # 0
                          => Ident[r] \notin IdentChoice(m)
=============================================================================
