--------------------------- MODULE SessionProofs ---------------------------
(***************************************************************************)
(* The safety properties of Session: what ends a reader, what makes a      *)
(* descriptor free for a FIFO, and what may kill the process.              *)
(***************************************************************************)
EXTENDS Session, TLAPS

(* No thread runs, or is signalled, before the main thread has started it. *)
StartInv ==
  /\ main = "connect" => \A d \in Directions : sched[d] = "off"
  /\ main \in {"connect", "s1", "s2", "t_server"} =>
       ~signalled /\ \A d \in Directions : reader[d] = "off"
  /\ main = "t_client" => reader["CLIENT"] = "off"

(* The main thread joins both readers before it deletes.                   *)
JoinInv ==
  /\ main = "join_server" => reader["CLIENT"] = "ended"
  /\ main \in {"delete_server", "delete_client", "exit"} =>
       \A d \in Directions : reader[d] = "ended"
  /\ deleted # {} => main \in {"delete_client", "exit"}

SomeReaderCloses == \E d \in Directions : reader[d] \in Closing
SomePeerGone == \E p \in Peers : peer[p] # "up"

(* A descriptor's number is free, or a FIFO's, only after a reader closed. *)
FdInv ==
  \A n \in Fds : fd[n] \in {"none", "fifo"} =>
    \/ n = "server_fd" /\ fd[n] = "none" /\ main = "connect"
    \/ SomeReaderCloses

(* A reader closes, and the other is signalled, only once a peer has gone. *)
PeerInv == SomeReaderCloses \/ signalled => SomePeerGone

SessionInv == /\ TypeOK /\ StartInv /\ JoinInv /\ FdInv /\ PeerInv
              /\ FifoReadOnlyWhenClosing /\ EstablishedSurvives

LEMMA InitSession == Init => SessionInv
<1> SUFFICES ASSUME Init PROVE SessionInv
  OBVIOUS
<1>1. TypeOK
  <2>1. /\ reader \in [Directions -> ReaderPcs] /\ on \in [Directions -> Objects]
        /\ sched \in [Directions -> {"off", "start", "run"}]
        /\ listener \in [Directions -> {"off", "wanted", "open"}]
        /\ peer \in [Peers -> {"up", "closed", "refused"}]
    BY DEF Init, ReaderPcs, Objects
  <2>2. fd \in [Fds -> Objects]
    BY DEF Init, Fds, Objects, Peers
  <2>3. \A d \in Directions : /\ (reader[d] = "blocked") <=> (on[d] # "none")
                              /\ (reader[d] = "put") <=> (hand[d] # "none")
    BY DEF Init
  <2>5. hand \in [Directions -> Kinds("CLIENT") \cup Kinds("SERVER") \cup {"none"}]
    BY DEF Init
  <2>4. signalled \in BOOLEAN /\ stuck \in BOOLEAN
    BY Zenon DEF Init
  <2> QED BY <2>1, <2>2, <2>3, <2>4, <2>5 DEF Init, TypeOK, MainPcs
<1>2. StartInv /\ JoinInv
  BY DEF Init, StartInv, JoinInv
<1>3. \A d \in Directions : reader[d] \notin Closing
  BY DEF Init, Closing
<1>4. FdInv
  BY DEF Init, FdInv, Fds
<1>5. PeerInv
  BY <1>3 DEF Init, PeerInv, SomeReaderCloses
<1>6. FifoReadOnlyWhenClosing /\ EstablishedSurvives
  BY DEF Init, FifoReadOnlyWhenClosing, EstablishedSurvives
<1> QED BY <1>1, <1>2, <1>4, <1>5, <1>6 DEF SessionInv

-----------------------------------------------------------------------------
(* Each action keeps the types.                                            *)

LEMMA SessionTypes ==
  ASSUME TypeOK, StartInv, [Next]_vars
  PROVE  TypeOK'
<1> USE DEF TypeOK, threads, MainPcs, ReaderPcs, Objects
<1>1. CASE Connect
  <2>1. PICK r \in {peer["controller"], "refused"} :
          peer' = [peer EXCEPT !["controller"] = r]
    BY <1>1 DEF Connect
  <2>2. peer' \in [Peers -> {"up", "closed", "refused"}]
    BY <2>1 DEF Peers
  <2>3. fd' \in [Fds -> Objects]
    BY <1>1 DEF Connect, Fds, Peers
  <2> QED BY <1>1, <2>2, <2>3 DEF Connect
<1>2. ASSUME NEW d \in Directions, StartScheduler(d) PROVE TypeOK'
  <2>1. main' \in {"s2", "t_server"}
    BY <1>2 DEF StartScheduler
  <2>2. sched' \in [Directions -> {"off", "start", "run"}]
    BY <1>2 DEF StartScheduler
  <2> QED BY <1>2, <2>1, <2>2 DEF StartScheduler
<1>3. CASE StartServerReader
  BY <1>3 DEF StartServerReader, StartInv, Directions
<1>4. CASE StartClientReader
  BY <1>4 DEF StartClientReader, StartInv, Directions
<1>5. CASE Join
  BY <1>5 DEF Join
<1>6. CASE Delete \/ Exit
  BY <1>6 DEF Delete, Exit, Directions
<1>7. CASE InstallHandler
  BY <1>7 DEF InstallHandler
<1>8. ASSUME NEW d \in Directions, Read(d) PROVE TypeOK'
  <2>1. Own(d) \in Fds
    BY DEF Own, Fds
  <2> PICK object \in Objects : object = fd[Own(d)]
    BY <2>1
  <2>2. /\ on' = [on EXCEPT ![d] = object] /\ on' \in [Directions -> Objects]
        /\ on'[d] = object
    BY <1>8 DEF Read
  <2>3. PICK pc \in {"close_client", "blocked"} :
          /\ reader' = [reader EXCEPT ![d] = pc]
          /\ pc = "blocked" <=> object # "none"
    <3>1. CASE object = "none"
      BY <1>8, <3>1 DEF Read
    <3>2. CASE object # "none"
      BY <1>8, <3>2 DEF Read
    <3> QED BY <3>1, <3>2
  <2>4. reader' \in [Directions -> ReaderPcs] /\ reader'[d] = pc
    BY <2>3
  <2>5. ASSUME NEW e \in Directions
        PROVE  (reader'[e] = "blocked") <=> (on'[e] # "none")
    BY <2>2, <2>3, <2>4
  <2>6. hand' = hand /\ reader[d] = "read"
    BY <1>8 DEF Read
  <2>7. ASSUME NEW e \in Directions
        PROVE  (reader'[e] = "put") <=> (hand'[e] # "none")
    BY <2>3, <2>6
  <2> QED BY <1>8, <2>2, <2>4, <2>5, <2>6, <2>7 DEF Read
<1>9. ASSUME NEW d \in Directions, NEW kind \in Kinds(d) \cup {"none"},
             ReadReturns(d, kind)
      PROVE  TypeOK'
  <2>1. PICK pc \in {"put", "close_client"} :
          /\ reader' = [reader EXCEPT ![d] = pc]
          /\ (pc = "put") <=> (kind # "none")
    BY <1>9 DEF ReadReturns
  <2>2. /\ reader[d] = "blocked"
        /\ on' = [on EXCEPT ![d] = "none"]
        /\ hand' = [hand EXCEPT ![d] = kind]
    BY <1>9 DEF ReadReturns
  <2>3. ASSUME NEW e \in Directions
        PROVE  /\ (reader'[e] = "blocked") <=> (on'[e] # "none")
               /\ (reader'[e] = "put") <=> (hand'[e] # "none")
    BY <2>1, <2>2
  <2>4. kind \in Kinds("CLIENT") \cup Kinds("SERVER") \cup {"none"}
    BY DEF Directions
  <2> QED BY <1>9, <2>1, <2>2, <2>3, <2>4 DEF ReadReturns
<1>10. ASSUME NEW d \in Directions, Put(d) PROVE TypeOK'
  <2>1. listener' \in [Directions -> {"off", "wanted", "open"}]
    BY <1>10 DEF Put
  <2>2. /\ reader[d] = "put"
        /\ UNCHANGED <<main, on, sched, deleted, fd, signalled, stuck, peer>>
    BY <1>10 DEF Put
  <2>3. CASE child' = "killed" /\ UNCHANGED <<reader, hand, queued>>
    BY <2>1, <2>2, <2>3
  <2>4. CASE /\ queued' = queued \cup {d}
             /\ reader' = [reader EXCEPT ![d] = "read"]
             /\ hand' = [hand EXCEPT ![d] = "none"]
             /\ UNCHANGED child
    <3>1. ASSUME NEW e \in Directions
          PROVE  /\ (reader'[e] = "blocked") <=> (on'[e] # "none")
                 /\ (reader'[e] = "put") <=> (hand'[e] # "none")
        BY <2>2, <2>4
    <3> QED BY <2>1, <2>2, <2>4, <3>1
  <2> QED BY <1>10, <2>3, <2>4 DEF Put
<1>11. ASSUME NEW d \in Directions, CloseClient(d) \/ CloseServer(d) PROVE TypeOK'
  BY <1>11 DEF CloseClient, CloseServer, Fds
<1>12. CASE Kill
  <2>1. signalled' \in BOOLEAN
    BY <1>12, Zenon DEF Kill
  <2> QED BY <1>12, <2>1 DEF Kill
<1>13. CASE Deliver
  <2>1. stuck' \in BOOLEAN
    <3>1. CASE reader["SERVER"] = "start"
      BY <1>13, <3>1, Zenon DEF Deliver
    <3>2. CASE reader["SERVER"] # "start"
      BY <1>13, <3>2, Zenon DEF Deliver
    <3> QED BY <3>1, <3>2
  <2>2. signalled' \in BOOLEAN
    BY <1>13, Zenon DEF Deliver
  <2>3. UNCHANGED <<main, sched, queued, listener, deleted, fd, peer>>
    BY <1>13 DEF Deliver
  <2>4. /\ child' \in {"killed", child}
        /\ \/ UNCHANGED <<reader, on, hand>>
           \/ /\ reader' = [reader EXCEPT !["SERVER"] = "ended"]
              /\ on' = [on EXCEPT !["SERVER"] = "none"]
              /\ hand' = [hand EXCEPT !["SERVER"] = "none"]
    <3>1. CASE reader["SERVER"] = "start"
      BY <1>13, <3>1 DEF Deliver
    <3>2. CASE reader["SERVER"] # "start"
      BY <1>13, <3>2 DEF Deliver
    <3> QED BY <3>1, <3>2
  <2> QED BY <2>1, <2>2, <2>3, <2>4
<1>14. ASSUME NEW d \in Directions, Scheduler(d) \/ TouchDeleted(d) PROVE TypeOK'
  BY <1>14 DEF Scheduler, SetConf, Write, OpenFifo, TouchDeleted
<1>15. ASSUME NEW p \in Peers, PeerCloses(p) PROVE TypeOK'
  BY <1>15 DEF PeerCloses
<1>16. CASE UNCHANGED vars
  BY <1>16 DEF vars
<1> QED BY <1>1, <1>2, <1>3, <1>4, <1>5, <1>6, <1>7, <1>8, <1>9, <1>10, <1>11,
           <1>12, <1>13, <1>14, <1>15, <1>16
        DEF Next, Main, Reader, ReaderGoesOn

-----------------------------------------------------------------------------
(* What has ended or gone stays so, and only the main thread starts or     *)
(* deletes anything.                                                       *)

LEMMA ReadersOnlyClose ==
  ASSUME TypeOK, StartInv, [Next]_vars, NEW d \in Directions
  PROVE  /\ reader[d] \in Closing => reader'[d] \in Closing
         /\ reader[d] = "ended" => reader'[d] = "ended"
<1> USE DEF TypeOK, Closing, threads, vars
<1>1. CASE Main
  BY <1>1 DEF Main, Connect, StartScheduler, StartServerReader,
              StartClientReader, Join, Delete, Exit, StartInv, Directions
<1>2. CASE InstallHandler \/ Kill
  BY <1>2 DEF InstallHandler, Kill
<1>3. CASE Deliver
  <2>1. CASE reader["SERVER"] = "start"
    BY <1>3, <2>1 DEF Deliver
  <2>2. CASE reader["SERVER"] # "start"
    BY <1>3, <2>2 DEF Deliver
  <2> QED BY <2>1, <2>2
<1>4. ASSUME NEW e \in Directions, Reader(e)
      PROVE  /\ reader[d] \in Closing => reader'[d] \in Closing
             /\ reader[d] = "ended" => reader'[d] = "ended"
  <2>1. CASE UNCHANGED reader
    BY <2>1
  <2>2. CASE reader' # reader
    <3>1. PICK pc \in ReaderPcs :
            /\ reader' = [reader EXCEPT ![e] = pc]
            /\ reader[e] # "ended"
            /\ reader[e] \in Closing => pc \in Closing
      BY <1>4, <2>2 DEF Reader, ReaderGoesOn, Read, ReadReturns, Put,
                        CloseClient, CloseServer, ReaderPcs
    <3> QED BY <3>1
  <2> QED BY <2>1, <2>2
<1>5. CASE UNCHANGED reader
  BY <1>5
<1> QED BY <1>1, <1>2, <1>3, <1>4, <1>5
        DEF Next, Scheduler, SetConf, Write, OpenFifo, TouchDeleted, PeerCloses

LEMMA PeersStayGone ==
  ASSUME TypeOK, [Next]_vars, NEW p \in Peers, peer[p] # "up"
  PROVE  peer'[p] # "up"
<1> USE DEF TypeOK, threads, vars
<1>1. CASE Connect
  <2>1. PICK r \in {peer["controller"], "refused"} :
          peer' = [peer EXCEPT !["controller"] = r]
    BY <1>1 DEF Connect
  <2> QED BY <2>1
<1>2. ASSUME NEW q \in Peers, PeerCloses(q) PROVE peer'[p] # "up"
  BY <1>2 DEF PeerCloses
<1>3. CASE UNCHANGED peer
  BY <1>3
<1> QED BY <1>1, <1>2, <1>3
        DEF Next, Main, StartScheduler, StartServerReader, StartClientReader,
            Join, Delete, Exit, InstallHandler, Kill, Deliver, Reader,
            ReaderGoesOn, Read, ReadReturns, Put, CloseClient, CloseServer,
            Scheduler, SetConf, Write, OpenFifo, TouchDeleted

LEMMA ClosingLasts ==
  ASSUME TypeOK, StartInv, [Next]_vars
  PROVE  /\ SomeReaderCloses => SomeReaderCloses'
         /\ SomePeerGone => SomePeerGone'
BY ReadersOnlyClose, PeersStayGone DEF SomeReaderCloses, SomePeerGone

LEMMA OnlyMainStarts ==
  ASSUME TypeOK, [Next]_vars, ~Main
  PROVE  /\ main' = main /\ deleted' = deleted
         /\ signalled' => signalled \/ reader["CLIENT"] # "off"
         /\ \A d \in Directions :
              /\ ~(signalled /\ d = "SERVER") /\ reader[d] = "off"
                   => reader'[d] = "off"
              /\ sched[d] = "off" => sched'[d] = "off"
<1> USE DEF TypeOK, threads, vars
<1>1. CASE InstallHandler \/ Kill
  BY <1>1 DEF InstallHandler, Kill
<1>2. CASE Deliver
  <2>1. CASE reader["SERVER"] = "start"
    BY <1>2, <2>1 DEF Deliver
  <2>2. CASE reader["SERVER"] # "start"
    BY <1>2, <2>2 DEF Deliver
  <2> QED BY <2>1, <2>2
<1> QED BY <1>1, <1>2
        DEF Next, Reader, ReaderGoesOn, Read, ReadReturns, Put, CloseClient,
            CloseServer, Scheduler, SetConf, Write, OpenFifo, TouchDeleted,
            PeerCloses

-----------------------------------------------------------------------------
LEMMA StartStep ==
  ASSUME TypeOK, StartInv, [Next]_vars
  PROVE  StartInv'
<1>1. CASE Main
  BY <1>1 DEF Main, Connect, StartScheduler, StartServerReader,
              StartClientReader, Join, Delete, Exit, StartInv, TypeOK,
              Directions, threads
<1>2. CASE ~Main
  BY <1>2, OnlyMainStarts DEF StartInv, Directions
<1> QED BY <1>1, <1>2

LEMMA JoinStep ==
  ASSUME TypeOK, StartInv, JoinInv, [Next]_vars
  PROVE  JoinInv'
<1>1. \A d \in Directions : reader[d] = "ended" => reader'[d] = "ended"
  BY ReadersOnlyClose
<1>2. CASE Main
  <2>1. CASE Join
    <3>1. deleted' = {} /\ reader' = reader
      BY <2>1 DEF Join, JoinInv
    <3>2. CASE main = "join_client"
      BY <2>1, <3>1, <3>2 DEF Join, JoinInv
    <3>3. CASE main = "join_server"
      BY <2>1, <3>1, <3>3 DEF Join, JoinInv, Directions
    <3> QED BY <2>1, <3>2, <3>3 DEF Join
  <2>2. CASE Delete
    BY <2>2, <1>1 DEF Delete, JoinInv
  <2>3. CASE Exit
    BY <2>3 DEF Exit, JoinInv, threads
  <2>4. CASE Connect \/ StartServerReader \/ StartClientReader
    BY <2>4 DEF Connect, StartServerReader, StartClientReader, JoinInv
  <2>5. ASSUME NEW d \in Directions, StartScheduler(d) PROVE JoinInv'
    BY <2>5 DEF StartScheduler, JoinInv
  <2> QED BY <1>2, <2>1, <2>2, <2>3, <2>4, <2>5 DEF Main
<1>3. CASE ~Main
  BY <1>1, <1>3, OnlyMainStarts DEF JoinInv, Directions
<1> QED BY <1>2, <1>3

(* Before a reader closes, descriptors change only when the controller's   *)
(* is opened: a scheduler that runs finds none of them free.               *)
LEMMA FdStep ==
  ASSUME TypeOK, StartInv, FdInv, [Next]_vars
  PROVE  FdInv'
<1> USE DEF TypeOK, threads, vars
<1>1. CASE SomeReaderCloses
  BY <1>1, ClosingLasts DEF FdInv
<1> SUFFICES ASSUME ~SomeReaderCloses PROVE FdInv'
  BY <1>1
<1>2. CASE Connect
  BY <1>2 DEF Connect, FdInv, Fds, Peers
<1>3. ASSUME NEW d \in Directions, CloseClient(d) \/ CloseServer(d) PROVE FALSE
  BY <1>3 DEF CloseClient, CloseServer, SomeReaderCloses, Closing
<1>4. ASSUME NEW d \in Directions, OpenFifo(d) PROVE UNCHANGED fd
  <2>1. main # "connect"
    BY <1>4 DEF OpenFifo, StartInv
  <2>2. \A n \in Fds : fd[n] # "none"
    BY <2>1 DEF FdInv
  <2> QED BY <1>4, <2>2 DEF OpenFifo
<1>5. CASE UNCHANGED fd /\ ~Connect
  <2>1. main' = "connect" <=> main = "connect"
    <3>1. CASE Main
      BY <1>5, <3>1 DEF Main, StartScheduler, StartServerReader,
                        StartClientReader, Join, Delete, Exit
    <3>2. CASE ~Main
      BY <3>2, OnlyMainStarts
    <3> QED BY <3>1, <3>2
  <2> QED BY <1>5, <2>1 DEF FdInv
<1>6. UNCHANGED fd \/ Connect
  BY <1>3, <1>4
     DEF Next, Main, StartScheduler, StartServerReader, StartClientReader,
         Join, Delete, Exit, InstallHandler, Kill, Deliver, Reader,
         ReaderGoesOn, Read, ReadReturns, Put, Scheduler, SetConf, Write,
         TouchDeleted, PeerCloses
<1> QED BY <1>2, <1>5, <1>6

(* The first reader to close has read 0 or an error from a peer that is    *)
(* gone; every other close or signal comes after it.                       *)
LEMMA PeerStep ==
  ASSUME SessionInv, [Next]_vars
  PROVE  PeerInv'
<1> USE DEF SessionInv, TypeOK, threads, vars
<1>1. CASE SomePeerGone
  BY <1>1, ClosingLasts DEF PeerInv
<1> SUFFICES ASSUME ~SomeReaderCloses, ~signalled, ~SomePeerGone
             PROVE  ~SomeReaderCloses' /\ ~signalled'
  BY <1>1 DEF PeerInv
<1>2. \A d \in Directions : on[d] # "fifo"
  <2>1. \A d \in Directions : Other(d) \in Directions
    BY DEF Other, Directions
  <2> QED BY <2>1 DEF FifoReadOnlyWhenClosing, SomeReaderCloses
<1>3. ASSUME NEW d \in Directions, Read(d)
      PROVE  ~SomeReaderCloses' /\ ~signalled'
  <2>1. Own(d) \in Fds /\ main # "connect"
    BY <1>3 DEF Own, Fds, Read, StartInv
  <2>2. fd[Own(d)] # "none"
    BY <2>1 DEF FdInv
  <2>3. /\ reader' = [reader EXCEPT ![d] = "blocked"]
        /\ UNCHANGED signalled
    BY <1>3, <2>2 DEF Read
  <2> QED BY <2>3 DEF SomeReaderCloses, Closing
<1>4. ASSUME NEW d \in Directions, ReadReturns(d, "none")
      PROVE  FALSE
  <2>1. on[d] \in Peers
    BY <1>2, <1>4 DEF ReadReturns, Objects
  <2>2. ~Up(on[d])
    BY <1>2, <1>4 DEF ReadReturns
  <2> QED BY <2>1, <2>2 DEF Up, SomePeerGone
<1>5. ASSUME NEW d \in Directions,
             Put(d) \/ \E kind \in Kinds(d) : ReadReturns(d, kind)
      PROVE  ~SomeReaderCloses' /\ ~signalled'
  <2>1. \/ UNCHANGED reader
        \/ \E pc \in {"put", "read"} : reader' = [reader EXCEPT ![d] = pc]
    BY <1>5 DEF ReadReturns, Put, Kinds
  <2>2. UNCHANGED signalled
    BY <1>5 DEF ReadReturns, Put
  <2> QED BY <2>1, <2>2 DEF SomeReaderCloses, Closing
<1>6. ASSUME NEW d \in Directions, CloseClient(d) \/ CloseServer(d) PROVE FALSE
  BY <1>6 DEF CloseClient, CloseServer, SomeReaderCloses, Closing
<1>7. ~Kill /\ ~Deliver
  BY DEF Kill, Deliver, SomeReaderCloses, Closing, Directions
<1>8. CASE StartServerReader \/ StartClientReader \/ InstallHandler
  <2>1. PICK pc \in {"start", "read"} : \E d \in Directions :
          reader' = [reader EXCEPT ![d] = pc]
    BY <1>8 DEF StartServerReader, StartClientReader, InstallHandler, Directions
  <2>2. UNCHANGED signalled
    BY <1>8 DEF StartServerReader, StartClientReader, InstallHandler
  <2> QED BY <2>1, <2>2 DEF SomeReaderCloses, Closing
<1>9. CASE UNCHANGED <<reader, signalled>>
  BY <1>9 DEF SomeReaderCloses
<1>10. \/ UNCHANGED <<reader, signalled>>
       \/ StartServerReader \/ StartClientReader \/ InstallHandler
       \/ \E d \in Directions :
            Read(d) \/ Put(d) \/ \E kind \in Kinds(d) : ReadReturns(d, kind)
  BY <1>4, <1>6, <1>7
     DEF Next, Main, Connect, StartScheduler, Join, Delete, Exit, Reader,
         ReaderGoesOn, Scheduler, SetConf, Write, OpenFifo, TouchDeleted,
         PeerCloses
<1> QED BY <1>3, <1>5, <1>8, <1>9, <1>10

LEMMA FifoStep ==
  ASSUME TypeOK, StartInv, FdInv, FifoReadOnlyWhenClosing, [Next]_vars
  PROVE  FifoReadOnlyWhenClosing'
<1>1. \A d \in Directions : Other(d) \in Directions
  BY DEF Other, Directions
<1> SUFFICES ASSUME NEW d \in Directions, on'[d] = "fifo"
             PROVE  reader[Other(d)] \in Closing
  BY <1>1, ReadersOnlyClose DEF FifoReadOnlyWhenClosing
<1>2. CASE on[d] = "fifo"
  BY <1>2 DEF FifoReadOnlyWhenClosing
<1>3. CASE Read(d)
  <2>1. fd[Own(d)] = "fifo" /\ Own(d) \in Fds
    BY <1>3 DEF Read, TypeOK, Own, Fds
  <2>2. SomeReaderCloses
    BY <2>1 DEF FdInv
  <2>3. reader[d] \notin Closing
    BY <1>3 DEF Read, Closing
  <2> QED BY <2>2, <2>3 DEF SomeReaderCloses, Directions, Other
<1>4. ASSUME NEW e \in Directions, e # d, Read(e) PROVE on'[d] = on[d]
  BY <1>4 DEF Read, TypeOK
<1>5. ASSUME NEW e \in Directions, NEW kind, ReadReturns(e, kind)
      PROVE  on'[d] = on[d]
  <2>1. on' = [on EXCEPT ![e] = "none"]
    BY <1>5 DEF ReadReturns
  <2> QED BY <2>1 DEF TypeOK
<1>6. CASE Deliver
  <2>1. CASE reader["SERVER"] = "start"
    BY <1>2, <1>6, <2>1 DEF Deliver
  <2>2. CASE reader["SERVER"] # "start"
    BY <1>2, <1>6, <2>2 DEF Deliver, TypeOK
  <2> QED BY <2>1, <2>2
<1>7. \/ UNCHANGED on \/ Deliver
      \/ \E e \in Directions :
           Read(e) \/ \E kind \in Kinds(e) \cup {"none"} : ReadReturns(e, kind)
  BY DEF Next, Main, Connect, StartScheduler, StartServerReader,
         StartClientReader, Join, Delete, Exit, InstallHandler, Kill, Reader,
         ReaderGoesOn, Put, CloseClient, CloseServer, Scheduler, SetConf,
         Write, OpenFifo, TouchDeleted, PeerCloses, threads, vars
<1> QED BY <1>2, <1>3, <1>4, <1>5, <1>6, <1>7

(* Every way to be killed, by the state it needs.                          *)
LEMMA EstablishedStep ==
  ASSUME SessionInv, [Next]_vars
  PROVE  EstablishedSurvives'
<1> USE DEF SessionInv, TypeOK, threads, vars
<1>1. CASE child = "killed"
  BY <1>1 DEF Next, EstablishedSurvives
<1> SUFFICES ASSUME child # "killed", child' = "killed"
             PROVE  EstablishedSurvives'
  BY <1>1 DEF EstablishedSurvives
<1>2. SomePeerGone => SomePeerGone'
  BY ClosingLasts
<1>3. CASE Deliver
  BY <1>2, <1>3 DEF Deliver, PeerInv, SomePeerGone, EstablishedSurvives
<1>4. ASSUME NEW d \in Directions, Put(d) PROVE EstablishedSurvives'
  <2>1. UNCHANGED <<sched, hand>> /\ (sched[d] # "run" \/ hand[d] \in Unsafe)
    BY <1>4 DEF Put
  <2> QED BY <2>1 DEF EstablishedSurvives
<1>5. ASSUME NEW d \in Directions, Write(d) PROVE EstablishedSurvives'
  BY <1>5 DEF Write, Up, EstablishedSurvives
<1>6. ASSUME NEW d \in Directions, TouchDeleted(d) PROVE EstablishedSurvives'
  <2>1. reader[d] \in Closing
    BY <1>6 DEF TouchDeleted, JoinInv, Closing
  <2> QED BY <1>2, <2>1
          DEF PeerInv, SomeReaderCloses, SomePeerGone, EstablishedSurvives
<1> QED BY <1>3, <1>4, <1>5, <1>6
        DEF Next, Main, Connect, StartScheduler, StartServerReader,
            StartClientReader, Join, Delete, Exit, InstallHandler, Kill, Reader,
            ReaderGoesOn, Read, ReadReturns, CloseClient, CloseServer,
            Scheduler, SetConf, OpenFifo, PeerCloses

-----------------------------------------------------------------------------
LEMMA SessionInvariance == Spec => []SessionInv
<1>1. SessionInv /\ [Next]_vars => SessionInv'
  BY SessionTypes, StartStep, JoinStep, FdStep, PeerStep, FifoStep,
     EstablishedStep DEF SessionInv
<1> QED BY InitSession, <1>1, PTL DEF Spec

(* The state of the threads, descriptors and peers stays of its type, and  *)
(* a reader is blocked exactly while it reads from something.              *)
THEOREM SessionTypeCorrect == Spec => []TypeOK
<1>1. SessionInv => TypeOK
  BY DEF SessionInv
<1> QED BY SessionInvariance, <1>1, PTL

(* main deletes a schedule only when no reader runs or can still be        *)
(* started: it joins both first, and starts both before.                   *)
THEOREM ReadersOutlived == Spec => []DeletedAfterReaders
<1>1. SessionInv => DeletedAfterReaders
  BY DEF SessionInv, JoinInv, DeletedAfterReaders
<1> QED BY SessionInvariance, <1>1, PTL

(* A reader mistakes a FIFO for its socket only beside one that closes.    *)
THEOREM FifoOnlyWhenClosing == Spec => []FifoReadOnlyWhenClosing
<1>1. SessionInv => FifoReadOnlyWhenClosing
  BY DEF SessionInv
<1> QED BY SessionInvariance, <1>1, PTL

(* While both peers stay, no signal, no freed schedule and no broken pipe  *)
(* kills a session whose schedulers run: only an unsafe message, in a      *)
(* reader's hand when the process dies, may.                               *)
THEOREM EstablishedIsNotKilled == Spec => []EstablishedSurvives
<1>1. SessionInv => EstablishedSurvives
  BY DEF SessionInv
<1> QED BY SessionInvariance, <1>1, PTL
=============================================================================
