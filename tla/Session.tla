------------------------------ MODULE Session ------------------------------
(***************************************************************************)
(* The life of one tunnelled session: the process do_tcp_tunnel forks for  *)
(* a switch (main.cpp).  Its main thread connects to the controller,       *)
(* starts two schedulers and two readers, joins the readers and deletes    *)
(* the schedules.  Every thread uses the same two descriptors; the reader  *)
(* that loses its peer closes both.  What the threads do with messages is  *)
(* in Schedule; here a message is a step.                                  *)
(*                                                                         *)
(* External: the two peers, and the kernel's descriptors, signals and      *)
(* sockets.  A socket is released when no descriptor and no blocked read   *)
(* refers to it; the next descriptor opened gets the lowest free number.   *)
(***************************************************************************)
EXTENDS Naturals, FiniteSets

Directions == {"CLIENT", "SERVER"}  \* a reader and a scheduler for each
Peers == {"switch", "controller"}
Fds == {"client_fd", "server_fd"}
Other(d) == IF d = "CLIENT" THEN "SERVER" ELSE "CLIENT"

(* The descriptor a direction's reader reads, and the one its scheduler    *)
(* writes to.                                                              *)
Own(d) == IF d = "CLIENT" THEN "client_fd" ELSE "server_fd"
Target(d) == Own(Other(d))

(* Messages by what putMessage does with them; Schedule and FlowModRewrite  *)
(* have the handlers.  FEATURES_REPLY and a flow mod without instructions   *)
(* are given no queue, and a flow mod that is too long overruns the scratch *)
(* buffer: "UNSAFE".  At an action that says it has no length the reader    *)
(* stays for ever: "ENDLESS".                                               *)
Kinds(d) == IF d = "CLIENT" THEN {"OTHER", "FEATURES_REPLY"}
                            ELSE {"OTHER", "UNSAFE", "ENDLESS"}
Unsafe == {"FEATURES_REPLY", "UNSAFE"}

VARIABLES
  child,      \* "running", "exited" or "killed"
  main,       \* where the main thread is
  reader,     \* where the readers are
  on,         \* what a reader blocked in read reads from
  hand,       \* the kind of the message a reader has in putMessage
  sched,      \* "off", "start" (conf not set yet) or "run"
  queued,     \* directions with messages to write
  listener,   \* "off", "wanted" (datapath id known) or "open"
  deleted,    \* schedules that are deleted
  fd,         \* what the two descriptor numbers stand for
  signalled,  \* SIGUSR1 is pending for read_server
  stuck,      \* read_server was ended inside the allocator, its lock is held
  peer        \* "up", "closed", or "refused" for a controller not reached

threads == <<main, reader, on, hand, sched, queued, listener, deleted>>
vars == <<child, threads, fd, signalled, stuck, peer>>

MainPcs == {"connect", "s1", "s2", "t_server", "t_client", "join_client",
            "join_server", "delete_server", "delete_client", "exit"}
ReaderPcs == {"off", "start", "read", "blocked", "put", "close_client",
              "close_server", "kill", "ended"}
Closing == {"close_client", "close_server", "kill", "ended"}
Objects == Peers \cup {"fifo", "none"}

TypeOK ==
  /\ child \in {"running", "exited", "killed"}
  /\ main \in MainPcs
  /\ reader \in [Directions -> ReaderPcs]
  /\ on \in [Directions -> Objects]
  /\ hand \in [Directions -> Kinds("CLIENT") \cup Kinds("SERVER") \cup {"none"}]
  /\ sched \in [Directions -> {"off", "start", "run"}]
  /\ queued \subseteq Directions
  /\ listener \in [Directions -> {"off", "wanted", "open"}]
  /\ deleted \subseteq Directions
  /\ fd \in [Fds -> Objects]
  /\ signalled \in BOOLEAN /\ stuck \in BOOLEAN
  /\ peer \in [Peers -> {"up", "closed", "refused"}]
  /\ \A d \in Directions : /\ (reader[d] = "blocked") <=> (on[d] # "none")
                           /\ (reader[d] = "put") <=> (hand[d] # "none")

(* The child begins with the switch's connection alone. *)
Init ==
  /\ child = "running"
  /\ main = "connect"
  /\ reader = [d \in Directions |-> "off"]
  /\ on = [d \in Directions |-> "none"]
  /\ hand = [d \in Directions |-> "none"]
  /\ sched = [d \in Directions |-> "off"]
  /\ queued = {}
  /\ listener = [d \in Directions |-> "off"]
  /\ deleted = {}
  /\ fd = [client_fd |-> "switch", server_fd |-> "none"]
  /\ signalled = FALSE /\ stuck = FALSE
  /\ peer = [p \in Peers |-> "up"]

-----------------------------------------------------------------------------
(* The main thread.                                                        *)

(* Socket and Socket_Peer_Connect; a failure is printed and no more. *)
Connect ==
  /\ main = "connect"
  /\ main' = "s1"
  /\ fd' = [fd EXCEPT !.server_fd = "controller"]
  /\ \E r \in {peer["controller"], "refused"} :
       peer' = [peer EXCEPT !["controller"] = r]
  /\ UNCHANGED <<child, reader, on, hand, sched, queued, listener, deleted,
                 signalled, stuck>>

(* pthread_create of schedule_thread; it sets conf when it first runs. *)
StartScheduler(d) ==
  /\ main = (IF d = "CLIENT" THEN "s1" ELSE "s2")
  /\ main' = (IF d = "CLIENT" THEN "s2" ELSE "t_server")
  /\ sched' = [sched EXCEPT ![d] = "start"]
  /\ UNCHANGED <<child, reader, on, hand, queued, listener, deleted, fd,
                 signalled, stuck, peer>>

(* pthread_create of the readers: read_server first, so that read_client   *)
(* has its thread id.                                                      *)
StartServerReader ==
  /\ main = "t_server"
  /\ main' = "t_client"
  /\ reader' = [reader EXCEPT !["SERVER"] = "start"]
  /\ UNCHANGED <<child, on, hand, sched, queued, listener, deleted, fd,
                 signalled, stuck, peer>>

StartClientReader ==
  /\ main = "t_client"
  /\ main' = "join_client"
  /\ reader' = [reader EXCEPT !["CLIENT"] = "read"]
  /\ UNCHANGED <<child, on, hand, sched, queued, listener, deleted, fd,
                 signalled, stuck, peer>>

(* Mutants: t_server is not joined; nobody is. *)
JoinClientOnly ==
  /\ main \in {"join_client", "join_server"}
  /\ main = "join_client" => reader["CLIENT"] = "ended"
  /\ main' = IF main = "join_client" THEN "join_server" ELSE "delete_server"
  /\ UNCHANGED <<child, reader, on, hand, sched, queued, listener, deleted,
                 fd, signalled, stuck, peer>>
NoJoin ==
  /\ main = "join_client"
  /\ main' = "delete_server"
  /\ UNCHANGED <<child, reader, on, hand, sched, queued, listener, deleted,
                 fd, signalled, stuck, peer>>
(* pthread_join of read_client, then of read_server. *)
Join ==
  /\ \/ main = "join_client" /\ reader["CLIENT"] = "ended" /\ main' = "join_server"
     \/ main = "join_server" /\ reader["SERVER"] = "ended" /\ main' = "delete_server"
  /\ UNCHANGED <<child, reader, on, hand, sched, queued, listener, deleted,
                 fd, signalled, stuck, peer>>

(* delete and exit(0), while the schedulers still run.  Both need the      *)
(* allocator.                                                              *)
Delete ==
  /\ ~stuck
  /\ \/ /\ main = "delete_server" /\ main' = "delete_client"
        /\ deleted' = deleted \cup {"SERVER"}
     \/ /\ main = "delete_client" /\ main' = "exit"
        /\ deleted' = deleted \cup {"CLIENT"}
  /\ UNCHANGED <<child, reader, on, hand, sched, queued, listener, fd,
                 signalled, stuck, peer>>

Exit ==
  /\ main = "exit" /\ ~stuck
  /\ child' = "exited"
  /\ UNCHANGED <<threads, fd, signalled, stuck, peer>>

-----------------------------------------------------------------------------
(* The readers.                                                            *)

(* read_server: signal(SIGUSR1, signal_handler). *)
InstallHandler ==
  /\ reader["SERVER"] = "start"
  /\ reader' = [reader EXCEPT !["SERVER"] = "read"]
  /\ UNCHANGED <<child, main, on, hand, sched, queued, listener, deleted,
                 fd, signalled, stuck, peer>>

(* read_ofp_msg begins: on a closed descriptor it fails at once; otherwise *)
(* the read keeps what it reads from, whatever becomes of the descriptor.  *)
Read(d) ==
  /\ reader[d] = "read"
  /\ reader' = [reader EXCEPT ![d] =
                  IF fd[Own(d)] = "none" THEN "close_client" ELSE "blocked"]
  /\ on' = [on EXCEPT ![d] = fd[Own(d)]]
  /\ UNCHANGED <<child, main, hand, sched, queued, listener, deleted, fd,
                 signalled, stuck, peer>>

Up(object) == object \in Peers /\ peer[object] = "up"

(* Mutant: the read goes on with the descriptor after it has returned. *)
ReadReturnsKept(d, kind) ==
  /\ reader[d] = "blocked"
  /\ on[d] = "fifo" \/ (kind # "none" <=> Up(on[d]))
  /\ reader' = [reader EXCEPT ![d] = IF kind # "none" THEN "put" ELSE "close_client"]
  /\ hand' = [hand EXCEPT ![d] = kind]
  /\ UNCHANGED <<child, main, on, sched, queued, listener, deleted, fd,
                 signalled, stuck, peer>>
(* It ends: with a message while the peer is up, with 0 or an error, kind  *)
(* "none", when it is not.  The FIFO yields cookies, nothing or EAGAIN.    *)
ReadReturns(d, kind) ==
  /\ reader[d] = "blocked"
  /\ on[d] = "fifo" \/ (kind # "none" <=> Up(on[d]))
  /\ reader' = [reader EXCEPT ![d] = IF kind # "none" THEN "put" ELSE "close_client"]
  /\ on' = [on EXCEPT ![d] = "none"]
  /\ hand' = [hand EXCEPT ![d] = kind]
  /\ UNCHANGED <<child, main, sched, queued, listener, deleted, fd, signalled,
                 stuck, peer>>

(* putMessage.  It may kill the process: by an access outside queues or the *)
(* scratch buffer, and by a handler's use of conf before schedule_thread    *)
(* has set it.  What else such an access may damage is left out.  The       *)
(* switch's FEATURES_REPLY makes both schedules want a listener.            *)
Put(d) ==
  /\ reader[d] = "put" /\ hand[d] # "ENDLESS"
  /\ listener' = [e \in Directions |->
                    IF hand[d] = "FEATURES_REPLY" /\ listener[e] = "off"
                    THEN "wanted" ELSE listener[e]]
  /\ \/ /\ sched[d] # "run" \/ hand[d] \in Unsafe
        /\ child' = "killed"
        /\ UNCHANGED <<reader, hand, queued>>
     \/ /\ queued' = queued \cup {d}
        /\ reader' = [reader EXCEPT ![d] = "read"]
        /\ hand' = [hand EXCEPT ![d] = "none"]
        /\ UNCHANGED child
  /\ UNCHANGED <<main, on, sched, deleted, fd, signalled, stuck, peer>>

(* Mutant: read_server leaves client_fd open. *)
CloseClientOwn(d) ==
  /\ reader[d] = "close_client"
  /\ fd' = IF d = "CLIENT" THEN [fd EXCEPT !.client_fd = "none"] ELSE fd
  /\ reader' = [reader EXCEPT ![d] = "close_server"]
  /\ UNCHANGED <<child, main, on, hand, sched, queued, listener, deleted,
                 signalled, stuck, peer>>
(* Close(client_fd), then Close(server_fd), in either reader. *)
CloseClient(d) ==
  /\ reader[d] = "close_client"
  /\ fd' = [fd EXCEPT !.client_fd = "none"]
  /\ reader' = [reader EXCEPT ![d] = "close_server"]
  /\ UNCHANGED <<child, main, on, hand, sched, queued, listener, deleted,
                 signalled, stuck, peer>>

(* Mutant: read_server reads on after closing. *)
CloseServerGoOn(d) ==
  /\ reader[d] = "close_server"
  /\ fd' = [fd EXCEPT !.server_fd = "none"]
  /\ reader' = [reader EXCEPT ![d] = IF d = "CLIENT" THEN "kill" ELSE "read"]
  /\ UNCHANGED <<child, main, on, hand, sched, queued, listener, deleted,
                 signalled, stuck, peer>>
(* Close(server_fd) and out of the loop. *)
CloseServer(d) ==
  /\ reader[d] = "close_server"
  /\ fd' = [fd EXCEPT !.server_fd = "none"]
  /\ reader' = [reader EXCEPT ![d] = IF d = "CLIENT" THEN "kill" ELSE "ended"]
  /\ UNCHANGED <<child, main, on, hand, sched, queued, listener, deleted,
                 signalled, stuck, peer>>

(* Mutant: nobody is signalled. *)
KillNobody ==
  /\ reader["CLIENT"] = "kill"
  /\ reader' = [reader EXCEPT !["CLIENT"] = "ended"]
  /\ UNCHANGED <<child, main, on, hand, sched, queued, listener, deleted,
                 fd, signalled, stuck, peer>>
(* read_client: pthread_kill(server_tid, SIGUSR1); an ended thread has none. *)
Kill ==
  /\ reader["CLIENT"] = "kill"
  /\ reader' = [reader EXCEPT !["CLIENT"] = "ended"]
  /\ signalled' = (reader["SERVER"] # "ended")
  /\ UNCHANGED <<child, main, on, hand, sched, queued, listener, deleted,
                 fd, stuck, peer>>

(* The signal reaches read_server: without a handler it ends the process,  *)
(* with it the thread, wherever that is, a putMessage's allocation too.    *)
Deliver ==
  /\ signalled /\ reader["SERVER"] # "ended"
  /\ signalled' = FALSE
  /\ IF reader["SERVER"] = "start"
     THEN child' = "killed" /\ UNCHANGED <<reader, on, hand, stuck>>
     ELSE /\ reader' = [reader EXCEPT !["SERVER"] = "ended"]
          /\ on' = [on EXCEPT !["SERVER"] = "none"]
          /\ hand' = [hand EXCEPT !["SERVER"] = "none"]
          /\ stuck' \in {FALSE} \cup {s \in {TRUE} : reader["SERVER"] = "put"}
          /\ UNCHANGED child
  /\ UNCHANGED <<main, sched, queued, listener, deleted, fd, peer>>

-----------------------------------------------------------------------------
(* The schedulers and their listeners.                                     *)

SetConf(d) ==
  /\ sched[d] = "start"
  /\ sched' = [sched EXCEPT ![d] = "run"]
  /\ UNCHANGED <<child, main, reader, on, hand, queued, listener, deleted,
                 fd, signalled, stuck, peer>>

(* Writev_nByte: nothing goes out on a closed descriptor or on the FIFO,   *)
(* which is open for reading; a peer that is gone may cost the process a   *)
(* SIGPIPE.                                                                *)
Write(d) ==
  /\ sched[d] = "run" /\ d \in queued
  /\ queued' = queued \ {d}
  /\ \/ UNCHANGED child
     \/ /\ fd[Target(d)] \in Peers /\ ~Up(fd[Target(d)])
        /\ child' = "killed"
  /\ UNCHANGED <<main, reader, on, hand, sched, listener, deleted, fd,
                 signalled, stuck, peer>>

(* The scheduler starts its listener, which opens the FIFO if there is one: *)
(* at the number of a descriptor that a reader has closed, or above both.   *)
OpenFifo(d) ==
  /\ sched[d] = "run" /\ listener[d] = "wanted"
  /\ listener' = [listener EXCEPT ![d] = "open"]
  /\ \/ UNCHANGED fd
     \/ \E n \in Fds :
          /\ fd[n] = "none" /\ (n = "server_fd" => fd["client_fd"] # "none")
          /\ fd' = [fd EXCEPT ![n] = "fifo"]
  /\ UNCHANGED <<child, main, reader, on, hand, sched, queued, deleted,
                 signalled, stuck, peer>>

(* run works on with a schedule that is deleted. *)
TouchDeleted(d) ==
  /\ sched[d] = "run" /\ d \in deleted
  /\ child' = "killed"
  /\ UNCHANGED <<threads, fd, signalled, stuck, peer>>

-----------------------------------------------------------------------------
PeerCloses(p) ==
  /\ peer[p] = "up"
  /\ p = "controller" => main # "connect"
  /\ peer' = [peer EXCEPT ![p] = "closed"]
  /\ UNCHANGED <<child, threads, fd, signalled, stuck>>

Main == \/ Connect \/ StartServerReader \/ StartClientReader \/ Join
        \/ Delete \/ Exit \/ \E d \in Directions : StartScheduler(d)
ReaderGoesOn(d) == \/ Read(d) \/ ReadReturns(d, "none") \/ Put(d)
                   \/ CloseClient(d) \/ CloseServer(d)
Reader(d) == ReaderGoesOn(d) \/ \E kind \in Kinds(d) : ReadReturns(d, kind)
Scheduler(d) == SetConf(d) \/ Write(d) \/ OpenFifo(d)

Next ==
  /\ child = "running"
  /\ \/ Main \/ InstallHandler \/ Kill \/ Deliver
     \/ \E d \in Directions : Reader(d) \/ Scheduler(d) \/ TouchDeleted(d)
     \/ \E p \in Peers : PeerCloses(p)

Spec == Init /\ [][Next]_vars

(***************************************************************************)
(* Fairness: the threads are scheduled and signals are delivered.  No peer *)
(* is obliged to close.  The switch keeps talking (it sends ECHO_REQUESTs  *)
(* when it hears nothing): a reader blocked on it gets a message in time.  *)
(* The FIFO, if a reader gets to read it, does not hold cookies for ever.  *)
(***************************************************************************)
Fairness ==
  /\ WF_vars(child = "running" /\ Main)
  /\ WF_vars(child = "running" /\ (InstallHandler \/ ReaderGoesOn("SERVER")))
  /\ WF_vars(child = "running" /\ (Kill \/ Reader("CLIENT")))
  /\ WF_vars(child = "running" /\ Deliver)
  /\ \A d \in Directions :
       /\ WF_vars(child = "running" /\ Scheduler(d))
       /\ SF_vars(child = "running" /\ on[d] = "fifo" /\ ReadReturns(d, "none"))

FairSpec == Spec /\ Fairness

-----------------------------------------------------------------------------
Ended == child # "running"

(* The schedules are deleted only when no reader can use them any more,     *)
(* nor be started.                                                          *)
DeletedAfterReaders ==
  deleted # {} => \A d \in Directions : reader[d] = "ended"

(* A reader takes the FIFO's bytes for its peer's only after the other one  *)
(* has begun to close the descriptors, and the session is lost anyway.      *)
FifoReadOnlyWhenClosing ==
  \A d \in Directions :
    on[d] = "fifo" => reader[Other(d)] \in Closing

(* A session that has come up is not killed while both peers stay, but by   *)
(* what they send: the process dies only before both schedulers run, after  *)
(* a peer has gone, or of an unsafe message in a reader's hand, of which    *)
(* the FEATURES_REPLY of every handshake is one (schedule.cpp:21).          *)
EstablishedSurvives ==
  child = "killed" => \/ \E d \in Directions : sched[d] # "run"
                      \/ \E p \in Peers : peer[p] # "up"
                      \/ \E d \in Directions : hand[d] \in Unsafe

(* When the switch closes, the session ends, unless read_server was ended   *)
(* inside the allocator: then main waits for its lock for ever.             *)
SwitchCloseEndsSession == peer["switch"] = "closed" ~> Ended \/ stuck

(* When the controller closes or was never reached, the session ends, but   *)
(* only because the switch sends another message: read_client is not told.  *)
(* A read_server that stays in an endless message hears of nothing.         *)
ControllerLossEndsSession ==
  peer["controller"] # "up" ~> Ended \/ stuck \/ hand["SERVER"] = "ENDLESS"
=============================================================================
