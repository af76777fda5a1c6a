------------------------------- MODULE Tunnel -------------------------------
(***************************************************************************)
(* The proxy around its sessions (do_tcp_tunnel, main.cpp): it binds the   *)
(* tunnel's port, accepts a switch, forks a child for it and closes its    *)
(* own copy of the connection.  It never waits for a child, a child never  *)
(* closes the listening socket it inherits, and of the wrappers in         *)
(* error_check.cpp only Accept's result is looked at.  The proxy may end   *)
(* and be started again while children live.                               *)
(*                                                                         *)
(* A child is known by the connection it was forked for; what it does is   *)
(* in Session.  External: the switches, the operator, and the kernel's     *)
(* sockets and processes.                                                  *)
(***************************************************************************)
EXTENDS Naturals, Sequences, FiniteSets

CONSTANTS
  Conns,      \* the connections switches may make
  Proxy,      \* the proxy process itself; no connection
  Backlog,    \* Listen's second argument: 10 in the source
  MaxProcs,   \* the children, zombies included, a proxy may have
  MaxStarts   \* how often the proxy is started

ASSUME TunnelAssumption ==
  /\ Proxy \notin Conns
  /\ Backlog \in Nat /\ MaxProcs \in Nat /\ MaxStarts \in Nat

VARIABLES
  proxy,    \* "down", or where do_tcp_tunnel is: "accept", "fork", "close"
  starts,   \* which proxy this is
  onPort,   \* whether it got the tunnel's port
  port,     \* the proxy whose listening socket is on the port, 0 for none
  backlog,  \* the connections that wait there
  conn,     \* what has become of a connection
  client,   \* the connection in hand
  child,    \* "none", "alive", "zombie" or "reaped"
  parent,   \* the proxy that forked it
  holders   \* the processes that hold a connection's descriptor

sockets == <<onPort, port, backlog, conn, client>>
children == <<child, parent>>
vars == <<proxy, starts, sockets, children, holders>>

TypeOK ==
  /\ proxy \in {"down", "accept", "fork", "close"}
  /\ starts \in 0 .. MaxStarts
  /\ onPort \in BOOLEAN
  /\ port \in 0 .. starts
  /\ backlog \in Seq(Conns)
  /\ conn \in [Conns -> {"away", "waiting", "accepted", "reset"}]
  /\ client \in Conns \cup {Proxy}
  /\ child \in [Conns -> {"none", "alive", "zombie", "reaped"}]
  /\ parent \in [Conns -> 0 .. starts]
  /\ holders \in [Conns -> SUBSET (Conns \cup {Proxy})]
  /\ \A c \in Conns : conn[c] = "waiting" <=> \E i \in DOMAIN backlog : backlog[i] = c
  /\ proxy \in {"fork", "close"} <=> client # Proxy

Init ==
  /\ proxy = "down" /\ starts = 0
  /\ onPort = FALSE /\ port = 0 /\ backlog = <<>>
  /\ conn = [c \in Conns |-> "away"]
  /\ client = Proxy
  /\ child = [c \in Conns |-> "none"]
  /\ parent = [c \in Conns |-> 0]
  /\ holders = [c \in Conns |-> {}]

-----------------------------------------------------------------------------
Alive(p) == {c \in Conns : child[c] = "alive" /\ parent[c] = p}
Children(p) == {c \in Conns : child[c] \in {"alive", "zombie"} /\ parent[c] = p}

(* Mutant: without SO_REUSEADDR a closed connection keeps the port busy.   *)
BindableNoReuse == port = 0 /\ \A c \in Conns : child[c] # "reaped"
Bindable == port = 0

(* Socket, SetSocket, Bind_Socket, Listen.  If the port is taken, listen   *)
(* gives the socket another one, and the proxy accepts there.              *)
Start ==
  /\ proxy = "down" /\ starts < MaxStarts
  /\ proxy' = "accept"
  /\ starts' = starts + 1
  /\ onPort' = Bindable
  /\ port' = IF Bindable THEN starts + 1 ELSE port
  /\ UNCHANGED <<backlog, conn, client, children, holders>>

(* A switch connects, to whatever socket is on the tunnel's port. *)
Dial(c) ==
  /\ conn[c] = "away" /\ port # 0 /\ Len(backlog) < Backlog
  /\ conn' = [conn EXCEPT ![c] = "waiting"]
  /\ backlog' = Append(backlog, c)
  /\ UNCHANGED <<proxy, starts, onPort, port, client, children, holders>>

Accept ==
  /\ proxy = "accept" /\ onPort /\ backlog # <<>>
  /\ proxy' = "fork"
  /\ client' = Head(backlog)
  /\ backlog' = Tail(backlog)
  /\ conn' = [conn EXCEPT ![client'] = "accepted"]
  /\ holders' = [holders EXCEPT ![client'] = {Proxy}]
  /\ UNCHANGED <<starts, onPort, port, children>>

(* The child inherits every descriptor the proxy has, the listening socket *)
(* among them.  fork returns -1 if the table is full.                      *)
Fork ==
  /\ proxy = "fork"
  /\ proxy' = "close"
  /\ IF Cardinality(Children(starts)) < MaxProcs
     THEN /\ child' = [child EXCEPT ![client] = "alive"]
          /\ parent' = [parent EXCEPT ![client] = starts]
          /\ holders' = [c \in Conns |->
               IF Proxy \in holders[c] THEN holders[c] \cup {client} ELSE holders[c]]
     ELSE UNCHANGED <<children, holders>>
  /\ UNCHANGED <<starts, sockets>>

(* Mutants: the proxy closes nothing; it waits for the child first; it     *)
(* keeps the number of the closed descriptor.                              *)
CloseNothing ==
  /\ proxy = "close"
  /\ proxy' = "accept"
  /\ client' = Proxy
  /\ UNCHANGED <<starts, onPort, port, backlog, conn, children, holders>>
CloseAfterWait ==
  /\ proxy = "close" /\ child[client] # "alive"
  /\ proxy' = "accept"
  /\ client' = Proxy
  /\ holders' = [holders EXCEPT ![client] = @ \ {Proxy}]
  /\ UNCHANGED <<starts, onPort, port, backlog, conn, children>>
CloseKept ==
  /\ proxy = "close"
  /\ proxy' = "accept"
  /\ holders' = [holders EXCEPT ![client] = @ \ {Proxy}]
  /\ UNCHANGED <<starts, sockets, children>>
(* Close(client_fd), whatever fork has returned; on to the next accept. *)
Close ==
  /\ proxy = "close"
  /\ proxy' = "accept"
  /\ client' = Proxy
  /\ holders' = [holders EXCEPT ![client] = @ \ {Proxy}]
  /\ UNCHANGED <<starts, onPort, port, backlog, conn, children>>

-----------------------------------------------------------------------------
(* The listening socket on the port goes with its last holder, and what    *)
(* waits there is reset.                                                   *)
ListenerFreed(gone) ==
  IF gone
  THEN /\ port' = 0 /\ backlog' = <<>>
       /\ conn' = [c \in Conns |-> IF conn[c] = "waiting" THEN "reset" ELSE conn[c]]
  ELSE UNCHANGED <<port, backlog, conn>>

(* A failed accept ends the proxy, and anything else may; its zombies go.  *)
ProxyEnds ==
  /\ proxy # "down"
  /\ proxy' = "down"
  /\ onPort' = FALSE
  /\ client' = Proxy
  /\ holders' = [c \in Conns |-> holders[c] \ {Proxy}]
  /\ child' = [c \in Conns |-> IF child[c] = "zombie" THEN "reaped" ELSE child[c]]
  /\ ListenerFreed(onPort /\ Alive(starts) = {})
  /\ UNCHANGED <<starts, parent>>

(* A child ends.  Nobody waits for it while its proxy lives. *)
ChildEnds(c) ==
  /\ child[c] = "alive"
  /\ LET left == parent[c] = starts /\ proxy # "down" IN
     /\ child' = [child EXCEPT ![c] = IF left THEN "zombie" ELSE "reaped"]
     /\ ListenerFreed(parent[c] = port /\ ~left /\ Alive(port) = {c})
  /\ holders' = [e \in Conns |-> holders[e] \ {c}]
  /\ UNCHANGED <<proxy, starts, onPort, client, parent>>

Serve == Accept \/ Fork \/ Close

Next ==
  \/ Start \/ Serve \/ ProxyEnds
  \/ \E c \in Conns : Dial(c) \/ ChildEnds(c)

Spec == Init /\ [][Next]_vars

(* The proxy runs while it is there.  Nobody need connect or end.          *)
FairSpec == Spec /\ WF_vars(Serve)

-----------------------------------------------------------------------------
(* No process but the proxy, for a moment, and a connection's own child    *)
(* ever holds its descriptor: no other session can keep it open.           *)
OnlyOwnChildHolds ==
  \A c \in Conns : holders[c] \subseteq {c, Proxy}

(* Once its child has ended, or could not be forked, a connection is        *)
(* closed, save that the proxy may be about to close it.                    *)
ClosedWithItsChild ==
  \A c \in Conns : child[c] # "alive" /\ c # client => holders[c] = {}

(* A proxy that is started misses the tunnel's port only if a child of an   *)
(* earlier one still lives, which keeps that one's listening socket.        *)
OffPortOnlyBesideOrphan ==
  [][proxy = "down" /\ proxy' = "accept" /\ ~onPort'
       => \E c \in Conns : child[c] = "alive"]_vars

(* A switch that waits on the port is accepted, whatever the other sessions *)
(* do, unless the proxy that listens there ends.                            *)
WaitingIsAccepted ==
  \A c \in Conns : conn[c] = "waiting" ~> (conn[c] # "waiting" \/ ~onPort)
=============================================================================
