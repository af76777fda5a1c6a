---------------------------- MODULE TunnelProofs ----------------------------
(***************************************************************************)
(* The safety properties of Tunnel, for any number of connections, proxies *)
(* and children, and any backlog.                                          *)
(***************************************************************************)
EXTENDS Tunnel, SequenceTheorems, TLAPS

Types ==
  /\ proxy \in {"down", "accept", "fork", "close"}
  /\ starts \in 0 .. MaxStarts
  /\ onPort \in BOOLEAN
  /\ port \in 0 .. starts
  /\ backlog \in Seq(Conns)
  /\ conn \in [Conns -> {"away", "waiting", "accepted", "reset"}]
  /\ client \in Conns \cup {Proxy}
  /\ child \in [Conns -> {"none", "alive", "zombie", "reaped"}]
  /\ parent \in [Conns -> 0 .. starts]
  /\ holders \in [Conns -> SUBSET (Conns \cup {Proxy})]
  /\ proxy \in {"fork", "close"} <=> client # Proxy

(* A connection waits in one place of the backlog.                         *)
Queued(c) == \E i \in DOMAIN backlog : backlog[i] = c
BacklogInv ==
  /\ \A c \in Conns : conn[c] = "waiting" <=> Queued(c)
  /\ \A i, j \in DOMAIN backlog : backlog[i] = backlog[j] => i = j

(* Only an accepted connection has, or has had, a child.                   *)
ForkInv ==
  /\ \A c \in Conns : child[c] # "none" => conn[c] = "accepted"
  /\ client # Proxy => conn[client] = "accepted"
  /\ proxy = "fork" => child[client] = "none"

(* The proxy holds no connection but the one in hand, a child its own.     *)
HoldInv ==
  /\ OnlyOwnChildHolds
  /\ \A c \in Conns : /\ Proxy \in holders[c] => c = client
                      /\ c \in holders[c] => child[c] = "alive"

(* Who keeps the port's listening socket.                                  *)
PortInv ==
  /\ proxy # "down" => starts # 0 /\ (onPort <=> port = starts)
  /\ proxy = "down" => ~onPort
  /\ port # 0 => onPort \/ \E c \in Conns : child[c] = "alive" /\ parent[c] = port

TunnelInv == Types /\ BacklogInv /\ ForkInv /\ HoldInv /\ PortInv

LEMMA InitTunnel == Init => TunnelInv
<1> SUFFICES ASSUME Init PROVE TunnelInv
  OBVIOUS
<1>1. Types
  <2>1. /\ backlog \in Seq(Conns)
        /\ conn \in [Conns -> {"away", "waiting", "accepted", "reset"}]
        /\ child \in [Conns -> {"none", "alive", "zombie", "reaped"}]
        /\ holders \in [Conns -> SUBSET (Conns \cup {Proxy})]
    BY EmptySeq DEF Init
  <2>2. starts \in 0 .. MaxStarts /\ port \in 0 .. starts
        /\ parent \in [Conns -> 0 .. starts]
    BY TunnelAssumption DEF Init
  <2> QED BY <2>1, <2>2 DEF Init, Types
<1>2. BacklogInv
  BY DEF Init, BacklogInv, Queued
<1>3. ForkInv /\ HoldInv
  BY DEF Init, ForkInv, HoldInv, OnlyOwnChildHolds
<1>4. PortInv
  BY DEF Init, PortInv
<1> QED BY <1>1, <1>2, <1>3, <1>4 DEF TunnelInv

LEMMA HeadWaits ==
  ASSUME Types, BacklogInv, backlog # <<>>
  PROVE  /\ Head(backlog) \in Conns /\ conn[Head(backlog)] = "waiting"
         /\ Tail(backlog) \in Seq(Conns)
<1>1. 1 \in DOMAIN backlog /\ Head(backlog) = backlog[1]
  BY DEF Types
<1> QED BY <1>1 DEF Types, BacklogInv, Queued

LEMMA ListenerTypes ==
  ASSUME Types, NEW gone \in BOOLEAN, ListenerFreed(gone)
  PROVE  /\ port' \in 0 .. starts /\ backlog' \in Seq(Conns)
         /\ conn' \in [Conns -> {"away", "waiting", "accepted", "reset"}]
<1>1. CASE gone
  BY <1>1, EmptySeq DEF Types, ListenerFreed
<1>2. CASE ~gone
  BY <1>2 DEF Types, ListenerFreed
<1> QED BY <1>1, <1>2

LEMMA TypesStep ==
  ASSUME TunnelInv, [Next]_vars
  PROVE  Types'
<1> USE DEF TunnelInv, Types, sockets, children
<1>1. CASE Start
  <2>1. /\ starts' \in 0 .. MaxStarts /\ starts' = starts + 1
        /\ onPort' \in BOOLEAN /\ port' \in 0 .. starts'
    <3>1. onPort' = Bindable /\ Bindable \in BOOLEAN
      BY <1>1 DEF Start, Bindable
    <3>2. port' \in {starts + 1, port} /\ starts' = starts + 1
          /\ starts < MaxStarts
      BY <1>1 DEF Start
    <3> QED BY <3>1, <3>2, TunnelAssumption
  <2>2. UNCHANGED <<backlog, conn, client, child, parent, holders>>
        /\ proxy = "down" /\ proxy' = "accept"
    BY <1>1 DEF Start
  <2>3. parent' \in [Conns -> 0 .. starts']
    BY <2>1, <2>2
  <2> QED BY <2>1, <2>2, <2>3
<1>2. CASE Accept
  BY <1>2, HeadWaits, TunnelAssumption DEF Accept
<1>3. CASE Fork
  <2>1. client \in Conns
    BY <1>3 DEF Fork
  <2>2. /\ UNCHANGED <<starts, onPort, port, backlog, conn, client>>
        /\ proxy = "fork" /\ proxy' = "close"
    BY <1>3 DEF Fork
  <2>3. CASE Cardinality(Children(starts)) < MaxProcs
    <3>1. /\ child' = [child EXCEPT ![client] = "alive"]
          /\ parent' = [parent EXCEPT ![client] = starts]
          /\ holders' = [c \in Conns |->
               IF Proxy \in holders[c] THEN holders[c] \cup {client} ELSE holders[c]]
      BY <1>3, <2>3 DEF Fork
    <3>2. /\ child' \in [Conns -> {"none", "alive", "zombie", "reaped"}]
          /\ parent' \in [Conns -> 0 .. starts]
      BY <2>1, <3>1
    <3>3. holders' \in [Conns -> SUBSET (Conns \cup {Proxy})]
      BY <2>1, <3>1
    <3> QED BY <2>2, <3>2, <3>3
  <2>4. CASE ~(Cardinality(Children(starts)) < MaxProcs)
    <3>1. UNCHANGED <<child, parent, holders>>
      BY <1>3, <2>4 DEF Fork
    <3> QED BY <2>2, <3>1
  <2> QED BY <2>3, <2>4
<1>4. CASE Close
  BY <1>4, TunnelAssumption DEF Close
<1>5. CASE ProxyEnds
  <2>1. PICK gone \in BOOLEAN : ListenerFreed(gone)
    BY <1>5 DEF ProxyEnds
  <2> QED BY <1>5, <2>1, ListenerTypes DEF ProxyEnds
<1>6. ASSUME NEW c \in Conns, Dial(c) PROVE Types'
  BY <1>6, AppendProperties DEF Dial
<1>7. ASSUME NEW c \in Conns, ChildEnds(c) PROVE Types'
  <2>1. PICK gone \in BOOLEAN : ListenerFreed(gone)
    BY <1>7 DEF ChildEnds
  <2> QED BY <1>7, <2>1, ListenerTypes DEF ChildEnds
<1>8. CASE UNCHANGED vars
  BY <1>8 DEF vars
<1> QED BY <1>1, <1>2, <1>3, <1>4, <1>5, <1>6, <1>7, <1>8 DEF Next, Serve

LEMMA ListenerBacklog ==
  ASSUME Types, BacklogInv, NEW gone \in BOOLEAN, ListenerFreed(gone)
  PROVE  BacklogInv'
<1>1. CASE gone
  <2>1. backlog' = <<>> /\ \A c \in Conns : conn'[c] # "waiting"
    BY <1>1 DEF ListenerFreed
  <2> QED BY <2>1 DEF BacklogInv, Queued
<1>2. CASE ~gone
  BY <1>2 DEF ListenerFreed, BacklogInv, Queued
<1> QED BY <1>1, <1>2

LEMMA BacklogStep ==
  ASSUME TunnelInv, [Next]_vars
  PROVE  BacklogInv'
<1> USE DEF TunnelInv, BacklogInv, Queued
<1>1. CASE Accept
  <2>1. /\ backlog # <<>> /\ backlog' = Tail(backlog)
        /\ conn' = [conn EXCEPT ![Head(backlog)] = "accepted"]
    BY <1>1 DEF Accept
  <2>2. /\ Head(backlog) = backlog[1] /\ Len(backlog) \in Nat \ {0}
        /\ DOMAIN backlog = 1 .. Len(backlog)
        /\ DOMAIN backlog' = 1 .. Len(backlog) - 1
        /\ \A i \in DOMAIN backlog' : backlog'[i] = backlog[i + 1]
    BY <2>1 DEF Types
  <2> PICK h \in Conns : h = backlog[1]
    BY <2>2 DEF Types
  <2>3. \A c \in Conns : c # h => (Queued(c)' <=> Queued(c))
    <3>1. ASSUME NEW c \in Conns, c # h, NEW i \in DOMAIN backlog,
                 backlog[i] = c
          PROVE  i - 1 \in DOMAIN backlog' /\ backlog'[i - 1] = c
      BY <2>2, <3>1
    <3>2. ASSUME NEW i \in DOMAIN backlog'
          PROVE  i + 1 \in DOMAIN backlog /\ backlog'[i] = backlog[i + 1]
      BY <2>2
    <3> QED BY <3>1, <3>2
  <2>4. ~Queued(h)'
    <3>1. ASSUME NEW i \in DOMAIN backlog' PROVE backlog'[i] # h
      BY <2>2
    <3> QED BY <3>1
  <2>5. \A c \in Conns : conn'[c] = IF c = h THEN "accepted" ELSE conn[c]
    BY <2>1, <2>2 DEF Types
  <2>6. \A i, j \in DOMAIN backlog' : backlog'[i] = backlog'[j] => i = j
    BY <2>2
  <2> QED BY <2>3, <2>4, <2>5, <2>6
<1>2. ASSUME NEW c \in Conns, Dial(c) PROVE BacklogInv'
  <2>1. /\ backlog' = Append(backlog, c) /\ conn[c] = "away"
        /\ \A e \in Conns : conn'[e] = IF e = c THEN "waiting" ELSE conn[e]
    BY <1>2 DEF Dial, Types
  <2>2. /\ DOMAIN backlog = 1 .. Len(backlog) /\ Len(backlog) \in Nat
        /\ DOMAIN backlog' = 1 .. Len(backlog) + 1
        /\ \A i \in DOMAIN backlog : i \in DOMAIN backlog' /\ backlog'[i] = backlog[i]
        /\ backlog'[Len(backlog) + 1] = c
    BY <2>1 DEF Types
  <2>3. ~Queued(c)
    BY <2>1
  <2>4. \A e \in Conns : Queued(e)' <=> e = c \/ Queued(e)
    <3>1. \A i \in DOMAIN backlog' : i = Len(backlog) + 1 \/ i \in DOMAIN backlog
      BY <2>2
    <3> QED BY <2>2, <3>1
  <2>5. \A i, j \in DOMAIN backlog' : backlog'[i] = backlog'[j] => i = j
    BY <2>2, <2>3
  <2> QED BY <2>1, <2>4, <2>5
<1>3. CASE UNCHANGED <<backlog, conn>>
  BY <1>3
<1>4. CASE Start \/ Fork \/ Close \/ UNCHANGED vars
  BY <1>3, <1>4 DEF Start, Fork, Close, vars, sockets
<1>5. CASE ProxyEnds \/ \E c \in Conns : ChildEnds(c)
  <2>1. PICK gone \in BOOLEAN : ListenerFreed(gone)
    BY <1>5 DEF ProxyEnds, ChildEnds
  <2> QED BY <2>1, ListenerBacklog
<1> QED BY <1>1, <1>2, <1>4, <1>5 DEF Next, Serve

LEMMA ForkStep ==
  ASSUME TunnelInv, [Next]_vars
  PROVE  ForkInv'
<1> USE DEF TunnelInv, ForkInv, Types
<1>1. CASE Accept
  <2>1. /\ Head(backlog) \in Conns /\ conn[Head(backlog)] = "waiting"
    BY <1>1, HeadWaits DEF Accept
  <2>2. child[Head(backlog)] = "none"
    BY <2>1
  <2> QED BY <1>1, <2>1, <2>2 DEF Accept, children
<1>2. CASE Fork
  BY <1>2 DEF Fork, sockets, children
<1>3. CASE Start
  BY <1>3 DEF Start, children
<1>4. CASE Close
  BY <1>4 DEF Close, children
<1>5. ASSUME NEW gone \in BOOLEAN, ListenerFreed(gone), NEW c \in Conns,
             conn[c] = "accepted"
      PROVE  conn'[c] = "accepted"
  BY <1>5 DEF ListenerFreed
<1>6. CASE ProxyEnds
  <2>1. PICK gone \in BOOLEAN : ListenerFreed(gone)
    BY <1>6 DEF ProxyEnds
  <2>2. /\ client' = Proxy /\ proxy' = "down"
        /\ \A c \in Conns : child'[c] # "none" => child[c] # "none"
    BY <1>6 DEF ProxyEnds
  <2> QED BY <1>5, <2>1, <2>2
<1>7. ASSUME NEW c \in Conns, Dial(c) PROVE ForkInv'
  BY <1>7 DEF Dial, children
<1>8. ASSUME NEW c \in Conns, ChildEnds(c) PROVE ForkInv'
  <2>1. PICK gone \in BOOLEAN : ListenerFreed(gone)
    BY <1>8 DEF ChildEnds
  <2>2. /\ UNCHANGED <<client, proxy>> /\ child[c] = "alive"
        /\ \A e \in Conns : e # c => child'[e] = child[e]
    BY <1>8 DEF ChildEnds
  <2> QED BY <1>5, <2>1, <2>2
<1>9. CASE UNCHANGED vars
  BY <1>9 DEF vars, sockets, children
<1> QED BY <1>1, <1>2, <1>3, <1>4, <1>6, <1>7, <1>8, <1>9 DEF Next, Serve

LEMMA HoldStep ==
  ASSUME TunnelInv, [Next]_vars
  PROVE  HoldInv'
<1> USE DEF TunnelInv, HoldInv, OnlyOwnChildHolds, Types
<1>1. CASE Accept
  <2>1. Head(backlog) \in Conns
    BY <1>1, HeadWaits DEF Accept
  <2> QED BY <1>1, <2>1, TunnelAssumption DEF Accept, children
<1>2. CASE Fork
  <2>1. client \in Conns /\ client' = client
    BY <1>2 DEF Fork, sockets
  <2>2. CASE UNCHANGED <<child, holders>>
    BY <2>1, <2>2
  <2>3. CASE ~UNCHANGED <<child, holders>>
    <3>1. /\ child' = [child EXCEPT ![client] = "alive"]
          /\ holders' = [c \in Conns |->
               IF Proxy \in holders[c] THEN holders[c] \cup {client} ELSE holders[c]]
      BY <1>2, <2>3 DEF Fork, children
    <3> QED BY <2>1, <3>1, TunnelAssumption
  <2> QED BY <2>2, <2>3
<1>3. CASE Close
  BY <1>3, TunnelAssumption DEF Close, children
<1>4. CASE ProxyEnds
  BY <1>4, TunnelAssumption DEF ProxyEnds
<1>5. ASSUME NEW c \in Conns, ChildEnds(c) PROVE HoldInv'
  BY <1>5, TunnelAssumption DEF ChildEnds
<1>6. CASE UNCHANGED <<client, child, holders>>
  BY <1>6
<1>7. CASE Start \/ (\E c \in Conns : Dial(c)) \/ UNCHANGED vars
  BY <1>6, <1>7 DEF Start, Dial, vars, sockets, children
<1> QED BY <1>1, <1>2, <1>3, <1>4, <1>5, <1>7 DEF Next, Serve

LEMMA PortStep ==
  ASSUME TunnelInv, [Next]_vars
  PROVE  PortInv'
<1> USE DEF TunnelInv, PortInv, Types
<1>1. CASE Start
  <2>1. /\ onPort' = (port = 0) /\ starts' = starts + 1
        /\ port' = IF port = 0 THEN starts + 1 ELSE port
        /\ proxy' # "down" /\ proxy = "down" /\ UNCHANGED <<child, parent>>
    BY <1>1 DEF Start, Bindable, children
  <2>2. CASE port = 0
    <3>1. port' = starts' /\ starts' # 0
      BY <2>1, <2>2
    <3>2. onPort'
      BY <2>1, <2>2
    <3> QED BY <2>1, <3>1, <3>2
  <2>3. CASE port # 0
    <3>1. ~onPort' /\ port' = port /\ port' # starts' /\ starts' # 0
      BY <2>1, <2>3
    <3>2. PICK c \in Conns : child[c] = "alive" /\ parent[c] = port
      BY <2>1, <2>3
    <3> QED BY <2>1, <3>1, <3>2
  <2> QED BY <2>2, <2>3
<1>2. CASE Fork
  <2>1. /\ client \in Conns /\ child[client] = "none"
        /\ UNCHANGED <<starts, onPort, port>>
        /\ proxy = "fork" /\ proxy' = "close"
    BY <1>2 DEF Fork, sockets, ForkInv
  <2>2. \A c \in Conns : child[c] = "alive" =>
                           child'[c] = "alive" /\ parent'[c] = parent[c]
    BY <1>2, <2>1 DEF Fork, children
  <2> QED BY <2>1, <2>2
<1>3. CASE ProxyEnds
  <2>1. /\ proxy # "down" /\ proxy' = "down" /\ onPort' = FALSE
        /\ UNCHANGED <<starts, parent>>
        /\ \A c \in Conns : child[c] = "alive" => child'[c] = "alive"
        /\ ListenerFreed(onPort /\ Alive(starts) = {})
    BY <1>3 DEF ProxyEnds
  <2>2. CASE onPort /\ Alive(starts) = {}
    BY <2>1, <2>2 DEF ListenerFreed
  <2>3. CASE ~(onPort /\ Alive(starts) = {})
    BY <2>1, <2>3 DEF ListenerFreed, Alive
  <2> QED BY <2>2, <2>3
<1>4. ASSUME NEW c \in Conns, ChildEnds(c) PROVE PortInv'
  <2> DEFINE left == parent[c] = starts /\ proxy # "down"
             gone == parent[c] = port /\ ~left /\ Alive(port) = {c}
  <2>1. /\ UNCHANGED <<proxy, starts, onPort, parent>>
        /\ \A e \in Conns : e # c => child'[e] = child[e]
        /\ ListenerFreed(gone)
    BY <1>4 DEF ChildEnds
  <2>2. CASE gone
    <3>1. port' = 0 /\ ~(onPort /\ proxy # "down" /\ starts # port)
      BY <2>1, <2>2 DEF ListenerFreed
    <3> QED BY <2>1, <2>2, <3>1
  <2>3. CASE ~gone
    <3>1. port' = port
      BY <2>1, <2>3 DEF ListenerFreed
    <3>2. ASSUME port # 0, ~onPort
          PROVE  \E e \in Conns : child'[e] = "alive" /\ parent'[e] = port
      <4>1. PICK a \in Conns : child[a] = "alive" /\ parent[a] = port
        BY <3>2
      <4>2. CASE a # c
        BY <2>1, <4>1, <4>2
      <4>3. CASE a = c
        <5>1. Alive(port) # {c} /\ c \in Alive(port)
          BY <2>3, <3>2, <4>1, <4>3 DEF Alive
        <5>2. PICK e \in Alive(port) : e # c
          BY <5>1
        <5> QED BY <2>1, <5>2 DEF Alive
      <4> QED BY <4>2, <4>3
    <3> QED BY <2>1, <3>1, <3>2
  <2> QED BY <2>2, <2>3
<1>5. CASE UNCHANGED <<starts, onPort, port, child, parent>>
           /\ proxy # "down" /\ proxy' # "down"
  BY <1>5
<1>6. CASE Accept \/ Close
  BY <1>5, <1>6 DEF Accept, Close, children
<1>7. CASE (\E c \in Conns : Dial(c)) \/ UNCHANGED vars
  BY <1>7 DEF Dial, vars, sockets, children
<1> QED BY <1>1, <1>2, <1>3, <1>4, <1>6, <1>7 DEF Next, Serve

LEMMA TunnelInvariance == Spec => []TunnelInv
<1>1. TunnelInv /\ [Next]_vars => TunnelInv'
  BY TypesStep, BacklogStep, ForkStep, HoldStep, PortStep DEF TunnelInv
<1> QED BY <1>1, InitTunnel, PTL DEF Spec

-----------------------------------------------------------------------------
(* Every variable keeps its type, and the backlog is who waits.            *)
THEOREM TunnelTypeCorrect == Spec => []TypeOK
<1>1. TunnelInv => TypeOK
  BY DEF TunnelInv, Types, BacklogInv, Queued, TypeOK
<1> QED BY <1>1, TunnelInvariance, PTL

(* No process but the proxy and a connection's own child ever holds it.    *)
THEOREM NoOtherHolds == Spec => []OnlyOwnChildHolds
<1>1. TunnelInv => OnlyOwnChildHolds
  BY DEF TunnelInv, HoldInv
<1> QED BY <1>1, TunnelInvariance, PTL

(* A connection does not outlive its child, nor a fork that failed.        *)
THEOREM ClosedWithChild == Spec => []ClosedWithItsChild
<1>1. TunnelInv => ClosedWithItsChild
  <2> SUFFICES ASSUME TunnelInv, NEW c \in Conns, child[c] # "alive", c # client
               PROVE  holders[c] = {}
    BY DEF ClosedWithItsChild
  <2>1. holders[c] \subseteq {c, Proxy} /\ c \notin holders[c]
        /\ Proxy \notin holders[c]
    BY DEF TunnelInv, HoldInv, OnlyOwnChildHolds
  <2> QED BY <2>1
<1> QED BY <1>1, TunnelInvariance, PTL

(* A proxy that is started misses its port only beside an orphan.          *)
THEOREM PortIsFreedWithOrphans == Spec => OffPortOnlyBesideOrphan
<1> DEFINE Rule == proxy = "down" /\ proxy' = "accept" /\ ~onPort'
                     => \E c \in Conns : child[c] = "alive"
<1>1. TunnelInv /\ [Next]_vars => [Rule]_vars
  <2> SUFFICES ASSUME TunnelInv, Next, proxy = "down", proxy' = "accept", ~onPort'
               PROVE  \E c \in Conns : child[c] = "alive"
    OBVIOUS
  <2>1. Start
    BY DEF Next, Serve, Accept, Fork, Close, ProxyEnds, Dial, ChildEnds
  <2>2. port # 0
    BY <2>1 DEF Start, Bindable
  <2> QED BY <2>2 DEF TunnelInv, PortInv
<1> QED BY <1>1, TunnelInvariance, PTL DEF Spec, OffPortOnlyBesideOrphan
=============================================================================
