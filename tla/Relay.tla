------------------------------- MODULE Relay -------------------------------
(***************************************************************************)
(* What the scheduling half of the proxy promises, without threads, flags, *)
(* credits or FIFOs: in each direction a message accepted into a lane is   *)
(* sent exactly once, after everything accepted into that lane before it,  *)
(* and towards the switch at most Window messages are sent and not yet     *)
(* done.                                                                   *)
(***************************************************************************)
EXTENDS Integers, FiniteSets

CONSTANTS
  Msg, Direction, Lanes,
  Toward,    \* the direction of each message
  Windowed,  \* the directions whose outstanding messages are limited
  Window     \* to this many

VARIABLES
  state,     \* of each message
  lane,      \* the lane it was accepted into
  turn,      \* its place in the order of acceptance
  accepted   \* how many messages each direction has accepted

vars == <<state, lane, turn, accepted>>

Init ==
  /\ state = [m \in Msg |-> "new"]
  /\ lane = [m \in Msg |-> 0]
  /\ turn = [m \in Msg |-> 0]
  /\ accepted = [d \in Direction |-> 0]

In(s, d) == {m \in Msg : state[m] = s /\ Toward[m] = d}

Accept(m, l) ==
  /\ state[m] = "new"
  /\ state' = [state EXCEPT ![m] = "waiting"]
  /\ lane' = [lane EXCEPT ![m] = l]
  /\ turn' = [turn EXCEPT ![m] = accepted[Toward[m]] + 1]
  /\ accepted' = [accepted EXCEPT ![Toward[m]] = @ + 1]

Send(m) ==
  /\ state[m] = "waiting"
  /\ \A n \in In("waiting", Toward[m]) \ {m} :
       lane[n] = lane[m] => turn[m] < turn[n]
  /\ Toward[m] \in Windowed
       => Cardinality(In("outstanding", Toward[m])) < Window
  /\ state' = [state EXCEPT ![m] = "outstanding"]
  /\ UNCHANGED <<lane, turn, accepted>>

Complete(done) ==
  /\ \A m \in done : state[m] = "outstanding"
  /\ state' = [m \in Msg |-> IF m \in done THEN "done" ELSE state[m]]
  /\ UNCHANGED <<lane, turn, accepted>>

Next ==
  \/ \E m \in Msg, l \in Lanes : Accept(m, l)
  \/ \E m \in Msg : Send(m)
  \/ \E done \in SUBSET Msg : Complete(done)

Spec == Init /\ [][Next]_vars
=============================================================================
