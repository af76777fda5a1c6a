------------------------------ MODULE UEPCount ------------------------------
(***************************************************************************)
(* What the UEP statistics promise, without ring buffer or window ids: the *)
(* proxy knows how much every UEP, and all of them together, have sent in  *)
(* the window that is running, and demotes a message if its UEP's share of *)
(* the window, when its last tag was counted, was too large.               *)
(***************************************************************************)
EXTENDS Integers

CONSTANTS
  Sender,       \* the UEPs that may be counted
  Amount,       \* what one message may add
  Suspect(_, _) \* whether a number of a total makes the UEP suspect

VARIABLES
  now,      \* the running window
  count,    \* what each UEP has sent in it
  total,    \* what all have sent in it
  held,     \* number and total of the UEP of the message in hand
  demoted   \* whether the last message was demoted

vars == <<now, count, total, held, demoted>>

Nothing == [number |-> 0, total |-> 0]

Init ==
  /\ now = 0
  /\ count = [u \in Sender |-> 0]
  /\ total = 0
  /\ held = Nothing
  /\ demoted = FALSE

Count(u, n) ==
  /\ count' = [count EXCEPT ![u] = @ + n]
  /\ total' = total + n

(* A request is counted and not judged. *)
Request(u) == Count(u, 1) /\ UNCHANGED <<now, held, demoted>>

Tag(u, n) ==
  /\ Count(u, n)
  /\ held' = [number |-> count[u] + n, total |-> total + n]
  /\ UNCHANGED <<now, demoted>>

Decide ==
  /\ demoted' = Suspect(held.number, held.total)
  /\ held' = Nothing
  /\ UNCHANGED <<now, count, total>>

Tick ==
  /\ now' = now + 1
  /\ count' = [u \in Sender |-> 0]
  /\ total' = 0
  /\ UNCHANGED <<held, demoted>>

Next ==
  \/ \E u \in Sender : Request(u) \/ \E n \in Amount : Tag(u, n)
  \/ Decide
  \/ Tick

Spec == Init /\ [][Next]_vars
=============================================================================
