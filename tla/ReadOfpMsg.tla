----------------------------- MODULE ReadOfpMsg -----------------------------
(***************************************************************************)
(* Framing: a reader thread cuts the byte stream of its peer into messages *)
(* (read_ofp_msg, ofmsg.cpp) and hands each on (read_client, read_server). *)
(* The stream is N messages; message k begins at byte Start[k] and its     *)
(* header declares Length[k] bytes.  TCP delivers any number of bytes at a *)
(* time, and the peer may close or break the connection anywhere.          *)
(***************************************************************************)
EXTENDS Integers, Sequences

CONSTANTS
  N,           \* how many messages the peer writes
  Length,      \* what their headers declare
  Start,       \* where they begin; Start[N + 1] is the end of the stream
  HeaderSize   \* sizeof(struct ofp_header): 8 in the source

(* A header that declares less than itself is still as long as a header.   *)
WireSize(k) == IF Length[k] < HeaderSize THEN HeaderSize ELSE Length[k]

ASSUME StreamAssumption ==
  /\ N \in Nat /\ HeaderSize \in Nat \ {0}
  /\ Length \in [1 .. N -> Nat]
  /\ Start \in [1 .. N + 1 -> Nat]
  /\ Start[1] = 0
  /\ \A k \in 1 .. N : Start[k + 1] = Start[k] + WireSize(k)
  /\ \A j, k \in 1 .. N + 1 : j < k => Start[j] < Start[k]

VARIABLES
  arrived,         \* bytes the kernel has received from the peer
  fin,             \* the peer has closed its side
  base,            \* where the message being read begins in the stream
  msg_bytes_read,  \* how much of it is in buf
  rc,              \* what read returned last
  open,            \* the reader has not closed the connection
  handed           \* history: what putMessage was called with

netVars == <<arrived, fin>>
vars == <<netVars, base, msg_bytes_read, rc, open, handed>>

TypeOK ==
  /\ arrived \in 0 .. Start[N + 1]
  /\ fin \in BOOLEAN /\ open \in BOOLEAN
  /\ base \in Nat /\ msg_bytes_read \in Nat
  /\ rc \in Nat \cup {-1}
  /\ handed \in Seq([from : Nat, len : Nat])

Init ==
  /\ arrived = 0 /\ fin = FALSE
  /\ base = 0 /\ msg_bytes_read = 0 /\ rc = 0
  /\ open = TRUE
  /\ handed = <<>>

-----------------------------------------------------------------------------
(* The length field at base.  Elsewhere than at a message's start it would *)
(* be whatever bytes are there; a bare header stands for them.             *)
HeaderLength ==
  IF \E k \in 1 .. N : Start[k] = base
  THEN Length[CHOOSE k \in 1 .. N : Start[k] = base]
  ELSE HeaderSize

(* Mutant: the length is never looked at. *)
msg_lenHeader == HeaderSize
(* How many bytes do we have to read? *)
msg_len == IF msg_bytes_read < HeaderSize THEN HeaderSize ELSE HeaderLength

(* Mutant: what is in buf already is asked for again. *)
StillToReadAll == msg_len
StillToRead == msg_len - msg_bytes_read

(* Mutant: a header is a message. *)
CompleteEarly(count) == count >= HeaderSize
Complete(count) == count >= HeaderSize /\ HeaderLength = count

Sane == msg_len >= HeaderSize

(* putMessage takes the length from the header, not from read_ofp_msg; the *)
(* next call of read_ofp_msg begins behind the count bytes read.           *)
HandOn(count) ==
  /\ handed' = Append(handed, [from |-> base, len |-> HeaderLength])
  /\ base' = base + count
  /\ msg_bytes_read' = 0

-----------------------------------------------------------------------------
(* read returns n bytes.                                                   *)
Read(n) ==
  /\ open /\ Sane
  /\ n <= StillToRead
  /\ base + msg_bytes_read + n <= arrived
  /\ rc' = n
  /\ IF Complete(msg_bytes_read + n)
     THEN HandOn(msg_bytes_read + n)
     ELSE msg_bytes_read' = msg_bytes_read + n /\ UNCHANGED <<base, handed>>
  /\ UNCHANGED <<netVars, open>>

(* on_error for a length below the header's: what is returned is the count *)
(* of the last read, so the reader takes the header for a message.         *)
Reject ==
  /\ open /\ ~Sane
  /\ IF rc > 0
     THEN HandOn(msg_bytes_read) /\ UNCHANGED open
     ELSE open' = FALSE /\ UNCHANGED <<base, msg_bytes_read, handed>>
  /\ UNCHANGED <<netVars, rc>>

(* Mutant: the connection is dropped as soon as the peer hangs up. *)
EofAtHangup ==
  /\ open /\ Sane /\ fin
  /\ rc' = 0 /\ open' = FALSE
  /\ UNCHANGED <<netVars, base, msg_bytes_read, handed>>
(* read returns 0: the reader closes both sockets and ends. *)
Eof ==
  /\ open /\ Sane
  /\ fin /\ base + msg_bytes_read = arrived
  /\ rc' = 0 /\ open' = FALSE
  /\ UNCHANGED <<netVars, base, msg_bytes_read, handed>>

(* Mutant: what read returns is added before it is looked at. *)
ReadErrorCounted ==
  /\ open /\ Sane
  /\ rc' = -1 /\ msg_bytes_read' = msg_bytes_read + rc'
  /\ UNCHANGED <<netVars, base, open, handed>>
(* read fails: the connection was reset, or closed by the other reader. *)
ReadError ==
  /\ open /\ Sane
  /\ rc' = -1 /\ open' = FALSE
  /\ UNCHANGED <<netVars, base, msg_bytes_read, handed>>

Reader == (\E n \in 1 .. Start[N + 1] : Read(n)) \/ Reject \/ Eof

Arrive ==
  /\ ~fin
  /\ \E a \in arrived + 1 .. Start[N + 1] : arrived' = a
  /\ UNCHANGED <<fin, base, msg_bytes_read, rc, open, handed>>

PeerCloses ==
  /\ ~fin /\ fin' = TRUE
  /\ UNCHANGED <<arrived, base, msg_bytes_read, rc, open, handed>>

Next == Reader \/ ReadError \/ Arrive \/ PeerCloses

Spec == Init /\ [][Next]_vars

(* The reader thread runs; nobody is obliged to send or to close. *)
FairSpec == Spec /\ WF_vars(Reader)

-----------------------------------------------------------------------------
(* Message k has come in entirely. *)
Arrived(k) == Start[k + 1] <= arrived

(* However the stream is segmented, the messages handed on are those the   *)
(* peer wrote, each from its first byte and at its length, in their order. *)
HandedOnAsWritten ==
  /\ Len(handed) <= N
  /\ \A i \in 1 .. Len(handed) :
       handed[i] = [from |-> Start[i], len |-> Length[i]] /\ Arrived(i)

(* No byte of a later message is taken from the socket with an earlier one. *)
NothingReadAhead ==
  Len(handed) < N => base + msg_bytes_read <= Start[Len(handed) + 2]

(* When the peer closes, every message that has come in entirely was handed *)
(* on; only a message cut short is dropped.                                 *)
EofLosesNothing ==
  ~open /\ rc = 0 => \A k \in 1 .. N : Arrived(k) => Len(handed) >= k

(* A message that has come in is handed on without waiting for more bytes,  *)
(* unless the connection is broken first.                                   *)
EveryMessageHandedOn ==
  \A k \in 1 .. N : Arrived(k) ~> (Len(handed) >= k \/ ~open)

(* "sanity check: 8 <= msg_len <= 2^16" (ofmsg.cpp:80): no message shorter  *)
(* than a header is handed on.                                              *)
SanityChecked == \A i \in 1 .. Len(handed) : handed[i].len >= HeaderSize
=============================================================================
