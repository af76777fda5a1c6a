-------------------------- MODULE ReadOfpMsgProofs --------------------------
(***************************************************************************)
(* Proofs about framing, for every stream, header size and segmentation:   *)
(* the messages handed on are those written, nothing is read ahead, and a  *)
(* close loses no complete message.                                        *)
(***************************************************************************)
EXTENDS ReadOfpMsg, TLAPS

(* The message being read. *)
Current == Len(handed) + 1

(* Between two reads the reader stands inside the current message, behind   *)
(* its header only if that is too short to be sane.                         *)
Inside ==
  /\ Current <= N
  /\ \/ msg_bytes_read < WireSize(Current)
     \/ /\ Length[Current] < HeaderSize
        /\ msg_bytes_read = HeaderSize

(* The inductive invariant. *)
Aligned ==
  /\ Len(handed) <= N
  /\ base = Start[Current]
  /\ base + msg_bytes_read <= arrived
  /\ msg_bytes_read = 0 \/ (Inside /\ (open => rc > 0))
  /\ \A i \in 1 .. Len(handed) :
       handed[i] = [from |-> Start[i], len |-> Length[i]] /\ Arrived(i)

(* What Eof leaves behind stays so: nothing arrives after the peer's close. *)
AtEnd ==
  ~open /\ rc = 0 => fin /\ base + msg_bytes_read = arrived /\ Sane

IInv == TypeOK /\ Aligned /\ AtEnd

-----------------------------------------------------------------------------
(* The header found at a message's start is that message's. *)
LEMMA HeaderHere ==
  ASSUME NEW k \in 1 .. N, base = Start[k]
  PROVE  HeaderLength = Length[k]
<1>1. \A j \in 1 .. N : Start[j] = base => j = k
  <2> SUFFICES ASSUME NEW j \in 1 .. N, Start[j] = Start[k], j # k
               PROVE  FALSE
    OBVIOUS
  <2>1. j \in 1 .. N + 1 /\ k \in 1 .. N + 1 /\ (j < k \/ k < j)
    BY StreamAssumption
  <2>2. Start[j] \in Nat /\ Start[k] \in Nat
    BY <2>1, StreamAssumption
  <2>3. CASE j < k
    <3>1. Start[j] < Start[k]
      BY <2>1, <2>3, StreamAssumption
    <3> QED BY <2>2, <3>1
  <2>4. CASE k < j
    <3>1. Start[k] < Start[j]
      BY <2>1, <2>4, StreamAssumption
    <3> QED BY <2>2, <3>1
  <2>5. QED
    BY <2>1, <2>3, <2>4
<1>2. (CHOOSE j \in 1 .. N : Start[j] = base) = k
  BY <1>1
<1>3. QED
  BY <1>2 DEF HeaderLength

(* The next message begins where this one ends. *)
LEMMA Layout ==
  ASSUME NEW k \in 1 .. N
  PROVE  /\ Start[k] \in Nat /\ Start[k + 1] \in Nat
         /\ Start[k + 1] = Start[k] + WireSize(k)
         /\ Start[k + 1] <= Start[N + 1]
         /\ Length[k] \in Nat /\ HeaderSize \in Nat /\ HeaderSize > 0
         /\ WireSize(k) \in Nat /\ WireSize(k) >= HeaderSize
         /\ WireSize(k) >= Length[k]
<1>1. N \in Nat /\ k + 1 \in 1 .. N + 1 /\ k \in 1 .. N + 1
      /\ N + 1 \in 1 .. N + 1
  BY StreamAssumption
<1>2. Start[k] \in Nat /\ Start[k + 1] \in Nat /\ Start[N + 1] \in Nat
  BY <1>1, StreamAssumption
<1>3. Start[k + 1] <= Start[N + 1]
  <2>1. CASE k = N
    BY <1>2, <2>1
  <2>2. CASE k < N
    BY <1>1, <1>2, <2>2, StreamAssumption
  <2>3. QED
    BY <1>1, <2>1, <2>2
<1>4. Length[k] \in Nat /\ HeaderSize \in Nat /\ HeaderSize > 0
  BY StreamAssumption
<1>5. QED
  BY <1>2, <1>3, <1>4, StreamAssumption DEF WireSize

(* Outside the stream there is nothing to read. *)
LEMMA InStream ==
  ASSUME TypeOK, Aligned, base + msg_bytes_read < arrived
  PROVE  Current \in 1 .. N
<1>1. N \in Nat /\ Len(handed) \in Nat /\ arrived \in Nat /\ arrived <= Start[N + 1]
  BY StreamAssumption DEF TypeOK
<1>2. CASE Len(handed) = N
  <2>1. base = Start[N + 1]
    BY <1>2 DEF Aligned, Current
  <2>2. QED
    BY <1>1, <2>1 DEF TypeOK
<1>3. QED
  BY <1>1, <1>2 DEF Aligned, Current

(* Handing on the current message keeps the reader aligned. *)
LEMMA HandOnStep ==
  ASSUME TypeOK, Aligned, UNCHANGED <<arrived, open>>,
         NEW count \in Nat, NEW k \in 1 .. N, k = Current,
         count = WireSize(k), base + count <= arrived, HandOn(count)
  PROVE  Aligned' /\ handed' \in Seq([from : Nat, len : Nat])
         /\ base' \in Nat /\ msg_bytes_read' = 0
<1>1. HeaderLength = Length[k]
  BY HeaderHere DEF Aligned
<1>2. /\ Start[k] \in Nat /\ Length[k] \in Nat
      /\ Start[k + 1] = base + count
  BY Layout DEF Aligned
<1>3. /\ handed \in Seq([from : Nat, len : Nat])
      /\ handed' = Append(handed, [from |-> Start[k], len |-> Length[k]])
      /\ base' = base + count /\ msg_bytes_read' = 0
  BY <1>1 DEF HandOn, Aligned, TypeOK
<1>4. [from |-> Start[k], len |-> Length[k]] \in [from : Nat, len : Nat]
  BY <1>2
<1>5. /\ Len(handed') = Len(handed) + 1
      /\ handed' \in Seq([from : Nat, len : Nat])
      /\ \A i \in 1 .. Len(handed) : handed'[i] = handed[i]
      /\ handed'[k] = [from |-> Start[k], len |-> Length[k]]
  BY <1>3, <1>4 DEF Current
<1>6. Len(handed) \in Nat /\ k = Len(handed) + 1 /\ N \in Nat
  BY <1>3, StreamAssumption DEF Current
<1>7. Arrived(k)' /\ \A i \in 1 .. Len(handed) : Arrived(i)'
  <2>1. Start[k + 1] <= arrived' /\ arrived' = arrived
    BY <1>2
  <2>2. QED
    BY <2>1 DEF Arrived, Aligned
<1>8. \A i \in 1 .. Len(handed') :
        handed'[i] = [from |-> Start[i], len |-> Length[i]] /\ Arrived(i)'
  <2> SUFFICES ASSUME NEW i \in 1 .. Len(handed')
               PROVE  handed'[i] = [from |-> Start[i], len |-> Length[i]]
                      /\ Arrived(i)'
    OBVIOUS
  <2>1. CASE i \in 1 .. Len(handed)
    BY <1>5, <1>7, <2>1 DEF Aligned
  <2>2. CASE i = k
    BY <1>5, <1>7, <2>2
  <2>3. QED
    BY <1>5, <1>6, <2>1, <2>2
<1>9. Current' = k + 1 /\ k <= N
  BY <1>5, <1>6 DEF Current
<1>10. Aligned'
  <2>1. Len(handed') <= N
    BY <1>5, <1>6
  <2>2. base' = Start[Current']
    BY <1>2, <1>3, <1>9
  <2>3. base' + msg_bytes_read' <= arrived'
    BY <1>2, <1>3
  <2>4. QED
    BY <1>3, <1>8, <2>1, <2>2, <2>3 DEF Aligned
<1>11. QED
  BY <1>2, <1>3, <1>5, <1>10 DEF TypeOK

-----------------------------------------------------------------------------
LEMMA IInvInit == Init => IInv
<1> SUFFICES ASSUME Init
             PROVE  IInv
  OBVIOUS
<1>1. N \in Nat /\ Start[N + 1] \in Nat /\ Start[1] = 0
  BY StreamAssumption
<1>2. TypeOK
  <2>1. fin \in BOOLEAN /\ open \in BOOLEAN
    BY DEF Init
  <2>2. QED
    BY <1>1, <2>1 DEF Init, TypeOK
<1>3. Aligned
  BY <1>1 DEF Init, Aligned, Current
<1>4. QED
  BY <1>2, <1>3 DEF Init, IInv, AtEnd

LEMMA ReadStep ==
  ASSUME IInv, NEW n \in 1 .. Start[N + 1], Read(n)
  PROVE  IInv'
<1> DEFINE count == msg_bytes_read + n
<1>1. /\ Start[N + 1] \in Nat /\ n \in Nat /\ n > 0 /\ count \in Nat
      /\ msg_bytes_read \in Nat /\ base \in Nat
      /\ count > 0
  BY StreamAssumption DEF IInv, TypeOK
<1>2. TypeOK /\ Aligned /\ open = TRUE /\ open' = TRUE
      /\ arrived' = arrived /\ fin' = fin /\ rc' = n
      /\ base + count <= arrived
  BY <1>1 DEF Read, IInv, netVars, TypeOK
<1>3. PICK k \in 1 .. N : k = Current
  BY <1>1, <1>2, InStream DEF TypeOK
<1>4. HeaderLength = Length[k]
  BY <1>3, HeaderHere DEF IInv, Aligned
<1>5. /\ Length[k] \in Nat /\ HeaderSize \in Nat /\ HeaderSize > 0
      /\ WireSize(k) \in Nat /\ WireSize(k) >= HeaderSize
  BY <1>3, Layout
<1>6. \/ count < WireSize(k)
      \/ (Length[k] < HeaderSize /\ count = HeaderSize)
      \/ (count = Length[k] /\ count = WireSize(k) /\ count >= HeaderSize)
  <2>1. count <= msg_len
    BY <1>1, <1>4, <1>5 DEF Read, StillToRead, msg_len
  <2>2. CASE msg_bytes_read < HeaderSize
    BY <1>1, <1>5, <2>1, <2>2 DEF msg_len, WireSize
  <2>3. CASE ~(msg_bytes_read < HeaderSize)
    <3>1. msg_len = Length[k] /\ Length[k] >= HeaderSize
      BY <1>4, <2>3 DEF msg_len, Read, Sane
    <3>2. QED
      BY <1>1, <1>5, <2>1, <2>3, <3>1 DEF WireSize
  <2>4. QED
    BY <2>2, <2>3
<1>7. CASE Complete(count)
  <2>1. count = Length[k] /\ count >= HeaderSize /\ HandOn(count)
    BY <1>4, <1>7 DEF Complete, Read
  <2>2. count = WireSize(k)
    BY <1>5, <2>1 DEF WireSize
  <2>3. Aligned' /\ handed' \in Seq([from : Nat, len : Nat])
        /\ base' \in Nat /\ msg_bytes_read' = 0
    BY <1>1, <1>2, <1>3, <2>1, <2>2, HandOnStep
  <2>4. QED
    BY <1>1, <1>2, <2>3 DEF IInv, AtEnd, TypeOK
<1>8. CASE ~Complete(count)
  <2>1. msg_bytes_read' = count /\ base' = base /\ handed' = handed
    BY <1>8 DEF Read
  <2>2. count < WireSize(k) \/ (Length[k] < HeaderSize /\ count = HeaderSize)
    BY <1>4, <1>6, <1>8 DEF Complete
  <2>3. Inside'
    BY <1>3, <2>1, <2>2 DEF Inside, Current, WireSize
  <2>4. \A i \in 1 .. Len(handed) : Arrived(i)' = Arrived(i)
    BY <1>2 DEF Arrived
  <2>5. Aligned'
    BY <1>1, <1>2, <2>1, <2>3, <2>4 DEF Aligned, Current
  <2>6. QED
    BY <1>1, <1>2, <2>1, <2>5 DEF IInv, AtEnd, TypeOK
<1>9. QED
  BY <1>7, <1>8

LEMMA RejectStep == ASSUME IInv, Reject PROVE IInv'
<1>1. /\ TypeOK /\ Aligned /\ open = TRUE /\ open' = open
      /\ arrived' = arrived /\ fin' = fin /\ rc' = rc /\ ~Sane
      /\ msg_bytes_read \in Nat /\ HeaderSize \in Nat /\ HeaderSize > 0
      /\ HandOn(msg_bytes_read) /\ base + msg_bytes_read <= arrived
  <2>1. msg_bytes_read \in Nat /\ HeaderSize \in Nat /\ HeaderSize > 0
    BY StreamAssumption DEF IInv, TypeOK
  <2>2. TypeOK /\ Aligned /\ open = TRUE /\ ~Sane
    BY DEF Reject, IInv, TypeOK
  <2>3. ~(msg_bytes_read < HeaderSize)
    BY <2>1, <2>2 DEF Sane, msg_len
  <2>4. rc > 0
    BY <2>1, <2>2, <2>3 DEF Aligned
  <2>5. QED
    BY <2>1, <2>2, <2>4 DEF Reject, netVars, Aligned
<1>2. ~(msg_bytes_read < HeaderSize)
  BY <1>1 DEF Sane, msg_len
<1>3. Inside
  BY <1>1, <1>2 DEF Aligned
<1>4. PICK k \in 1 .. N : k = Current
  BY <1>1, <1>3, StreamAssumption DEF Inside, Current, TypeOK
<1>5. HeaderLength = Length[k] /\ Length[k] \in Nat
  BY <1>1, <1>4, HeaderHere, StreamAssumption DEF Aligned
<1>6. Length[k] < HeaderSize
  BY <1>1, <1>2, <1>5 DEF Sane, msg_len
<1>7. msg_bytes_read = WireSize(k)
  BY <1>1, <1>2, <1>3, <1>4, <1>6 DEF Inside, WireSize
<1>8. Aligned' /\ handed' \in Seq([from : Nat, len : Nat])
      /\ base' \in Nat /\ msg_bytes_read' = 0
  BY <1>1, <1>4, <1>7, HandOnStep
<1>9. QED
  BY <1>1, <1>8 DEF IInv, TypeOK, AtEnd

LEMMA IInvStep == IInv /\ [Next]_vars => IInv'
<1> SUFFICES ASSUME IInv, [Next]_vars
             PROVE  IInv'
  OBVIOUS
<1>1. CASE \E n \in 1 .. Start[N + 1] : Read(n)
  BY <1>1, ReadStep
<1>2. CASE Reject
  BY <1>2, RejectStep
<1>3. CASE Eof \/ ReadError
  <2>1. /\ UNCHANGED <<arrived, fin, base, msg_bytes_read, handed>>
        /\ open' = FALSE /\ Sane
        /\ \/ rc' = -1
           \/ rc' = 0 /\ fin /\ base + msg_bytes_read = arrived
    BY <1>3 DEF Eof, ReadError, netVars
  <2>2. TypeOK'
    <3>1. fin' \in BOOLEAN /\ open' \in BOOLEAN
      BY <2>1 DEF IInv, TypeOK
    <3>2. QED
      BY <2>1, <3>1 DEF IInv, TypeOK
  <2>3. Aligned'
    BY <2>1 DEF IInv, Aligned, Current, Inside, Arrived
  <2>4. AtEnd'
    BY <2>1 DEF AtEnd, Sane, msg_len, HeaderLength
  <2>5. QED
    BY <2>2, <2>3, <2>4 DEF IInv
<1>4. CASE Arrive \/ PeerCloses
  <2>1. /\ UNCHANGED <<base, msg_bytes_read, rc, open, handed>>
        /\ \/ ~fin /\ arrived' \in arrived + 1 .. Start[N + 1] /\ fin' = fin
           \/ fin' = TRUE /\ arrived' = arrived /\ ~fin
    BY <1>4 DEF Arrive, PeerCloses
  <2>2. arrived \in Nat /\ Start[N + 1] \in Nat /\ arrived' \in Nat
        /\ arrived <= arrived' /\ arrived' <= Start[N + 1]
    BY <2>1, StreamAssumption DEF IInv, TypeOK
  <2>3. TypeOK'
    <3>1. fin' \in BOOLEAN /\ open' \in BOOLEAN
      BY <2>1 DEF IInv, TypeOK
    <3>2. QED
      BY <2>1, <2>2, <3>1 DEF IInv, TypeOK
  <2>4. \A i \in 1 .. Len(handed) : Start[i + 1] \in Nat
    BY StreamAssumption DEF IInv, Aligned, TypeOK
  <2>5. Aligned'
    <3>1. /\ base' = base /\ msg_bytes_read' = msg_bytes_read /\ rc' = rc
          /\ open' = open /\ handed' = handed
      BY <2>1
    <3>2. \A i \in 1 .. Len(handed) : Arrived(i) => Arrived(i)'
      BY <2>2, <2>4 DEF Arrived
    <3>3. Inside => Inside'
      BY <3>1 DEF Inside, Current
    <3>4. base + msg_bytes_read <= arrived => base' + msg_bytes_read' <= arrived'
      BY <2>2, <3>1 DEF IInv, TypeOK
    <3>5. QED
      BY <3>1, <3>2, <3>3, <3>4 DEF IInv, Aligned, Current
  <2>6. AtEnd'
    BY <2>1 DEF IInv, AtEnd
  <2>7. QED
    BY <2>3, <2>5, <2>6 DEF IInv
<1>5. CASE UNCHANGED vars
  BY <1>5 DEF vars, netVars, IInv, TypeOK, Aligned, AtEnd, Current, Inside,
              Arrived, Sane, msg_len, HeaderLength
<1>6. QED
  BY <1>1, <1>2, <1>3, <1>4, <1>5 DEF Next, Reader

(* The reader is always aligned with the stream. *)
THEOREM Invariance == Spec => []IInv
  BY IInvInit, IInvStep, PTL DEF Spec

(* read_ofp_msg never counts, reads or hands on more than there is.        *)
THEOREM TypeCorrect == Spec => []TypeOK
<1>1. IInv => TypeOK
  BY DEF IInv
<1>2. QED
  BY <1>1, Invariance, PTL

(* Whatever the segmentation, the messages handed on are those written, in *)
(* order and entire.                                                       *)
THEOREM MessagesHandedOnAsWritten == Spec => []HandedOnAsWritten
<1>1. IInv => HandedOnAsWritten
  BY DEF IInv, Aligned, HandedOnAsWritten
<1>2. QED
  BY <1>1, Invariance, PTL

(* Nothing of a later message is ever read with an earlier one. *)
THEOREM ReadsNothingAhead == Spec => []NothingReadAhead
<1>1. IInv => NothingReadAhead
  <2> SUFFICES ASSUME IInv, Len(handed) < N
               PROVE  base + msg_bytes_read <= Start[Len(handed) + 2]
    BY DEF NothingReadAhead
  <2>1. Current \in 1 .. N /\ msg_bytes_read \in Nat /\ Len(handed) \in Nat
    BY StreamAssumption DEF Current, IInv, TypeOK
  <2>2. /\ Start[Current] \in Nat /\ WireSize(Current) \in Nat
        /\ Start[Current + 1] = Start[Current] + WireSize(Current)
        /\ HeaderSize <= WireSize(Current) /\ HeaderSize \in Nat
    BY <2>1, Layout
  <2>3. msg_bytes_read <= WireSize(Current)
    BY <2>1, <2>2 DEF IInv, Aligned, Inside
  <2>4. base = Start[Current] /\ Current + 1 = Len(handed) + 2
    BY <2>1 DEF IInv, Aligned, Current
  <2>5. QED
    BY <2>1, <2>2, <2>3, <2>4
<1>2. QED
  BY <1>1, Invariance, PTL

(* When the peer closes, every message that came in entirely was handed on. *)
THEOREM CloseLosesNothing == Spec => []EofLosesNothing
<1>1. IInv => EofLosesNothing
  <2> SUFFICES ASSUME IInv, ~open, rc = 0, NEW k \in 1 .. N, Arrived(k),
                      Len(handed) < k
               PROVE  FALSE
    BY StreamAssumption DEF EofLosesNothing, IInv, TypeOK
  <2> DEFINE c == Current
  <2>1. /\ base + msg_bytes_read = arrived /\ Sane /\ base = Start[c]
        /\ Start[k + 1] <= arrived /\ msg_bytes_read \in Nat
    BY DEF IInv, AtEnd, Aligned, Arrived, TypeOK
  <2>2. c \in 1 .. N /\ c <= k /\ N \in Nat
    BY StreamAssumption DEF IInv, TypeOK, Current
  <2>3. /\ Start[c] \in Nat /\ Start[c + 1] = Start[c] + WireSize(c)
        /\ WireSize(c) \in Nat /\ HeaderSize \in Nat /\ HeaderSize > 0
        /\ HeaderSize <= WireSize(c) /\ Start[c + 1] \in Nat
        /\ Length[c] \in Nat
    BY <2>2, Layout
  <2>4. Start[c + 1] <= Start[k + 1]
    <3>1. c + 1 \in 1 .. N + 1 /\ k + 1 \in 1 .. N + 1
      BY <2>2
    <3>2. Start[k + 1] \in Nat
      BY <3>1, StreamAssumption
    <3>3. CASE c = k
      BY <2>3, <3>3
    <3>4. CASE c < k
      <4>1. c + 1 < k + 1
        BY <2>2, <3>4
      <4>2. Start[c + 1] < Start[k + 1]
        BY <3>1, <4>1, StreamAssumption
      <4>3. Start[c + 1] \in Nat
        BY <3>1, StreamAssumption
      <4> QED BY <3>2, <4>2, <4>3
    <3>5. QED
      BY <2>2, <3>3, <3>4
  <2>5. msg_bytes_read < WireSize(c)
    <3>1. HeaderLength = Length[c]
      BY <2>1, <2>2, HeaderHere
    <3>2. CASE msg_bytes_read = 0
      BY <2>3, <3>2
    <3>3. CASE Length[c] < HeaderSize /\ msg_bytes_read = HeaderSize
      BY <2>1, <2>3, <3>1, <3>3 DEF Sane, msg_len
    <3>4. QED
      BY <3>2, <3>3 DEF IInv, Aligned, Inside
  <2>6. Start[k + 1] \in Nat
    BY <2>2, StreamAssumption
  <2>7. QED
    BY <2>1, <2>3, <2>4, <2>5, <2>6
<1>2. QED
  BY <1>1, Invariance, PTL
=============================================================================
