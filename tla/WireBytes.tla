------------------------------ MODULE WireBytes ------------------------------
(***************************************************************************)
(* A message in memory, for the modules that rewrite one in place.  A byte *)
(* is known by the element it belongs to (an item, an action, a header)    *)
(* and its place in it; padding is zero.  Offsets count from 0, as in C.   *)
(***************************************************************************)
EXTENDS Integers, SequencesExt

Bytes(element, n) == [i \in 1 .. n |-> <<element, i>>]

Zero == <<<<"zero", 0, 0>>, 0>>
Zeros(n) == [i \in 1 .. n |-> Zero]

(* What lies behind the message in the buffer counts as zero. *)
Slice(mem, from, n) == SubSeq(mem \o Zeros(from + n), from + 1, from + n)

(* The byte-wise copies of the program run upwards, from where the message *)
(* was to where it moves down to, so they read every byte before it is     *)
(* overwritten.                                                            *)
Copied(mem, to, bytes) ==
  [i \in 1 .. Len(mem) |->
     IF i - to \in 1 .. Len(bytes) THEN bytes[i - to] ELSE mem[i]]

(* Bytes from a length to the next multiple of 8. *)
Pad(length) == (8 - (length % 8)) % 8
Padded(length) == length + Pad(length)

(* What a list of elements, of those that Keep holds of, looks like on the *)
(* wire; Name(i) and Size(i) are the element's.                            *)
Wire(n, Keep(_), Name(_), Size(_)) ==
  FlattenSeq([i \in 1 .. n |->
                IF Keep(i) THEN Bytes(Name(i), Size(i)) ELSE <<>>])
=============================================================================
