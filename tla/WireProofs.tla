----------------------------- MODULE WireProofs -----------------------------
(***************************************************************************)
(* What the operators of WireBytes return, for messages of any length.     *)
(* FlattenSeq is defined by recursion over the elements of a list; what it *)
(* computes follows by induction on how many of them it has joined.        *)
(***************************************************************************)
EXTENDS WireBytes, SequenceTheorems, WellFoundedInduction, TLAPS

(* A set of numbers has a least element.                                   *)
LEMMA LeastOfSet ==
  ASSUME NEW T, T \subseteq Nat, T # {}
  PROVE  \E x \in T : \A y \in T : x <= y
<1>1. IsWellFoundedOn(OpToRel(<,Nat), Nat)
  BY NatLessThanWellFounded, Zenon
<1>2. \E x \in T : \A y \in T : ~ (<<y, x>> \in OpToRel(<,Nat))
  BY <1>1, WFMin, Zenon
<1>3. OpToRel(<,Nat) = {ss \in Nat \X Nat : ss[1] < ss[2]}
  BY Zenon DEF OpToRel
<1>4. PICK x \in T :
        \A y \in T : ~ (<<y, x>> \in {ss \in Nat \X Nat : ss[1] < ss[2]})
  BY <1>2, <1>3, Zenon
<1>5. \A y \in T : ~(y < x)
  BY <1>4
<1> QED BY <1>5

(* Induction, over the set of the numbers for which a statement holds.     *)
LEMMA SetInduction ==
  ASSUME NEW T, 0 \in T, \A n \in Nat : n \in T => n + 1 \in T
  PROVE  \A n \in Nat : n \in T
<1> SUFFICES ASSUME NEW k \in Nat, k \notin T PROVE FALSE
  OBVIOUS
<1> DEFINE R == {n \in Nat : n \notin T}
<1>1. R # {} /\ R \subseteq Nat
  OBVIOUS
<1>2. PICK x \in R : \A y \in R : x <= y
  BY <1>1, LeastOfSet, Zenon
<1>3. x # 0 /\ x \in Nat
  OBVIOUS
<1>4. x - 1 \in Nat /\ x - 1 \in T
  BY <1>2, <1>3
<1> QED BY <1>3, <1>4

-----------------------------------------------------------------------------
(* FlattenSeq.                                                             *)

(* The lists joined so far, from the first up to each of them.             *)
Join(s, x, i) == x \o s[i]
Joined(s, n, f) ==
  /\ f[1] = s[1]
  /\ \A i \in 2 .. n : f[i] = Join(s, f[i - 1], i)

LEMMA JoinType ==
  ASSUME NEW S, NEW s \in Seq(Seq(S)), NEW x \in Seq(S), NEW i \in 1 .. Len(s)
  PROVE  /\ Join(s, x, i) \in Seq(S)
         /\ Len(Join(s, x, i)) = Len(x) + Len(s[i])
<1>1. s[i] \in Seq(S)
  OBVIOUS
<1> QED BY <1>1, ConcatProperties DEF Join

LEMMA JoinedExists ==
  ASSUME NEW S, NEW s \in Seq(Seq(S))
  PROVE  \A n \in Nat : n \in 1 .. Len(s) =>
           \E f \in [1 .. n -> Seq(S)] : Joined(s, n, f)
<1> DEFINE P(n) == n \in 1 .. Len(s) =>
                     \E f \in [1 .. n -> Seq(S)] : Joined(s, n, f)
           T == {n \in Nat : P(n)}
<1>0. Len(s) \in Nat /\ \A i \in 1 .. Len(s) : s[i] \in Seq(S)
  OBVIOUS
<1>1. 0 \in T
  OBVIOUS
<1>2. ASSUME NEW n \in Nat, n \in T, n + 1 \in 1 .. Len(s)
      PROVE  \E f \in [1 .. n + 1 -> Seq(S)] : Joined(s, n + 1, f)
  <2>1. CASE n = 0
    <3> DEFINE f == [i \in 1 .. 1 |-> s[1]]
    <3>1. f \in [1 .. 1 -> Seq(S)] /\ f[1] = s[1]
      BY <1>0, <1>2, <2>1
    <3>2. Joined(s, 1, f)
      BY <3>1 DEF Joined
    <3> QED BY <2>1, <3>1, <3>2
  <2>2. CASE n # 0
    <3>1. n \in 1 .. Len(s) /\ n \in 1 .. n
      BY <1>0, <1>2, <2>2
    <3>2. PICK g \in [1 .. n -> Seq(S)] : Joined(s, n, g)
      BY <1>2, <3>1
    <3> DEFINE f == [i \in 1 .. n + 1 |-> IF i = n + 1 THEN Join(s, g[n], n + 1)
                                                       ELSE g[i]]
    <3>3. Join(s, g[n], n + 1) \in Seq(S)
      BY <1>2, <3>1, JoinType
    <3>4. f \in [1 .. n + 1 -> Seq(S)]
      BY <3>3
    <3>5. \A i \in 1 .. n : f[i] = g[i]
      OBVIOUS
    <3>6. f[n + 1] = Join(s, g[n], n + 1)
      BY <3>1
    <3> HIDE DEF f
    <3>7. f[1] = s[1]
      BY <3>1, <3>2, <3>5 DEF Joined
    <3>8. ASSUME NEW i \in 2 .. n + 1 PROVE f[i] = Join(s, f[i - 1], i)
      <4>1. CASE i = n + 1
        <5>1. i - 1 = n
          BY <4>1
        <5>2. f[n] = g[n]
          BY <3>1, <3>5
        <5> QED BY <3>6, <4>1, <5>1, <5>2
      <4>2. CASE i # n + 1
        <5>1. i \in 2 .. n /\ i \in 1 .. n /\ i - 1 \in 1 .. n
          BY <4>2
        <5> QED BY <3>2, <3>5, <5>1 DEF Joined
      <4> QED BY <4>1, <4>2
    <3>9. Joined(s, n + 1, f)
      BY <3>7, <3>8 DEF Joined
    <3> QED BY <3>4, <3>9
  <2> QED BY <2>1, <2>2
<1>3. ASSUME NEW n \in Nat, n \in T PROVE n + 1 \in T
  <2>1. P(n + 1)
    BY <1>2, <1>3
  <2> QED BY <2>1
<1> HIDE DEF T
<1>4. \A n \in Nat : n \in T
  BY <1>1, <1>3, SetInduction
<1> QED BY <1>4 DEF T

(* FlattenSeq joins all the lists.                                         *)
LEMMA FlattenJoins ==
  ASSUME NEW S, NEW s \in Seq(Seq(S)), Len(s) # 0
  PROVE  \E f \in [1 .. Len(s) -> Seq(S)] :
           Joined(s, Len(s), f) /\ FlattenSeq(s) = f[Len(s)]
<1> DEFINE R(g) == [i \in 1 .. Len(s) |->
                      IF i = 1 THEN s[i] ELSE Join(s, g[i - 1], i)]
           flatten == CHOOSE g : g = R(g)
<1>1. Len(s) \in 1 .. Len(s) /\ Len(s) \in Nat
  OBVIOUS
<1>2. PICK f \in [1 .. Len(s) -> Seq(S)] : Joined(s, Len(s), f)
  BY <1>1, JoinedExists
<1>3. f = R(f)
  <2>1. \A i \in 1 .. Len(s) : i = 1 \/ i \in 2 .. Len(s)
    BY <1>1
  <2> QED BY <1>2, <2>1 DEF Joined
<1>4. flatten = R(flatten)
  BY <1>3, Zenon
<1>5. FlattenSeq(s) = flatten[Len(s)]
  BY Zenon DEF FlattenSeq, Join
<1> HIDE DEF flatten
<1>6. \A i \in 1 .. Len(s) :
        flatten[i] = IF i = 1 THEN s[i] ELSE Join(s, flatten[i - 1], i)
  BY <1>4, Zenon
<1> DEFINE T == {n \in Nat : n + 1 \in 1 .. Len(s) => flatten[n + 1] = f[n + 1]}
<1>7. 0 \in T
  BY <1>1, <1>2, <1>6 DEF Joined
<1>8. ASSUME NEW n \in Nat, n \in T PROVE n + 1 \in T
  <2> SUFFICES ASSUME n + 2 \in 1 .. Len(s) PROVE flatten[n + 2] = f[n + 2]
    OBVIOUS
  <2>1. /\ n + 1 \in 1 .. Len(s) /\ n + 2 \in 2 .. Len(s)
        /\ (n + 2) - 1 = n + 1 /\ n + 2 # 1
    BY <1>1
  <2>2. flatten[n + 1] = f[n + 1]
    BY <1>8, <2>1
  <2> QED BY <1>2, <1>6, <2>1, <2>2 DEF Joined
<1>9. \A n \in Nat : n \in T
  <2> HIDE DEF T
  <2> QED BY <1>7, <1>8, SetInduction
<1>10. flatten[Len(s)] = f[Len(s)]
  <2>1. Len(s) - 1 \in Nat /\ (Len(s) - 1) + 1 = Len(s)
    BY <1>1
  <2>2. Len(s) - 1 \in T
    BY <1>9, <2>1
  <2> QED BY <1>1, <2>1, <2>2
<1> QED BY <1>2, <1>5, <1>10

LEMMA FlattenType ==
  ASSUME NEW S, NEW s \in Seq(Seq(S))
  PROVE  FlattenSeq(s) \in Seq(S)
<1>1. CASE Len(s) = 0
  <2>1. FlattenSeq(s) = s
    BY <1>1, Zenon DEF FlattenSeq
  <2>2. s = <<>>
    BY <1>1
  <2> QED BY <2>1, <2>2
<1>2. CASE Len(s) # 0
  <2>1. Len(s) \in 1 .. Len(s)
    BY <1>2
  <2>2. PICK f \in [1 .. Len(s) -> Seq(S)] : FlattenSeq(s) = f[Len(s)]
    BY <1>2, FlattenJoins
  <2> QED BY <2>1, <2>2
<1> QED BY <1>1, <1>2

(* Longer lists are joined to a longer one.                                *)
LEMMA FlattenLonger ==
  ASSUME NEW S, NEW s \in Seq(Seq(S)), NEW t \in Seq(Seq(S)),
         Len(s) = Len(t), \A i \in 1 .. Len(s) : Len(s[i]) <= Len(t[i])
  PROVE  /\ Len(FlattenSeq(s)) <= Len(FlattenSeq(t))
         /\ (\E i \in 1 .. Len(s) : Len(s[i]) < Len(t[i]))
              => Len(FlattenSeq(s)) < Len(FlattenSeq(t))
<1>1. CASE Len(s) = 0
  <2>1. FlattenSeq(s) = s /\ FlattenSeq(t) = t
    BY <1>1, Zenon DEF FlattenSeq
  <2> QED BY <1>1, <2>1
<1>2. CASE Len(s) # 0
  <2>1. /\ Len(s) \in 1 .. Len(s) /\ Len(s) \in Nat /\ 1 \in 1 .. Len(s)
        /\ \A i \in 1 .. Len(s) : Len(s[i]) \in Nat /\ Len(t[i]) \in Nat
    BY <1>2
  <2>2. PICK f \in [1 .. Len(s) -> Seq(S)] :
          Joined(s, Len(s), f) /\ FlattenSeq(s) = f[Len(s)]
    BY <1>2, FlattenJoins
  <2>3. PICK g \in [1 .. Len(s) -> Seq(S)] :
          Joined(t, Len(s), g) /\ FlattenSeq(t) = g[Len(s)]
    BY <1>2, FlattenJoins
  <2>4. ASSUME NEW i \in 2 .. Len(s)
        PROVE  /\ Len(f[i]) = Len(f[i - 1]) + Len(s[i])
               /\ Len(g[i]) = Len(g[i - 1]) + Len(t[i])
               /\ Len(f[i - 1]) \in Nat /\ Len(g[i - 1]) \in Nat
    <3>1. i \in 1 .. Len(s) /\ i - 1 \in 1 .. Len(s)
      BY <2>1
    <3>2. f[i - 1] \in Seq(S) /\ g[i - 1] \in Seq(S)
      BY <3>1
    <3>3. f[i] = Join(s, f[i - 1], i) /\ g[i] = Join(t, g[i - 1], i)
      BY <2>2, <2>3 DEF Joined
    <3>4. Len(f[i - 1]) \in Nat /\ Len(g[i - 1]) \in Nat
      BY <3>2
    <3>5. Len(f[i]) = Len(f[i - 1]) + Len(s[i])
      BY <3>1, <3>2, <3>3, JoinType, ZenonT(60)
    <3>6. Len(g[i]) = Len(g[i - 1]) + Len(t[i])
      BY <3>1, <3>2, <3>3, JoinType, ZenonT(60)
    <3> QED BY <3>4, <3>5, <3>6
  <2> DEFINE lf(i) == Len(f[i])
             lg(i) == Len(g[i])
             ls(i) == Len(s[i])
             lt(i) == Len(t[i])
  <2>41. /\ \A i \in 1 .. Len(s) : ls(i) \in Nat /\ lt(i) \in Nat /\ ls(i) <= lt(i)
         /\ \A i \in 1 .. Len(s) : lf(i) \in Nat /\ lg(i) \in Nat
    BY <2>1
  <2>42. \A i \in 2 .. Len(s) :
           lf(i) = lf(i - 1) + ls(i) /\ lg(i) = lg(i - 1) + lt(i)
    BY <2>4
  <2>43. lf(1) = ls(1) /\ lg(1) = lt(1)
    BY <2>2, <2>3 DEF Joined
  <2> DEFINE Shorter(n) == /\ lf(n) <= lg(n)
                           /\ (\E i \in 1 .. n : ls(i) < lt(i)) => lf(n) < lg(n)
             T == {n \in Nat : n + 1 \in 1 .. Len(s) => Shorter(n + 1)}
  <2> HIDE DEF lf, lg, ls, lt
  <2>5. 0 \in T
    BY <2>1, <2>41, <2>43
  <2>6. ASSUME NEW n \in Nat, n \in T PROVE n + 1 \in T
    <3> SUFFICES ASSUME n + 2 \in 1 .. Len(s) PROVE Shorter(n + 2)
      OBVIOUS
    <3>1. /\ n + 1 \in 1 .. Len(s) /\ n + 2 \in 2 .. Len(s)
          /\ (n + 2) - 1 = n + 1
          /\ \A i \in 1 .. n + 2 : i \in 1 .. n + 1 \/ i = n + 2
      BY <2>1
    <3>2. Shorter(n + 1)
      BY <2>6, <3>1
    <3>3. lf(n + 2) = lf(n + 1) + ls(n + 2) /\ lg(n + 2) = lg(n + 1) + lt(n + 2)
      BY <2>42, <3>1
    <3>4. /\ ls(n + 2) \in Nat /\ lt(n + 2) \in Nat /\ ls(n + 2) <= lt(n + 2)
          /\ lf(n + 1) \in Nat /\ lg(n + 1) \in Nat
      BY <2>41, <3>1
    <3>5. lf(n + 2) <= lg(n + 2)
      BY <3>2, <3>3, <3>4
    <3>6. ASSUME NEW i \in 1 .. n + 2, ls(i) < lt(i)
          PROVE  lf(n + 2) < lg(n + 2)
      <4>1. CASE i \in 1 .. n + 1
        <5>1. lf(n + 1) < lg(n + 1)
          BY <3>2, <3>6, <4>1, Zenon
        <5>2. \A a, b, c, d \in Nat : a < b /\ c <= d => a + c < b + d
          OBVIOUS
        <5>3. lf(n + 1) + ls(n + 2) < lg(n + 1) + lt(n + 2)
          BY <3>4, <5>1, <5>2, Zenon
        <5> QED BY <3>3, <5>3
      <4>2. CASE i = n + 2
        <5>1. ls(n + 2) < lt(n + 2)
          BY <3>6, <4>2
        <5>2. lf(n + 1) <= lg(n + 1)
          BY <3>2
        <5>3. \A a, b, c, d \in Nat : a <= b /\ c < d => a + c < b + d
          OBVIOUS
        <5>4. lf(n + 1) + ls(n + 2) < lg(n + 1) + lt(n + 2)
          BY <3>4, <5>1, <5>2, <5>3, Zenon
        <5> QED BY <3>3, <5>4
      <4> QED BY <3>1, <4>1, <4>2
    <3> QED BY <3>5, <3>6
  <2>7. Len(s) - 1 \in T
    <3> HIDE DEF T
    <3>1. \A n \in Nat : n \in T
      BY <2>5, <2>6, SetInduction
    <3> QED BY <2>1, <3>1
  <2>8. Shorter(Len(s))
    <3>1. (Len(s) - 1) + 1 = Len(s)
      BY <2>1
    <3> QED BY <2>1, <2>7, <3>1
  <2> QED BY <2>1, <2>2, <2>3, <2>8 DEF lf, lg, ls, lt
<1> QED BY <1>1, <1>2

-----------------------------------------------------------------------------
(* Bytes, slices and copies.                                               *)

LEMMA BytesProperties ==
  ASSUME NEW S, NEW e, NEW n \in Nat, \A i \in 1 .. n : <<e, i>> \in S
  PROVE  /\ Bytes(e, n) \in Seq(S) /\ Len(Bytes(e, n)) = n
         /\ \A i \in 1 .. n : Bytes(e, n)[i] = <<e, i>>
BY DEF Bytes

LEMMA ZerosProperties ==
  ASSUME NEW S, Zero \in S, NEW n \in Nat
  PROVE  Zeros(n) \in Seq(S) /\ Len(Zeros(n)) = n
BY DEF Zeros

(* A slice is as long as it was asked for, and goes on with zeros. *)
LEMMA SliceProperties ==
  ASSUME NEW S, Zero \in S, NEW mem \in Seq(S), NEW from \in Nat, NEW n \in Nat
  PROVE  /\ Slice(mem, from, n) \in Seq(S) /\ Len(Slice(mem, from, n)) = n
         /\ \A i \in 1 .. n :
              Slice(mem, from, n)[i]
                = IF from + i \in 1 .. Len(mem) THEN mem[from + i] ELSE Zero
<1> DEFINE z == Zeros(from + n)
           long == mem \o z
           k == Len(mem)
<1>1. /\ z \in Seq(S) /\ Len(z) = from + n /\ k \in Nat
      /\ \A i \in 1 .. from + n : z[i] = Zero
  BY ZerosProperties DEF Zeros
<1> HIDE DEF z, k
<1>2. \A i \in 1 .. k + (from + n) :
        long[i] = IF i <= k THEN mem[i] ELSE z[i - k]
  BY <1>1, ConcatProperties DEF k
<1> HIDE DEF long
<1>4. ASSUME NEW i \in from + 1 .. from + n
      PROVE  long[i] = IF i \in 1 .. k THEN mem[i] ELSE Zero
  <2>1. i \in 1 .. k + (from + n)
    BY <1>1
  <2>2. long[i] = IF i <= k THEN mem[i] ELSE z[i - k]
    BY <1>2, <2>1
  <2>3. CASE i <= k
    BY <2>1, <2>2, <2>3
  <2>4. CASE ~(i <= k)
    <3>1. i - k \in 1 .. from + n /\ i \notin 1 .. k
      BY <1>1, <2>1, <2>4
    <3> QED BY <1>1, <2>2, <2>4, <3>1
  <2> QED BY <2>3, <2>4
<1>5. \A i \in from + 1 .. from + n : long[i] \in S
  <2>1. \A i \in 1 .. k : mem[i] \in S
    BY DEF k
  <2> QED BY <1>4, <2>1
<1> DEFINE t == SubSeq(long, from + 1, from + n)
<1>6. /\ t \in Seq(S) /\ Len(t) = n
      /\ \A i \in 1 .. n : t[i] = long[from + i]
  <2>1. /\ from + 1 \in Int /\ from + n \in Int
        /\ (from + n) - (from + 1) + 1 = n
        /\ (IF from + 1 <= from + n THEN (from + n) - (from + 1) + 1 ELSE 0) = n
        /\ \A i \in 1 .. n : (from + 1) + i - 1 = from + i
    OBVIOUS
  <2> DEFINE u == from + 1
             v == from + n
  <2>2. /\ u \in Int /\ v \in Int /\ v - u + 1 = n
        /\ (IF u <= v THEN v - u + 1 ELSE 0) = n
        /\ \A i \in 1 .. n : u + i - 1 = from + i
    BY <2>1
  <2>3. \A i \in u .. v : long[i] \in S
    BY <1>5
  <2> HIDE DEF u, v
  <2>4. /\ SubSeq(long, u, v) \in Seq(S)
        /\ Len(SubSeq(long, u, v)) = (IF u <= v THEN v - u + 1 ELSE 0)
    BY <2>2, <2>3, SubSeqProperties
  <2>5. \A i \in 1 .. v - u + 1 : SubSeq(long, u, v)[i] = long[u + i - 1]
    BY <2>2, <2>3, SubSeqProperties
  <2> QED BY <2>2, <2>4, <2>5 DEF u, v
<1>7. Slice(mem, from, n) = t
  BY DEF Slice, t, long, z
<1> HIDE DEF t
<1>9. \A i \in 1 .. n :
        t[i] = IF from + i \in 1 .. Len(mem) THEN mem[from + i] ELSE Zero
  <2> TAKE i \in 1 .. n
  <2>1. t[i] = long[from + i] /\ from + i \in from + 1 .. from + n
    BY <1>6
  <2> QED BY <1>4, <2>1 DEF k
<1> QED BY <1>6, <1>7, <1>9

LEMMA SliceType ==
  ASSUME NEW S, Zero \in S, NEW mem \in Seq(S), NEW from \in Nat, NEW n \in Nat
  PROVE  Slice(mem, from, n) \in Seq(S) /\ Len(Slice(mem, from, n)) = n
<1>1. Slice(mem, from, n) \in Seq(S)
  BY SliceProperties
<1>2. Len(Slice(mem, from, n)) = n
  BY SliceProperties
<1> QED BY <1>1, <1>2

LEMMA SliceAt ==
  ASSUME NEW S, Zero \in S, NEW mem \in Seq(S), NEW from \in Nat, NEW n \in Nat
  PROVE  \A i \in 1 .. n :
           Slice(mem, from, n)[i]
             = IF from + i \in 1 .. Len(mem) THEN mem[from + i] ELSE Zero
BY SliceProperties

(* A copy changes what it is copied over and nothing else.                 *)
LEMMA CopiedProperties ==
  ASSUME NEW S, NEW mem \in Seq(S), NEW bytes \in Seq(S), NEW to \in Nat
  PROVE  /\ Copied(mem, to, bytes) \in Seq(S)
         /\ Len(Copied(mem, to, bytes)) = Len(mem)
         /\ \A i \in 1 .. Len(mem) :
              Copied(mem, to, bytes)[i]
                = IF i - to \in 1 .. Len(bytes) THEN bytes[i - to] ELSE mem[i]
<1>1. \A i \in 1 .. Len(mem) :
        (IF i - to \in 1 .. Len(bytes) THEN bytes[i - to] ELSE mem[i]) \in S
  OBVIOUS
<1> QED BY <1>1 DEF Copied

(* Less than eight bytes pad a length.                                     *)
LEMMA PadType ==
  ASSUME NEW length \in Nat
  PROVE  Pad(length) \in 0 .. 7 /\ Padded(length) = length + Pad(length)
BY DEF Pad, Padded

(* Three parts, one behind the other. *)
LEMMA ThreeParts ==
  ASSUME NEW S, NEW h \in Seq(S), NEW x \in Seq(S), NEW f \in Seq(S)
  PROVE  /\ h \o x \o f \in Seq(S)
         /\ Len(h \o x \o f) = Len(h) + Len(x) + Len(f)
         /\ \A i \in 1 .. Len(h) + Len(x) + Len(f) :
              (h \o x \o f)[i] = IF i <= Len(h) THEN h[i]
                                 ELSE IF i <= Len(h) + Len(x) THEN x[i - Len(h)]
                                 ELSE f[i - (Len(h) + Len(x))]
<1>1. \A i \in 1 .. Len(h) + Len(x) :
        (h \o x)[i] = IF i <= Len(h) THEN h[i] ELSE x[i - Len(h)]
  BY ConcatProperties
<1> DEFINE y == h \o x
<1>0. y \in Seq(S) /\ Len(y) = Len(h) + Len(x)
  OBVIOUS
<1>2. Len(h) \in Nat /\ Len(x) \in Nat /\ Len(f) \in Nat
  OBVIOUS
<1> HIDE DEF y
<1>3. \A z \in Seq(S) :
        /\ z \o f \in Seq(S) /\ Len(z \o f) = Len(z) + Len(f)
        /\ \A i \in 1 .. Len(z) + Len(f) :
             (z \o f)[i] = IF i <= Len(z) THEN z[i] ELSE f[i - Len(z)]
  <2> TAKE z \in Seq(S)
  <2>1. z \o f \in Seq(S) /\ Len(z \o f) = Len(z) + Len(f)
    OBVIOUS
  <2>2. \A i \in 1 .. Len(z) + Len(f) :
          (z \o f)[i] = IF i <= Len(z) THEN z[i] ELSE f[i - Len(z)]
    BY ConcatProperties
  <2> QED BY <2>1, <2>2
<1>4. \A i \in 1 .. Len(h) + Len(x) + Len(f) :
        (y \o f)[i] = IF i <= Len(h) THEN h[i]
                      ELSE IF i <= Len(h) + Len(x) THEN x[i - Len(h)]
                      ELSE f[i - (Len(h) + Len(x))]
  <2> TAKE i \in 1 .. Len(h) + Len(x) + Len(f)
  <2>1. CASE i <= Len(y)
    BY <1>0, <1>1, <1>2, <1>3, <2>1 DEF y
  <2>2. CASE ~(i <= Len(y))
    BY <1>0, <1>2, <1>3, <2>2
  <2> QED BY <2>1, <2>2
<1> QED BY <1>0, <1>3, <1>4 DEF y

-----------------------------------------------------------------------------
(* The first n lists, joined.                                              *)
Upto(s, n) == FlattenSeq(SubSeq(s, 1, n))

LEMMA JoinedUnique ==
  ASSUME NEW n \in Nat, n # 0, NEW u, NEW v, NEW f, NEW g,
         Joined(u, n, f), Joined(v, n, g), \A i \in 1 .. n : u[i] = v[i]
  PROVE  f[n] = g[n]
<1> DEFINE T == {k \in Nat : k + 1 \in 1 .. n => f[k + 1] = g[k + 1]}
<1>1. 0 \in T
  <2>1. f[1] = g[1]
    BY DEF Joined
  <2> QED BY <2>1
<1>2. ASSUME NEW k \in Nat, k \in T PROVE k + 1 \in T
  <2> SUFFICES ASSUME k + 2 \in 1 .. n PROVE f[k + 2] = g[k + 2]
    OBVIOUS
  <2>1. k + 1 \in 1 .. n /\ k + 2 \in 2 .. n /\ (k + 2) - 1 = k + 1
    OBVIOUS
  <2>2. f[k + 1] = g[k + 1]
    BY <1>2, <2>1
  <2>3. f[k + 2] = Join(u, f[k + 1], k + 2) /\ g[k + 2] = Join(v, g[k + 1], k + 2)
    BY <2>1 DEF Joined
  <2> QED BY <2>2, <2>3 DEF Join
<1>3. \A k \in Nat : k \in T
  <2> HIDE DEF T
  <2> QED BY <1>1, <1>2, SetInduction
<1>4. n - 1 \in Nat /\ (n - 1) + 1 = n /\ n \in 1 .. n
  OBVIOUS
<1>5. n - 1 \in T
  BY <1>3, <1>4
<1> QED BY <1>4, <1>5

LEMMA PrefixType ==
  ASSUME NEW S, NEW s \in Seq(Seq(S)), NEW n \in 0 .. Len(s)
  PROVE  /\ SubSeq(s, 1, n) \in Seq(Seq(S)) /\ Len(SubSeq(s, 1, n)) = n
         /\ \A i \in 1 .. n : SubSeq(s, 1, n)[i] = s[i]
<1>1. \A i \in 1 .. n : s[i] \in Seq(S)
  OBVIOUS
<1>2. /\ SubSeq(s, 1, n) \in Seq(Seq(S))
      /\ Len(SubSeq(s, 1, n)) = IF 1 <= n THEN n - 1 + 1 ELSE 0
      /\ \A i \in 1 .. n - 1 + 1 : SubSeq(s, 1, n)[i] = s[1 + i - 1]
  BY <1>1, SubSeqProperties
<1> QED BY <1>2

LEMMA UptoType ==
  ASSUME NEW S, NEW s \in Seq(Seq(S)), NEW n \in 0 .. Len(s)
  PROVE  Upto(s, n) \in Seq(S) /\ Len(Upto(s, n)) \in Nat
<1>1. Upto(s, n) \in Seq(S)
  BY PrefixType, FlattenType DEF Upto
<1> QED BY <1>1

LEMMA UptoEnds ==
  ASSUME NEW S, NEW s \in Seq(Seq(S))
  PROVE  Upto(s, 0) = <<>> /\ Upto(s, Len(s)) = FlattenSeq(s)
<1>1. 0 \in 0 .. Len(s) /\ Len(s) \in 0 .. Len(s)
  OBVIOUS
<1>2. SubSeq(s, 1, Len(s)) = s
  <2> DEFINE t == SubSeq(s, 1, Len(s))
  <2>1. t \in Seq(Seq(S)) /\ Len(t) = Len(s) /\ \A i \in 1 .. Len(s) : t[i] = s[i]
    BY <1>1, PrefixType
  <2> HIDE DEF t
  <2>2. t = s
    BY <2>1, SeqEqual
  <2> QED BY <2>2 DEF t
<1>3. SubSeq(s, 1, 0) = <<>>
  BY SubSeqEmpty
<1>4. FlattenSeq(<<>>) = <<>>
  <2>1. Len(<<>>) = 0
    BY EmptySeq
  <2> QED BY <2>1, Zenon DEF FlattenSeq
<1> QED BY <1>2, <1>3, <1>4 DEF Upto

LEMMA UptoStep ==
  ASSUME NEW S, NEW s \in Seq(Seq(S)), NEW n \in Nat, n + 1 <= Len(s)
  PROVE  Upto(s, n + 1) = Upto(s, n) \o s[n + 1]
<1> DEFINE u == SubSeq(s, 1, n)
           v == SubSeq(s, 1, n + 1)
<1>1. n \in 0 .. Len(s) /\ n + 1 \in 0 .. Len(s) /\ n + 1 \in 1 .. Len(s)
  OBVIOUS
<1>2. /\ u \in Seq(Seq(S)) /\ Len(u) = n /\ \A i \in 1 .. n : u[i] = s[i]
      /\ v \in Seq(Seq(S)) /\ Len(v) = n + 1 /\ \A i \in 1 .. n + 1 : v[i] = s[i]
  BY <1>1, PrefixType
<1>3. s[n + 1] \in Seq(S)
  BY <1>1
<1>4. Upto(s, n) = FlattenSeq(u) /\ Upto(s, n + 1) = FlattenSeq(v)
  BY DEF Upto
<1> HIDE DEF u, v
<1>5. Len(v) # 0
  BY <1>2
<1>6. PICK g \in [1 .. n + 1 -> Seq(S)] :
        Joined(v, n + 1, g) /\ FlattenSeq(v) = g[n + 1]
  <2>1. \E g \in [1 .. Len(v) -> Seq(S)] :
          Joined(v, Len(v), g) /\ FlattenSeq(v) = g[Len(v)]
    BY <1>2, <1>5, FlattenJoins
  <2> QED BY <1>2, <2>1
<1>7. CASE n = 0
  <2>1. Upto(s, n) = <<>>
    BY <1>7, UptoEnds
  <2>2. g[n + 1] = s[n + 1]
    BY <1>2, <1>6, <1>7 DEF Joined
  <2>3. <<>> \o s[n + 1] = s[n + 1]
    BY <1>3, ConcatEmptySeq
  <2> QED BY <1>4, <1>6, <2>1, <2>2, <2>3
<1>8. CASE n # 0
  <2>1. PICK f \in [1 .. n -> Seq(S)] : Joined(u, n, f) /\ FlattenSeq(u) = f[n]
    BY <1>2, <1>8, FlattenJoins
  <2>2. Joined(v, n, g)
    BY <1>6 DEF Joined
  <2>3. f[n] = g[n]
    <3>1. ASSUME NEW i \in 1 .. n PROVE u[i] = v[i]
      <4>1. i \in 1 .. n + 1
        OBVIOUS
      <4>2. u[i] = s[i] /\ v[i] = s[i]
        BY <1>2, <4>1
      <4> QED BY <4>2
    <3>2. Joined(u, n, f)
      BY <2>1
    <3>3. \A i \in 1 .. n : u[i] = v[i]
      BY <3>1
    <3>4. \A f1, g1 : Joined(u, n, f1) /\ Joined(v, n, g1) => f1[n] = g1[n]
      BY <1>8, <3>3, JoinedUnique
    <3> QED BY <2>2, <3>2, <3>4
  <2>4. g[n + 1] = Join(v, g[n], n + 1)
    <3>1. n + 1 \in 2 .. n + 1 /\ (n + 1) - 1 = n
      BY <1>8
    <3> QED BY <1>6, <3>1 DEF Joined
  <2>5. v[n + 1] = s[n + 1]
    BY <1>1, <1>2
  <2> QED BY <1>4, <1>6, <2>1, <2>3, <2>4, <2>5 DEF Join
<1> QED BY <1>7, <1>8

(* Joining more lists leaves what is there. *)
LEMMA UptoGrows ==
  ASSUME NEW S, NEW s \in Seq(Seq(S)), NEW n \in 0 .. Len(s)
  PROVE  /\ Len(Upto(s, n)) <= Len(FlattenSeq(s))
         /\ \A j \in 1 .. Len(Upto(s, n)) : FlattenSeq(s)[j] = Upto(s, n)[j]
<1> DEFINE x == Upto(s, n)
           Grown(k) == /\ Len(x) <= Len(Upto(s, n + k))
                       /\ \A j \in 1 .. Len(x) : Upto(s, n + k)[j] = x[j]
           T == {k \in Nat : n + k <= Len(s) => Grown(k)}
<1>0. Len(s) \in Nat /\ n \in Nat /\ Len(x) \in Nat
  BY UptoType
<1> HIDE DEF x
<1>1. 0 \in T
  <2>1. n + 0 = n
    BY <1>0
  <2>2. Grown(0)
    BY <1>0, <2>1 DEF x
  <2> QED BY <2>2
<1>2. ASSUME NEW k \in Nat, k \in T PROVE k + 1 \in T
  <2> SUFFICES ASSUME n + (k + 1) <= Len(s) PROVE Grown(k + 1)
    OBVIOUS
  <2> DEFINE y == Upto(s, n + k)
             z == s[(n + k) + 1]
  <2>1. /\ n + k \in 0 .. Len(s) /\ n + (k + 1) = (n + k) + 1
        /\ (n + k) + 1 <= Len(s) /\ n + k \in Nat /\ (n + k) + 1 \in 1 .. Len(s)
    BY <1>0
  <2>2. Grown(k)
    BY <1>2, <2>1
  <2>3. y \in Seq(S) /\ Len(y) \in Nat /\ z \in Seq(S) /\ Len(z) \in Nat
    BY <2>1, UptoType
  <2>4. Upto(s, n + (k + 1)) = y \o z
    BY <2>1, UptoStep
  <2> HIDE DEF y, z
  <2>5. /\ Len(y \o z) = Len(y) + Len(z)
        /\ \A j \in 1 .. Len(y) : (y \o z)[j] = y[j]
    BY <2>3
  <2>6. Len(x) <= Len(y) /\ \A j \in 1 .. Len(x) : y[j] = x[j]
    BY <2>2 DEF y
  <2>7. /\ Len(x) <= Len(y \o z)
        /\ \A j \in 1 .. Len(x) : (y \o z)[j] = x[j]
    BY <1>0, <2>3, <2>5, <2>6
  <2> QED BY <2>4, <2>7
<1>3. \A k \in Nat : k \in T
  <2> HIDE DEF T
  <2> QED BY <1>1, <1>2, SetInduction
<1>4. /\ Len(s) - n \in Nat /\ n + (Len(s) - n) = Len(s)
  BY <1>0
<1>5. Grown(Len(s) - n)
  <2>1. Len(s) - n \in T
    BY <1>3, <1>4
  <2> QED BY <1>4, <2>1
<1>6. Upto(s, n + (Len(s) - n)) = FlattenSeq(s)
  BY <1>4, UptoEnds
<1> QED BY <1>5, <1>6 DEF x

(* Where a list is in the joined one. *)
LEMMA FlattenAt ==
  ASSUME NEW S, NEW s \in Seq(Seq(S)), NEW n \in Nat, n + 1 <= Len(s)
  PROVE  /\ Len(Upto(s, n + 1)) = Len(Upto(s, n)) + Len(s[n + 1])
         /\ Len(Upto(s, n)) + Len(s[n + 1]) <= Len(FlattenSeq(s))
         /\ \A j \in 1 .. Len(s[n + 1]) :
              FlattenSeq(s)[Len(Upto(s, n)) + j] = s[n + 1][j]
<1> DEFINE x == Upto(s, n)
           y == s[n + 1]
           F == FlattenSeq(s)
<1>1. n \in 0 .. Len(s) /\ n + 1 \in 0 .. Len(s) /\ n + 1 \in 1 .. Len(s)
  OBVIOUS
<1>2. x \in Seq(S) /\ Len(x) \in Nat /\ y \in Seq(S) /\ Len(y) \in Nat
  BY <1>1, UptoType
<1>3. Upto(s, n + 1) = x \o y
  BY UptoStep
<1>4. /\ Len(Upto(s, n + 1)) <= Len(F)
      /\ \A j \in 1 .. Len(Upto(s, n + 1)) : F[j] = Upto(s, n + 1)[j]
  BY <1>1, UptoGrows
<1> HIDE DEF x, y, F
<1>5. Len(x \o y) = Len(x) + Len(y)
  BY <1>2
<1>6. ASSUME NEW j \in 1 .. Len(y) PROVE F[Len(x) + j] = y[j]
  <2> DEFINE i == Len(x) + j
  <2>1. i \in 1 .. Len(x) + Len(y) /\ ~(i <= Len(x)) /\ i - Len(x) = j
    BY <1>2
  <2>2. F[i] = (x \o y)[i]
    BY <1>3, <1>4, <1>5, <2>1
  <2> HIDE DEF i
  <2>3. (x \o y)[i] = IF i <= Len(x) THEN x[i] ELSE y[i - Len(x)]
    BY <1>2, <2>1, ConcatProperties
  <2> QED BY <2>1, <2>2, <2>3 DEF i
<1> QED BY <1>3, <1>4, <1>5, <1>6 DEF x, y, F

(* Lists that differ in the first alone. *)
LEMMA FirstDiffers ==
  ASSUME NEW S, NEW s \in Seq(Seq(S)), NEW t \in Seq(Seq(S)),
         Len(s) = Len(t), Len(s) # 0, \A i \in 2 .. Len(s) : s[i] = t[i]
  PROVE  Len(FlattenSeq(s)) + Len(t[1]) = Len(FlattenSeq(t)) + Len(s[1])
<1> DEFINE ls(n) == Len(Upto(s, n))
           lt(n) == Len(Upto(t, n))
           a == Len(s[1])
           b == Len(t[1])
           T == {n \in Nat : n + 1 <= Len(s) => ls(n + 1) + b = lt(n + 1) + a}
<1>1. /\ Len(s) \in Nat /\ 1 <= Len(s) /\ 1 \in 1 .. Len(s)
      /\ a \in Nat /\ b \in Nat
  OBVIOUS
<1>2. \A n \in 0 .. Len(s) : ls(n) \in Nat /\ lt(n) \in Nat
  BY UptoType
<1>3. \A n \in Nat : n + 1 <= Len(s) =>
        /\ ls(n + 1) = ls(n) + Len(s[n + 1])
        /\ lt(n + 1) = lt(n) + Len(t[n + 1])
  <2> SUFFICES ASSUME NEW n \in Nat, n + 1 <= Len(s)
               PROVE  /\ ls(n + 1) = ls(n) + Len(s[n + 1])
                      /\ lt(n + 1) = lt(n) + Len(t[n + 1])
    OBVIOUS
  <2>1. ls(n + 1) = ls(n) + Len(s[n + 1])
    BY FlattenAt
  <2>2. lt(n + 1) = lt(n) + Len(t[n + 1])
    BY FlattenAt
  <2> QED BY <2>1, <2>2
<1>4. ls(0) = 0 /\ lt(0) = 0
  BY UptoEnds, EmptySeq
<1> HIDE DEF ls, lt, a, b
<1>5. 0 \in T
  <2>1. ls(1) = a /\ lt(1) = b
    BY <1>1, <1>3, <1>4 DEF a, b
  <2> QED BY <1>1, <2>1
<1>6. ASSUME NEW n \in Nat, n \in T PROVE n + 1 \in T
  <2> SUFFICES ASSUME n + 2 <= Len(s) PROVE ls(n + 2) + b = lt(n + 2) + a
    OBVIOUS
  <2>1. /\ n + 1 <= Len(s) /\ n + 1 \in Nat /\ n + 1 \in 0 .. Len(s)
        /\ (n + 1) + 1 = n + 2 /\ n + 2 \in 2 .. Len(s)
    BY <1>1
  <2>2. ls(n + 1) + b = lt(n + 1) + a
    BY <1>6, <2>1, Zenon
  <2>3. s[n + 2] = t[n + 2] /\ Len(s[n + 2]) \in Nat
    BY <2>1
  <2> DEFINE c == Len(s[n + 2])
  <2>4. ls(n + 2) = ls(n + 1) + c /\ lt(n + 2) = lt(n + 1) + c /\ c \in Nat
    BY <1>3, <2>1, <2>3
  <2>5. ls(n + 1) \in Nat /\ lt(n + 1) \in Nat
    BY <1>2, <2>1
  <2> DEFINE p == ls(n + 1)
             q == lt(n + 1)
             u == ls(n + 2)
             v == lt(n + 2)
  <2>6. u = p + c /\ v = q + c /\ p + b = q + a /\ p \in Nat /\ q \in Nat
    BY <2>2, <2>4, <2>5
  <2>7. a \in Nat /\ b \in Nat /\ c \in Nat
    BY <1>1, <2>4
  <2>8. u + b = v + a
    <3> HIDE DEF c, p, q, u, v
    <3> QED BY <2>6, <2>7
  <2> QED BY <2>8
<1>7. \A n \in Nat : n \in T
  <2> HIDE DEF T
  <2> QED BY <1>5, <1>6, SetInduction
<1>8. Len(s) - 1 \in Nat /\ (Len(s) - 1) + 1 = Len(s)
  BY <1>1
<1>9. Len(s) - 1 \in T
  BY <1>7, <1>8
<1>10. ls(Len(s)) + b = lt(Len(s)) + a
  BY <1>8, <1>9
<1>11. ls(Len(s)) = Len(FlattenSeq(s)) /\ lt(Len(s)) = Len(FlattenSeq(t))
  BY UptoEnds DEF ls, lt
<1> QED BY <1>10, <1>11 DEF a, b

-----------------------------------------------------------------------------
(* What a memory holds.                                                    *)
Holds(mem, at, part) ==
  /\ at + Len(part) <= Len(mem)
  /\ \A j \in 1 .. Len(part) : mem[at + j] = part[j]

(* In the first w bytes, nothing but zeros around a part. *)
Filled(mem, w, at, part) ==
  /\ w \in Nat /\ w <= Len(mem)
  /\ \A j \in 1 .. w :
       mem[j] = IF j - at \in 1 .. Len(part) THEN part[j - at] ELSE Zero

LEMMA HoldsSlice ==
  ASSUME NEW S, Zero \in S, NEW mem \in Seq(S), NEW part \in Seq(S),
         NEW at \in Nat, Holds(mem, at, part)
  PROVE  Slice(mem, at, Len(part)) = part
<1> DEFINE n == Len(part)
           t == Slice(mem, at, n)
           len == Len(mem)
<1>1. n \in Nat /\ len \in Nat
  OBVIOUS
<1>2. /\ at + n <= len
      /\ \A j \in 1 .. n : mem[at + j] = part[j]
  BY DEF Holds
<1> HIDE DEF n, len
<1>3. t \in Seq(S) /\ Len(t) = n
  BY <1>1, SliceType
<1>4. \A i \in 1 .. n : t[i] = IF at + i \in 1 .. Len(mem) THEN mem[at + i] ELSE Zero
  BY <1>1, SliceAt
<1> HIDE DEF t
<1>5. \A i \in 1 .. n : t[i] = part[i]
  <2> TAKE i \in 1 .. n
  <2>1. at + i \in 1 .. len
    BY <1>1, <1>2
  <2>2. t[i] = mem[at + i]
    BY <1>4, <2>1 DEF len
  <2> QED BY <1>2, <2>2
<1>6. t = part
  BY <1>3, <1>5, SeqEqual DEF n
<1> QED BY <1>6 DEF t, n

LEMMA JoinAt ==
  ASSUME NEW S, NEW x \in Seq(S), NEW y \in Seq(S)
  PROVE  /\ x \o y \in Seq(S) /\ Len(x \o y) = Len(x) + Len(y)
         /\ \A i \in 1 .. Len(x) : (x \o y)[i] = x[i]
         /\ \A i \in 1 .. Len(y) : (x \o y)[Len(x) + i] = y[i]
<1>1. x \o y \in Seq(S) /\ Len(x \o y) = Len(x) + Len(y)
  OBVIOUS
<1>2. \A i \in 1 .. Len(x) + Len(y) :
        (x \o y)[i] = IF i <= Len(x) THEN x[i] ELSE y[i - Len(x)]
  BY ConcatProperties
<1>3. Len(x) \in Nat /\ Len(y) \in Nat
  OBVIOUS
<1> DEFINE a == Len(x)
           b == Len(y)
           z == x \o y
<1>4. \A i \in 1 .. a + b : z[i] = IF i <= a THEN x[i] ELSE y[i - a]
  BY <1>2
<1>5. a \in Nat /\ b \in Nat
  BY <1>3
<1> HIDE DEF a, b, z
<1>6. \A i \in 1 .. a : z[i] = x[i]
  <2> TAKE i \in 1 .. a
  <2>1. i \in 1 .. a + b /\ i <= a
    BY <1>5
  <2> QED BY <1>4, <2>1
<1>7. \A i \in 1 .. b : z[a + i] = y[i]
  <2> TAKE i \in 1 .. b
  <2>1. a + i \in 1 .. a + b /\ ~(a + i <= a) /\ (a + i) - a = i
    BY <1>5
  <2> QED BY <1>4, <2>1
<1> QED BY <1>1, <1>6, <1>7 DEF a, b, z

LEMMA HoldsParts ==
  ASSUME NEW S, NEW mem \in Seq(S), NEW x \in Seq(S), NEW y \in Seq(S),
         NEW at \in Nat
  PROVE  Holds(mem, at, x \o y) <=> Holds(mem, at, x) /\ Holds(mem, at + Len(x), y)
<1> DEFINE a == Len(x)
           b == Len(y)
           z == x \o y
<1>1. a \in Nat /\ b \in Nat /\ Len(mem) \in Nat
  OBVIOUS
<1>2. Len(z) = a + b
  BY JoinAt
<1>3. \A i \in 1 .. a : z[i] = x[i]
  BY JoinAt
<1>4. \A i \in 1 .. b : z[a + i] = y[i]
  BY JoinAt
<1> DEFINE w == Len(mem)
<1> HIDE DEF a, b, z, w
<1>5. ASSUME Holds(mem, at, z) PROVE Holds(mem, at, x) /\ Holds(mem, at + a, y)
  <2>1. at + (a + b) <= w /\ \A j \in 1 .. a + b : mem[at + j] = z[j]
    BY <1>2, <1>5 DEF Holds, w
  <2>2. at + a <= w /\ (at + a) + b <= w
    BY <1>1, <2>1 DEF w
  <2>3. ASSUME NEW j \in 1 .. a PROVE mem[at + j] = x[j]
    <3>1. j \in 1 .. a + b
      BY <1>1
    <3> QED BY <1>3, <2>1, <3>1
  <2>4. ASSUME NEW j \in 1 .. b PROVE mem[(at + a) + j] = y[j]
    <3>1. a + j \in 1 .. a + b /\ at + (a + j) = (at + a) + j
      BY <1>1
    <3> QED BY <1>4, <2>1, <3>1
  <2> QED BY <2>2, <2>3, <2>4 DEF Holds, w, a, b
<1>6. ASSUME Holds(mem, at, x), Holds(mem, at + a, y) PROVE Holds(mem, at, z)
  <2>1. (at + a) + b <= w
    BY <1>6 DEF Holds, w, b
  <2>2. /\ \A j \in 1 .. a : mem[at + j] = x[j]
        /\ \A j \in 1 .. b : mem[(at + a) + j] = y[j]
    BY <1>6 DEF Holds, a, b
  <2>3. ASSUME NEW j \in 1 .. a + b PROVE mem[at + j] = z[j]
    <3>1. CASE j <= a
      <4>1. j \in 1 .. a
        BY <1>1, <3>1
      <4> QED BY <1>3, <2>2, <4>1
    <3>2. CASE ~(j <= a)
      <4>1. j - a \in 1 .. b /\ (at + a) + (j - a) = at + j /\ a + (j - a) = j
        BY <1>1, <3>2
      <4> QED BY <1>4, <2>2, <4>1
    <3> QED BY <3>1, <3>2
  <2>4. at + (a + b) <= w
    BY <1>1, <2>1 DEF w
  <2> QED BY <1>2, <2>3, <2>4 DEF Holds, w
<1> QED BY <1>5, <1>6 DEF z, a

LEMMA CopiedAt ==
  ASSUME NEW S, NEW mem \in Seq(S), NEW bytes \in Seq(S), NEW to \in Nat
  PROVE  \A i \in 1 .. Len(mem) :
           Copied(mem, to, bytes)[i]
             = IF i - to \in 1 .. Len(bytes) THEN bytes[i - to] ELSE mem[i]
BY CopiedProperties

LEMMA CopiedType ==
  ASSUME NEW S, NEW mem \in Seq(S), NEW bytes \in Seq(S), NEW to \in Nat
  PROVE  Copied(mem, to, bytes) \in Seq(S) /\ Len(Copied(mem, to, bytes)) = Len(mem)
<1>1. Copied(mem, to, bytes) \in Seq(S)
  BY CopiedProperties
<1>2. Len(Copied(mem, to, bytes)) = Len(mem)
  BY CopiedProperties
<1> QED BY <1>1, <1>2

LEMMA HoldsCopied ==
  ASSUME NEW S, NEW mem \in Seq(S), NEW bytes \in Seq(S), NEW to \in Nat,
         to + Len(bytes) <= Len(mem)
  PROVE  Holds(Copied(mem, to, bytes), to, bytes)
<1> DEFINE c == Copied(mem, to, bytes)
           n == Len(bytes)
           w == Len(mem)
<1>1. n \in Nat /\ w \in Nat /\ to + n <= w
  OBVIOUS
<1>2. Len(c) = w
  BY CopiedType
<1>3. \A i \in 1 .. w : c[i] = IF i - to \in 1 .. n THEN bytes[i - to] ELSE mem[i]
  BY CopiedAt
<1> HIDE DEF c, n, w
<1>4. ASSUME NEW j \in 1 .. n PROVE c[to + j] = bytes[j]
  <2>1. to + j \in 1 .. w /\ (to + j) - to = j
    BY <1>1
  <2> QED BY <1>3, <2>1
<1> QED BY <1>1, <1>2, <1>4 DEF Holds, c, n, w

LEMMA HoldsBeside ==
  ASSUME NEW S, NEW mem \in Seq(S), NEW bytes \in Seq(S), NEW to \in Nat,
         NEW at \in Nat, NEW part \in Seq(S), Holds(mem, at, part),
         at + Len(part) <= to \/ to + Len(bytes) <= at
  PROVE  Holds(Copied(mem, to, bytes), at, part)
<1> DEFINE c == Copied(mem, to, bytes)
           n == Len(bytes)
           w == Len(mem)
           p == Len(part)
<1>1. n \in Nat /\ w \in Nat /\ p \in Nat /\ (at + p <= to \/ to + n <= at)
  OBVIOUS
<1>2. Len(c) = w
  BY CopiedType
<1>3. \A i \in 1 .. w : c[i] = IF i - to \in 1 .. n THEN bytes[i - to] ELSE mem[i]
  BY CopiedAt
<1>4. at + p <= w /\ \A j \in 1 .. p : mem[at + j] = part[j]
  BY DEF Holds
<1> HIDE DEF c, n, w, p
<1>5. ASSUME NEW j \in 1 .. p PROVE c[at + j] = part[j]
  <2>1. at + j \in 1 .. w /\ (at + j) - to \notin 1 .. n
    BY <1>1, <1>4
  <2>2. c[at + j] = mem[at + j]
    BY <1>3, <2>1
  <2> QED BY <1>4, <2>2
<1> QED BY <1>2, <1>4, <1>5 DEF Holds, c, w, p

(* Bytes that are there already change nothing. *)
LEMMA HoldsSame ==
  ASSUME NEW S, NEW mem \in Seq(S), NEW bytes \in Seq(S), NEW to \in Nat,
         NEW part \in Seq(S), Holds(mem, to, part), Holds(part, 0, bytes)
  PROVE  Holds(Copied(mem, to, bytes), to, part)
<1> DEFINE c == Copied(mem, to, bytes)
           n == Len(bytes)
           w == Len(mem)
           p == Len(part)
<1>1. n \in Nat /\ w \in Nat /\ p \in Nat
  OBVIOUS
<1>2. Len(c) = w
  BY CopiedType
<1>3. \A i \in 1 .. w : c[i] = IF i - to \in 1 .. n THEN bytes[i - to] ELSE mem[i]
  BY CopiedAt
<1>4. /\ to + p <= w /\ \A j \in 1 .. p : mem[to + j] = part[j]
      /\ \A j \in 1 .. n : part[0 + j] = bytes[j]
  BY DEF Holds
<1> HIDE DEF c, n, w, p
<1>5. ASSUME NEW j \in 1 .. p PROVE c[to + j] = part[j]
  <2>1. to + j \in 1 .. w /\ (to + j) - to = j /\ 0 + j = j
    BY <1>1, <1>4
  <2>2. CASE j \in 1 .. n
    BY <1>3, <1>4, <2>1, <2>2
  <2>3. CASE j \notin 1 .. n
    BY <1>3, <1>4, <2>1, <2>3
  <2> QED BY <2>2, <2>3
<1> QED BY <1>2, <1>4, <1>5 DEF Holds, c, w, p

LEMMA HoldsList ==
  ASSUME NEW S, NEW mem \in Seq(S), NEW at \in Nat, NEW s \in Seq(Seq(S)),
         NEW n \in Nat, n + 1 <= Len(s), Holds(mem, at, FlattenSeq(s))
  PROVE  Holds(mem, at + Len(Upto(s, n)), s[n + 1])
<1> DEFINE F == FlattenSeq(s)
           k == Len(Upto(s, n))
           e == s[n + 1]
           l == Len(e)
           f == Len(F)
           w == Len(mem)
<1>1. n \in 0 .. Len(s) /\ n + 1 \in 1 .. Len(s)
  OBVIOUS
<1>2. k \in Nat
  BY <1>1, UptoType
<1>3. F \in Seq(S)
  BY FlattenType
<1>4. e \in Seq(S)
  BY <1>1
<1>5. f \in Nat /\ l \in Nat /\ w \in Nat
  BY <1>3, <1>4
<1>6. k + l <= f
  BY FlattenAt
<1>7. \A j \in 1 .. l : F[k + j] = e[j]
  BY FlattenAt
<1>8. at + f <= w /\ \A j \in 1 .. f : mem[at + j] = F[j]
  BY DEF Holds
<1> HIDE DEF F, k, e, l, f, w
<1>9. ASSUME NEW j \in 1 .. l PROVE mem[(at + k) + j] = e[j]
  <2>1. k + j \in 1 .. f /\ at + (k + j) = (at + k) + j
    BY <1>2, <1>5, <1>6
  <2> QED BY <1>7, <1>8, <2>1
<1>10. (at + k) + l <= w
  BY <1>2, <1>5, <1>6, <1>8
<1> QED BY <1>9, <1>10 DEF Holds, k, e, l, w

LEMMA FilledMore ==
  ASSUME NEW S, NEW mem \in Seq(S), NEW part \in Seq(S), NEW x \in Seq(S),
         NEW at \in Nat, NEW w, Filled(mem, w, at, part)
  PROVE  Filled(Copied(mem, at + Len(part), x), w, at, part \o x)
<1> DEFINE p == Len(part)
           to == at + p
           c == Copied(mem, to, x)
           n == Len(x)
           l == Len(mem)
           z == part \o x
<1>1. p \in Nat /\ n \in Nat /\ l \in Nat /\ to \in Nat
  OBVIOUS
<1>0. w \in Nat /\ w <= l
  BY DEF Filled
<1>2. Len(c) = l
  BY <1>1, CopiedType
<1>3. \A i \in 1 .. l : c[i] = IF i - to \in 1 .. n THEN x[i - to] ELSE mem[i]
  BY <1>1, CopiedAt
<1>4. \A j \in 1 .. w : mem[j] = IF j - at \in 1 .. p THEN part[j - at] ELSE Zero
  BY DEF Filled
<1>5. Len(z) = p + n
  BY JoinAt
<1>6. \A i \in 1 .. p : z[i] = part[i]
  BY JoinAt
<1>7. \A i \in 1 .. n : z[p + i] = x[i]
  BY JoinAt
<1> HIDE DEF p, c, n, l, z
<1>8. ASSUME NEW j \in 1 .. w
      PROVE  c[j] = IF j - at \in 1 .. p + n THEN z[j - at] ELSE Zero
  <2>0. j \in 1 .. l
    BY <1>0, <1>1
  <2>1. CASE j - at \in 1 .. p
    <3>1. j - to \notin 1 .. n /\ j - at \in 1 .. p + n
      BY <1>1, <2>1
    <3>2. c[j] = mem[j]
      BY <1>3, <2>0, <3>1
    <3> QED BY <1>4, <1>6, <2>1, <3>1, <3>2
  <2>2. CASE j - to \in 1 .. n
    <3>1. j - at \in 1 .. p + n /\ p + (j - to) = j - at
      BY <1>1, <2>2
    <3>2. c[j] = x[j - to]
      BY <1>3, <2>0, <2>2
    <3>3. z[p + (j - to)] = x[j - to]
      BY <1>7, <2>2
    <3> QED BY <3>1, <3>2, <3>3
  <2>3. CASE j - at \notin 1 .. p /\ j - to \notin 1 .. n
    <3>1. j - at \notin 1 .. p + n
      BY <1>1, <2>3
    <3>2. c[j] = mem[j] /\ mem[j] = Zero
      BY <1>3, <1>4, <2>0, <2>3
    <3> QED BY <3>1, <3>2
  <2> QED BY <2>1, <2>2, <2>3
<1> QED BY <1>0, <1>2, <1>5, <1>8 DEF Filled, c, l, z, p

LEMMA FilledZeros ==
  ASSUME NEW S, Zero \in S, NEW mem \in Seq(S), NEW part \in Seq(S), NEW n \in Nat,
         NEW at \in Nat, NEW w, Filled(mem, w, at, part)
  PROVE  Filled(Copied(mem, at + Len(part), Zeros(n)), w, at, part)
<1> DEFINE p == Len(part)
           to == at + p
           x == Zeros(n)
           c == Copied(mem, to, x)
           l == Len(mem)
<1>1. p \in Nat /\ l \in Nat /\ to \in Nat
  OBVIOUS
<1>5. w \in Nat /\ w <= l
  BY DEF Filled
<1>0. x \in Seq(S)
  BY ZerosProperties
<1>9. Len(x) = n
  BY ZerosProperties
<1>10. \A i \in 1 .. n : x[i] = Zero
  BY DEF Zeros
<1> HIDE DEF x, p
<1>2. Len(c) = l
  BY <1>0, <1>1, CopiedType
<1>3. \A i \in 1 .. l : c[i] = IF i - to \in 1 .. n THEN x[i - to] ELSE mem[i]
  BY <1>0, <1>1, <1>9, CopiedAt
<1>4. \A j \in 1 .. w : mem[j] = IF j - at \in 1 .. p THEN part[j - at] ELSE Zero
  BY DEF Filled, p
<1> HIDE DEF c, l
<1>8. ASSUME NEW j \in 1 .. w
      PROVE  c[j] = IF j - at \in 1 .. p THEN part[j - at] ELSE Zero
  <2>0. j \in 1 .. l
    BY <1>1, <1>5
  <2>1. CASE j - to \in 1 .. n
    <3>1. j - at \notin 1 .. p
      BY <1>1, <2>1
    <3>2. c[j] = Zero
      BY <1>3, <1>10, <2>0, <2>1
    <3> QED BY <3>1, <3>2
  <2>2. CASE j - to \notin 1 .. n
    <3>1. c[j] = mem[j]
      BY <1>3, <2>0, <2>2
    <3> QED BY <1>4, <3>1
  <2> QED BY <2>1, <2>2
<1> QED BY <1>2, <1>5, <1>8 DEF Filled, c, l, p, x

LEMMA FilledSlice ==
  ASSUME NEW S, Zero \in S, NEW mem \in Seq(S), NEW part \in Seq(S), NEW n \in Nat,
         NEW at \in Nat, NEW w, Filled(mem, w, at, part), at + Len(part) + n <= w
  PROVE  Slice(mem, at, Len(part) + n) = part \o Zeros(n)
<1> DEFINE p == Len(part)
           l == Len(mem)
           x == Zeros(n)
           z == part \o x
           m == p + n
           t == Slice(mem, at, m)
<1>1. /\ p \in Nat /\ l \in Nat /\ m \in Nat
      /\ w \in Nat /\ w <= l /\ at + p + n <= w
  BY DEF Filled
<1>2. x \in Seq(S)
  BY ZerosProperties
<1>3. Len(x) = n
  BY ZerosProperties
<1>4. \A i \in 1 .. n : x[i] = Zero
  BY DEF Zeros
<1>5. \A j \in 1 .. w : mem[j] = IF j - at \in 1 .. p THEN part[j - at] ELSE Zero
  BY DEF Filled
<1> HIDE DEF x, p
<1>6. z \in Seq(S)
  BY <1>2
<1>7. Len(z) = m
  BY <1>2, <1>3, JoinAt DEF p
<1>8. \A i \in 1 .. p : z[i] = part[i]
  BY <1>2, JoinAt DEF p
<1>9. \A i \in 1 .. n : z[p + i] = x[i]
  BY <1>2, <1>3, JoinAt DEF p
<1> HIDE DEF z, m
<1>10. t \in Seq(S) /\ Len(t) = m
  BY <1>1, SliceType
<1>11. \A i \in 1 .. m : t[i] = IF at + i \in 1 .. l THEN mem[at + i] ELSE Zero
  BY <1>1, SliceAt
<1> HIDE DEF t, l
<1>12. ASSUME NEW i \in 1 .. m PROVE t[i] = z[i]
  <2>1. at + i \in 1 .. w /\ at + i \in 1 .. l /\ (at + i) - at = i
    BY <1>1 DEF m
  <2>2. t[i] = IF i \in 1 .. p THEN part[i] ELSE Zero
    BY <1>5, <1>11, <2>1
  <2>3. CASE i \in 1 .. p
    BY <1>8, <2>2, <2>3
  <2>4. CASE i \notin 1 .. p
    <3>1. i - p \in 1 .. n /\ p + (i - p) = i
      BY <1>1, <2>4 DEF m
    <3> QED BY <1>4, <1>9, <2>2, <2>4, <3>1
  <2> QED BY <2>3, <2>4
<1>13. t = z
  BY <1>6, <1>7, <1>10, <1>12, SeqEqual
<1> QED BY <1>13 DEF t, z, m, x, p
=============================================================================
