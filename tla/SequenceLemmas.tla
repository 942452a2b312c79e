-------- MODULE SequenceLemmas --------
(***************************************************************************)
(* What the proofs about words need of numbers and of sequences: induction *)
(* for a set of naturals, FlattenSeq taken apart piece by piece, joining   *)
(* and cutting, and the maximum that the folds of the community modules    *)
(* go by.                                                                  *)
(***************************************************************************)
EXTENDS Integers, SequencesExt, SequenceTheorems, NaturalsInduction, WellFoundedInduction, TLAPS

--------------------------------
(* Induction over the naturals, and the sequences of words. *)

(* A set of naturals that is not empty has a least one. *)
LEMMA Least ==
  ASSUME NEW T, T \subseteq Nat, T # {}
  PROVE  \E x \in T : \A y \in T : ~ (y < x)
<1>1. IsWellFoundedOn(OpToRel(<, Nat), Nat)
  BY NatLessThanWellFounded
<1>2. PICK x \in T : \A y \in T : <<y, x>> \notin OpToRel(<, Nat)
  BY <1>1, WFMin
<1>. QED BY <1>2 DEF OpToRel

(* Induction over the naturals, for a set of them. *)
LEMMA AllNat ==
  ASSUME NEW P, 0 \in P, \A n \in Nat : n \in P => n + 1 \in P
  PROVE  \A n \in Nat : n \in P
<1> SUFFICES ASSUME NEW m \in Nat \ P
             PROVE  FALSE
  OBVIOUS
<1>1. PICK n \in Nat \ P : \A y \in Nat \ P : ~ (y < n)
  BY Least
<1>2. n # 0 /\ n - 1 \in Nat /\ n - 1 < n /\ (n - 1) + 1 = n
  BY <1>1
<1>3. n - 1 \in P
  BY <1>1, <1>2
<1>. QED BY <1>1, <1>2, <1>3

(* What FlattenSeq chooses is there: the flattening of the first i, for each i. *)
LEMMA FlattenDef ==
  ASSUME NEW seqs, Len(seqs) \in Nat \ {0}
  PROVE  \E f : /\ f = [i \in 1 .. Len(seqs) |-> IF i = 1 THEN seqs[i] ELSE f[i - 1] \o seqs[i]]
                /\ FlattenSeq(seqs) = f[Len(seqs)]
<1> DEFINE G(n, f) == f = [i \in 1 .. n |-> IF i = 1 THEN seqs[i] ELSE f[i - 1] \o seqs[i]]
           P == {n \in Nat : \E f : G(n, f)}
<1>1. 0 \in P
  <2>a. G(0, [i \in 1 .. 0 |-> IF i = 1 THEN seqs[i] ELSE <<>>])
    OBVIOUS
  <2>. QED BY <2>a
<1>2. ASSUME NEW n \in Nat, NEW g, G(n, g)
      PROVE  \E f : G(n + 1, f)
  <2> DEFINE h == [i \in 1 .. n + 1 |-> IF i = 1 THEN seqs[i] ELSE g[i - 1] \o seqs[i]]
  <2>a. \A i \in 1 .. n : h[i] = g[i]
    <3> SUFFICES ASSUME NEW i \in 1 .. n PROVE h[i] = g[i]
      OBVIOUS
    <3>1. g = [j \in 1 .. n |-> IF j = 1 THEN seqs[j] ELSE g[j - 1] \o seqs[j]]
      BY <1>2
    <3>2. g[i] = IF i = 1 THEN seqs[i] ELSE g[i - 1] \o seqs[i]
      BY <3>1
    <3>3. h[i] = IF i = 1 THEN seqs[i] ELSE g[i - 1] \o seqs[i]
      OBVIOUS
    <3>. QED BY <3>2, <3>3
  <2>b. \A i \in 1 .. n + 1 : i # 1 => h[i - 1] = g[i - 1]
    <3>1. \A i \in 1 .. n + 1 : i # 1 => i - 1 \in 1 .. n
      OBVIOUS
    <3> HIDE DEF h
    <3>. QED BY <2>a, <3>1
  <2> DEFINE k == [i \in 1 .. n + 1 |-> IF i = 1 THEN seqs[i] ELSE h[i - 1] \o seqs[i]]
  <2>c. h = k
    <3>1. \A i \in 1 .. n + 1 : h[i] = k[i]
      BY <2>b
    <3>. QED BY <3>1
  <2>d. G(n + 1, h)
    BY <2>c
  <2>. QED BY <2>d
<1>3. \A n \in Nat : n \in P
  <2>a. \A n \in Nat : n \in P => n + 1 \in P
    <3> SUFFICES ASSUME NEW n \in Nat, n \in P PROVE n + 1 \in P
      OBVIOUS
    <3>1. PICK g : G(n, g)
      OBVIOUS
    <3>2. \E f : G(n + 1, f)
      BY <1>2, <3>1
    <3> HIDE DEF G
    <3>. QED BY <3>2
  <2> HIDE DEF P
  <2>. QED BY <1>1, <2>a, AllNat
<1>4. \E f : G(Len(seqs), f)
  BY <1>3
<1>5. PICK f : f = CHOOSE h : G(Len(seqs), h)
  OBVIOUS
<1>6. FlattenSeq(seqs) = f[Len(seqs)]
  BY <1>5 DEF FlattenSeq
<1>7. G(Len(seqs), f)
  <2> HIDE DEF G
  <2>. QED BY <1>4, <1>5
<1>. QED BY <1>6, <1>7

(* The words of k pieces from the one behind j on. *)
Flat(g, j, k) == FlattenSeq([i \in 1 .. k |-> g[j + i]])

(* What FlattenSeq computes on its way to k pieces. *)
Unrolled(f, g, j, k) ==
    \A i \in 1 .. k : f[i] = IF i = 1 THEN g[j + i] ELSE f[i - 1] \o g[j + i]

(* Words joined with words, in either order of joining. *)
LEMMA Assoc == \A a, b, c \in Seq(Nat) : (a \o b) \o c = a \o (b \o c)
<1> SUFFICES ASSUME NEW a \in Seq(Nat), NEW b \in Seq(Nat), NEW c \in Seq(Nat)
             PROVE  (a \o b) \o c = a \o (b \o c)
  OBVIOUS
<1>. QED BY ConcatAssociative, SMTT(30)

(* What lies where in two sequences of words that are joined. *)
LEMMA Joined ==
  ASSUME NEW a \in Seq(Nat), NEW b \in Seq(Nat)
  PROVE  /\ a \o b \in Seq(Nat)
         /\ Len(a \o b) = Len(a) + Len(b)
         /\ \A i \in 1 .. Len(a) : (a \o b)[i] = a[i]
         /\ \A i \in 1 .. Len(b) : (a \o b)[Len(a) + i] = b[i]
<1>1. a \o b \in Seq(Nat)
  BY ConcatProperties, Zenon
<1>. QED BY <1>1

(* No pieces are no words. *)
LEMMA FlatNone ==
  ASSUME NEW g, NEW j PROVE Flat(g, j, 0) = <<>>
<1>1. [i \in 1 .. 0 |-> g[j + i]] = <<>>
  OBVIOUS
<1>. QED BY <1>1 DEF Flat, FlattenSeq

(* The flattening of k pieces is the last of those that lead up to it. *)
LEMMA FlatDef ==
  ASSUME NEW g, NEW j \in Nat, NEW k \in Nat \ {0}
  PROVE  \E f : Unrolled(f, g, j, k) /\ Flat(g, j, k) = f[k]
<1> DEFINE seqs == [i \in 1 .. k |-> g[j + i]]
<1>1. Len(seqs) = k
  OBVIOUS
<1>2. PICK f : /\ f = [i \in 1 .. Len(seqs) |-> IF i = 1 THEN seqs[i] ELSE f[i - 1] \o seqs[i]]
               /\ FlattenSeq(seqs) = f[Len(seqs)]
  <2> HIDE DEF seqs
  <2>. QED BY <1>1, FlattenDef
<1>3. \A i \in 1 .. k : f[i] = IF i = 1 THEN g[j + i] ELSE f[i - 1] \o g[j + i]
  <2> SUFFICES ASSUME NEW i \in 1 .. k
               PROVE  f[i] = IF i = 1 THEN g[j + i] ELSE f[i - 1] \o g[j + i]
    OBVIOUS
  <2>a. seqs[i] = g[j + i]
    OBVIOUS
  <2>b. f[i] = IF i = 1 THEN seqs[i] ELSE f[i - 1] \o seqs[i]
    <3> HIDE DEF seqs
    <3>. QED BY <1>1, <1>2
  <2>. QED BY <2>a, <2>b
<1>4. Unrolled(f, g, j, k)
  BY <1>3 DEF Unrolled
<1>5. Flat(g, j, k) = f[k]
  BY <1>1, <1>2 DEF Flat
<1>. QED BY <1>4, <1>5

(* One piece more adds its words at the end. *)
LEMMA FlatOneMore ==
  ASSUME NEW g, NEW j \in Nat, NEW k \in Nat, g[j + 1] \in Seq(Nat)
  PROVE  Flat(g, j, k + 1) = Flat(g, j, k) \o g[j + (k + 1)]
<1>1. PICK f : Unrolled(f, g, j, k + 1) /\ Flat(g, j, k + 1) = f[k + 1]
  BY FlatDef, k + 1 \in Nat \ {0}
<1>2. CASE k = 0
  <2>a. f[1] = g[j + 1]
    <3>1. 1 \in 1 .. k + 1
      BY <1>2
    <3>2. f[1] = IF 1 = 1 THEN g[j + 1] ELSE f[1 - 1] \o g[j + 1]
      BY <1>1, <3>1, Zenon DEF Unrolled
    <3>. QED BY <3>2
  <2>b. Flat(g, j, 0) = <<>>
    BY FlatNone
  <2>c. <<>> \o g[j + 1] = g[j + 1]
    OBVIOUS
  <2>d. Flat(g, j, 1) = f[1]
    BY <1>1, <1>2
  <2>. QED BY <1>2, <2>a, <2>b, <2>c, <2>d
<1>3. CASE k # 0
  <2>a. PICK h : Unrolled(h, g, j, k) /\ Flat(g, j, k) = h[k]
    BY <1>3, FlatDef
  <2> DEFINE P == {i \in Nat : i \in 1 .. k => f[i] = h[i]}
  <2>b. \A i \in Nat : i \in P
    <3>1. 0 \in P
      OBVIOUS
    <3>2. ASSUME NEW i \in Nat, i \in P
          PROVE  i + 1 \in P
      BY <3>2, <1>1, <2>a DEF Unrolled
    <3> HIDE DEF P
    <3>. QED BY <3>1, <3>2, AllNat
  <2>c. f[k] = h[k]
    BY <2>b, <1>3
  <2>d. f[k + 1] = f[k] \o g[j + (k + 1)]
    <3>1. k + 1 \in 1 .. k + 1 /\ k + 1 # 1 /\ (k + 1) - 1 = k
      BY <1>3
    <3>2. f[k + 1] = IF k + 1 = 1 THEN g[j + (k + 1)] ELSE f[(k + 1) - 1] \o g[j + (k + 1)]
      BY <1>1, <3>1 DEF Unrolled
    <3>. QED BY <3>1, <3>2
  <2>. QED BY <1>1, <2>a, <2>c, <2>d
<1>. QED BY <1>2, <1>3

(* Pieces of words flatten to words. *)
LEMMA FlatType ==
  ASSUME NEW n \in Nat, NEW g \in [1 .. n -> Seq(Nat)], NEW j \in Nat
  PROVE  \A k \in Nat : j + k <= n => Flat(g, j, k) \in Seq(Nat)
<1> DEFINE P == {k \in Nat : j + k <= n => Flat(g, j, k) \in Seq(Nat)}
<1>1. 0 \in P
  <2>a. Flat(g, j, 0) = <<>>
    BY FlatNone
  <2>b. Flat(g, j, 0) \in Seq(Nat)
    BY <2>a, EmptySeq
  <2>. QED BY <2>b
<1>2. ASSUME NEW k \in Nat, k \in P
      PROVE  k + 1 \in P
  <2> SUFFICES ASSUME j + (k + 1) <= n
               PROVE  Flat(g, j, k + 1) \in Seq(Nat)
    OBVIOUS
  <2>a. Flat(g, j, k) \in Seq(Nat) /\ g[j + (k + 1)] \in Seq(Nat) /\ g[j + 1] \in Seq(Nat)
    BY <1>2
  <2>b. Flat(g, j, k + 1) = Flat(g, j, k) \o g[j + (k + 1)]
    BY <2>a, FlatOneMore
  <2>. QED BY <2>a, <2>b, ConcatProperties, Zenon
<1>3. \A k \in Nat : k \in P
  <2> HIDE DEF P
  <2>. QED BY <1>1, <1>2, AllNat
<1>. QED BY <1>3

(* The first j + k pieces are the first j and then k more. *)
LEMMA FlatSplit ==
  ASSUME NEW n \in Nat, NEW g \in [1 .. n -> Seq(Nat)], NEW j \in Nat
  PROVE  \A k \in Nat : j + k <= n => Flat(g, 0, j + k) = Flat(g, 0, j) \o Flat(g, j, k)
<1> DEFINE P == {k \in Nat : j + k <= n => Flat(g, 0, j + k) = Flat(g, 0, j) \o Flat(g, j, k)}
<1>1. 0 \in P
  <2> SUFFICES ASSUME j <= n PROVE Flat(g, 0, j + 0) = Flat(g, 0, j) \o Flat(g, j, 0)
    OBVIOUS
  <2>a. Flat(g, 0, j) \in Seq(Nat)
    BY FlatType
  <2>. QED BY <2>a, FlatNone
<1>2. ASSUME NEW k \in Nat, k \in P
      PROVE  k + 1 \in P
  <2> SUFFICES ASSUME j + (k + 1) <= n
               PROVE  Flat(g, 0, j + (k + 1)) = Flat(g, 0, j) \o Flat(g, j, k + 1)
    OBVIOUS
  <2>a. g[j + (k + 1)] \in Seq(Nat) /\ g[j + 1] \in Seq(Nat) /\ g[0 + 1] \in Seq(Nat)
    OBVIOUS
  <2>b. Flat(g, 0, (j + k) + 1) = Flat(g, 0, j + k) \o g[0 + ((j + k) + 1)]
    BY <2>a, FlatOneMore, j + k \in Nat
  <2>c. Flat(g, j, k + 1) = Flat(g, j, k) \o g[j + (k + 1)]
    BY <2>a, FlatOneMore
  <2>d. Flat(g, 0, j + k) = Flat(g, 0, j) \o Flat(g, j, k)
    BY <1>2
  <2>e. Flat(g, 0, j) \in Seq(Nat) /\ Flat(g, j, k) \in Seq(Nat)
    BY FlatType
  <2>f. Flat(g, 0, j + (k + 1)) = (Flat(g, 0, j) \o Flat(g, j, k)) \o g[j + (k + 1)]
    <3>1. j + (k + 1) = (j + k) + 1 /\ 0 + ((j + k) + 1) = j + (k + 1)
      OBVIOUS
    <3>. QED BY <2>b, <2>d, <3>1
  <2>g. (Flat(g, 0, j) \o Flat(g, j, k)) \o g[j + (k + 1)] = Flat(g, 0, j) \o (Flat(g, j, k) \o g[j + (k + 1)])
    <3> DEFINE a == Flat(g, 0, j)
               b == Flat(g, j, k)
               c == g[j + (k + 1)]
    <3>1. a \in Seq(Nat) /\ b \in Seq(Nat) /\ c \in Seq(Nat)
      BY <2>a, <2>e
    <3> HIDE DEF a, b, c
    <3>2. (a \o b) \o c = a \o (b \o c)
      BY <3>1, Assoc, ZenonT(30)
    <3>. QED BY <3>2 DEF a, b, c
  <2>. QED BY <2>c, <2>f, <2>g
<1>3. \A k \in Nat : k \in P
  <2> HIDE DEF P
  <2>. QED BY <1>1, <1>2, AllNat
<1>. QED BY <1>3

(* The first piece, and then the others. *)
LEMMA FlatHead ==
  ASSUME NEW n \in Nat, NEW g \in [1 .. n -> Seq(Nat)], NEW j \in Nat
  PROVE  \A k \in Nat : j + (k + 1) <= n =>
             Flat(g, j, k + 1) = g[j + 1] \o Flat(g, j + 1, k)
<1> DEFINE Q(k) == j + (k + 1) <= n => Flat(g, j, k + 1) = g[j + 1] \o Flat(g, j + 1, k)
           P == {k \in Nat : Q(k)}
<1>1. Q(0)
  <2> SUFFICES ASSUME j + (0 + 1) <= n
               PROVE  Flat(g, j, 0 + 1) = g[j + 1] \o Flat(g, j + 1, 0)
    OBVIOUS
  <2>a. g[j + 1] \in Seq(Nat) /\ j + (0 + 1) = j + 1
    OBVIOUS
  <2>b. Flat(g, j, 0 + 1) = Flat(g, j, 0) \o g[j + (0 + 1)]
    BY <2>a, FlatOneMore, 0 \in Nat
  <2>c. Flat(g, j, 0) = <<>> /\ Flat(g, j + 1, 0) = <<>>
    BY FlatNone
  <2>d. \A w \in Seq(Nat) : <<>> \o w = w \o <<>>
    OBVIOUS
  <2>e. <<>> \o g[j + 1] = g[j + 1] \o <<>>
    BY <2>a, <2>d
  <2>. QED BY <2>a, <2>b, <2>c, <2>e
<1>2. ASSUME NEW k \in Nat, Q(k)
      PROVE  Q(k + 1)
  <2> SUFFICES ASSUME j + ((k + 1) + 1) <= n
               PROVE  Flat(g, j, (k + 1) + 1) = g[j + 1] \o Flat(g, j + 1, k + 1)
    OBVIOUS
  <2>a. /\ j + 1 \in 1 .. n /\ (j + 1) + 1 \in 1 .. n /\ j + ((k + 1) + 1) \in 1 .. n
        /\ (j + 1) + (k + 1) = j + ((k + 1) + 1) /\ j + (k + 1) <= n /\ k + 1 \in Nat /\ j + 1 \in Nat
        /\ (j + 1) + k <= n
    OBVIOUS
  <2> DEFINE a == g[j + 1]
             b == Flat(g, j + 1, k)
             c == g[j + ((k + 1) + 1)]
  <2>b. g[(j + 1) + 1] \in Seq(Nat) /\ a \in Seq(Nat) /\ c \in Seq(Nat) /\ b \in Seq(Nat)
    BY <2>a, FlatType
  <2>c. Flat(g, j, (k + 1) + 1) = Flat(g, j, k + 1) \o c
    BY <2>a, <2>b, FlatOneMore
  <2>d. Flat(g, j, k + 1) = a \o b
    BY <1>2, <2>a
  <2>e. Flat(g, j + 1, k + 1) = b \o g[(j + 1) + (k + 1)]
    BY <2>a, <2>b, FlatOneMore
  <2>f. g[(j + 1) + (k + 1)] = c
    BY <2>a
  <2> HIDE DEF a, b, c
  <2>g. (a \o b) \o c = a \o (b \o c)
    BY <2>b, Assoc, ZenonT(30)
  <2>. QED BY <2>c, <2>d, <2>e, <2>f, <2>g DEF a
<1> HIDE DEF Q
<1>3. \A k \in Nat : k \in P
  <2>a. 0 \in P /\ \A k \in Nat : k \in P => k + 1 \in P
    BY <1>1, <1>2
  <2> HIDE DEF P
  <2>. QED BY <2>a, AllNat
<1>4. \A k \in Nat : Q(k)
  BY <1>3
<1>. QED BY <1>4 DEF Q

(* Pieces that are the same flatten to the same words. *)
LEMMA FlatSame ==
  ASSUME NEW g, NEW h, NEW j, NEW k, \A i \in 1 .. k : g[j + i] = h[j + i]
  PROVE  Flat(g, j, k) = Flat(h, j, k)
  BY DEF Flat

(* A sequence of words that is cut in two. *)
LEMMA CutType ==
  ASSUME NEW s \in Seq(Nat), NEW n \in 0 .. Len(s)
  PROVE  /\ SubSeq(s, 1, n) \in Seq(Nat) /\ SubSeq(s, n + 1, Len(s)) \in Seq(Nat)
         /\ Len(SubSeq(s, 1, n)) = n /\ Len(SubSeq(s, n + 1, Len(s))) = Len(s) - n
         /\ \A i \in 1 .. n : SubSeq(s, 1, n)[i] = s[i]
         /\ \A i \in 1 .. Len(s) - n : SubSeq(s, n + 1, Len(s))[i] = s[n + i]
         /\ s = SubSeq(s, 1, n) \o SubSeq(s, n + 1, Len(s))
<1>1. n \in Nat /\ Len(s) \in Nat /\ n <= Len(s)
  OBVIOUS
<1>2. Len(SubSeq(s, 1, n)) = n /\ Len(SubSeq(s, n + 1, Len(s))) = Len(s) - n
  BY <1>1
<1>3. SubSeq(s, 1, n) \in Seq(Nat) /\ SubSeq(s, n + 1, Len(s)) \in Seq(Nat)
  BY <1>1, SubSeqProperties
<1>4. \A i \in 1 .. n : SubSeq(s, 1, n)[i] = s[i]
  BY <1>1
<1>5. \A i \in 1 .. Len(s) - n : SubSeq(s, n + 1, Len(s))[i] = s[n + i]
  <2> SUFFICES ASSUME NEW i \in 1 .. Len(s) - n PROVE SubSeq(s, n + 1, Len(s))[i] = s[n + i]
    OBVIOUS
  <2>a. (n + 1) + i - 1 = n + i
    BY <1>1
  <2>. QED BY <1>1, <2>a, SMTT(20)
<1> DEFINE a == SubSeq(s, 1, n)
           b == SubSeq(s, n + 1, Len(s))
<1> HIDE DEF a, b
<1>6. s = a \o b
  <2>a. /\ a \in Seq(Nat) /\ b \in Seq(Nat) /\ Len(a) = n /\ Len(b) = Len(s) - n
        /\ \A i \in 1 .. n : a[i] = s[i]
        /\ \A i \in 1 .. Len(s) - n : b[i] = s[n + i]
    BY <1>2, <1>3, <1>4, <1>5 DEF a, b
  <2>b. /\ a \o b \in Seq(Nat) /\ Len(a \o b) = Len(s)
        /\ \A i \in 1 .. Len(a) : (a \o b)[i] = a[i]
        /\ \A i \in 1 .. Len(b) : (a \o b)[Len(a) + i] = b[i]
    <3>1. /\ a \o b \in Seq(Nat) /\ Len(a \o b) = Len(a) + Len(b)
          /\ \A i \in 1 .. Len(a) : (a \o b)[i] = a[i]
          /\ \A i \in 1 .. Len(b) : (a \o b)[Len(a) + i] = b[i]
      BY <2>a, Joined
    <3>2. Len(a) + Len(b) = Len(s)
      BY <1>1, <2>a
    <3>. QED BY <3>1, <3>2
  <2>c. \A i \in 1 .. Len(s) : s[i] = (a \o b)[i]
    <3> SUFFICES ASSUME NEW i \in 1 .. Len(s) PROVE s[i] = (a \o b)[i]
      OBVIOUS
    <3>1. CASE i <= n
      <4>1. i \in 1 .. n
        BY <3>1, <1>1
      <4>. QED BY <4>1, <2>a, <2>b
    <3>2. CASE ~ (i <= n)
      <4> DEFINE d == i - n
      <4>1. d \in 1 .. Len(s) - n /\ i = n + d
        BY <3>2, <1>1
      <4> HIDE DEF d
      <4>. QED BY <4>1, <2>a, <2>b
    <3>. QED BY <3>1, <3>2
  <2>. QED BY <2>a, <2>b, <2>c, SeqEqual
<1>. QED BY <1>2, <1>3, <1>4, <1>5, <1>6 DEF a, b

(* A part of a sequence of words. *)
LEMMA SubSeqType ==
  ASSUME NEW s \in Seq(Nat), NEW m \in Nat \ {0}, NEW n \in Nat, n <= Len(s)
  PROVE  SubSeq(s, m, n) \in Seq(Nat)
  BY SubSeqProperties

(* What comes first in one joining of two comes first in the other. *)
LEMMA Looks ==
  ASSUME NEW a \in Seq(Nat), NEW b \in Seq(Nat), NEW c \in Seq(Nat), NEW d \in Seq(Nat),
         a \o b = c \o d
  PROVE  /\ Len(a) \in Nat /\ Len(c) \in Nat
         /\ \A i \in 1 .. Len(a) : i <= Len(c) => a[i] = c[i]
<1>1. Len(a) \in Nat /\ Len(c) \in Nat
  OBVIOUS
<1>2. (\A i \in 1 .. Len(a) : (a \o b)[i] = a[i]) /\ (\A i \in 1 .. Len(c) : (c \o d)[i] = c[i])
  BY Joined
<1>3. \A i \in 1 .. Len(a) : i <= Len(c) => i \in 1 .. Len(c)
  BY <1>1
<1>. QED BY <1>1, <1>2, <1>3

(* What follows the same words is the same. *)
LEMMA Cancel ==
  ASSUME NEW a \in Seq(Nat), NEW b \in Seq(Nat), NEW c \in Seq(Nat), a \o b = a \o c
  PROVE  b = c
<1>1. Len(a \o b) = Len(a) + Len(b) /\ Len(a \o c) = Len(a) + Len(c)
  BY Joined
<1>2. Len(b) = Len(c)
  BY <1>1
<1>3. (\A i \in 1 .. Len(b) : (a \o b)[Len(a) + i] = b[i]) /\ (\A i \in 1 .. Len(c) : (a \o c)[Len(a) + i] = c[i])
  BY Joined
<1>. QED BY <1>2, <1>3, SeqEqual

(* A sequence without the first n of it. *)
Without(s, n) == SubSeq(s, n + 1, Len(s))

(* Words taken from the front of the first of two that are joined: the rest is what follows. *)
LEMMA Drained ==
  ASSUME NEW a \in Seq(Nat), NEW b \in Seq(Nat), NEW c \in Seq(Nat), NEW d \in Seq(Nat),
         a \o b = c \o d, Len(c) <= Len(a)
  PROVE  /\ SubSeq(a, 1, Len(c)) = c
         /\ Without(a, Len(c)) \in Seq(Nat)
         /\ Without(a, Len(c)) \o b = d
<1> DEFINE n == Len(c)
           x == SubSeq(a, 1, n)
           y == SubSeq(a, n + 1, Len(a))
<1>1. n \in 0 .. Len(a)
  OBVIOUS
<1> HIDE DEF n
<1>2. /\ x \in Seq(Nat) /\ y \in Seq(Nat) /\ Len(x) = n /\ a = x \o y
      /\ \A i \in 1 .. n : x[i] = a[i]
  BY <1>1, CutType
<1> HIDE DEF x, y
<1>3. x = c
  <2>a. \A i \in 1 .. Len(a) : i <= Len(c) => a[i] = c[i]
    BY Looks
  <2>b. \A i \in 1 .. n : i \in 1 .. Len(a) /\ i <= Len(c)
    BY <1>1 DEF n
  <2>c. \A i \in 1 .. n : x[i] = c[i]
    BY <1>2, <2>a, <2>b
  <2>. QED BY <1>2, <2>c, SeqEqual DEF n
<1>4. (x \o y) \o b = x \o (y \o b)
  <2>a. x \in Seq(Nat) /\ y \in Seq(Nat) /\ b \in Seq(Nat)
    BY <1>2
  <2>. QED BY <2>a, Assoc, ZenonT(30)
<1>5. y \o b \in Seq(Nat)
  BY <1>2, Joined
<1>6. c \o (y \o b) = c \o d
  BY <1>2, <1>3, <1>4
<1>7. y \o b = d
  BY <1>5, <1>6, Cancel
<1>. QED BY <1>2, <1>3, <1>7 DEF n, x, y, Without

(* Words moved from the second to the first of two that are joined. *)
LEMMA Carried ==
  ASSUME NEW a \in Seq(Nat), NEW b \in Seq(Nat), NEW n \in 0 .. Len(b)
  PROVE  /\ a \o SubSeq(b, 1, n) \in Seq(Nat)
         /\ SubSeq(b, n + 1, Len(b)) \in Seq(Nat)
         /\ Len(a \o SubSeq(b, 1, n)) = Len(a) + n
         /\ Len(SubSeq(b, n + 1, Len(b))) = Len(b) - n
         /\ (a \o SubSeq(b, 1, n)) \o SubSeq(b, n + 1, Len(b)) = a \o b
<1> DEFINE x == SubSeq(b, 1, n)
           y == SubSeq(b, n + 1, Len(b))
<1>1. x \in Seq(Nat) /\ y \in Seq(Nat) /\ Len(x) = n /\ Len(y) = Len(b) - n /\ b = x \o y
  BY CutType
<1> HIDE DEF x, y
<1>2. a \o x \in Seq(Nat) /\ Len(a \o x) = Len(a) + Len(x)
  BY <1>1, Joined
<1>3. (a \o x) \o y = a \o (x \o y)
  BY <1>1, Assoc, ZenonT(30)
<1>. QED BY <1>1, <1>2, <1>3 DEF x, y

(* The maximum of a set of indices. *)

(* A set of numbers up to n + 1 that has n + 1 in it has it as its maximum. *)
LEMMA MaxTop ==
  ASSUME NEW n \in Nat, NEW s \in SUBSET (1 .. n + 1), n + 1 \in s
  PROVE  Max(s) = n + 1 /\ s \ {n + 1} \in SUBSET (1 .. n)
<1>1. \A y \in s : n + 1 >= y
  OBVIOUS
<1>2. Max(s) \in s /\ \A y \in s : Max(s) >= y
  <2> DEFINE Top(x) == \A y \in s : x >= y
  <2>a. \E x \in s : Top(x)
    BY <1>1
  <2>b. Max(s) = CHOOSE x \in s : Top(x)
    BY DEF Max
  <2> HIDE DEF Top
  <2>c. Max(s) \in s /\ Top(Max(s))
    BY <2>a, <2>b
  <2>. QED BY <2>c DEF Top
<1>3. Max(s) = n + 1
  <2>a. Max(s) \in 1 .. n + 1 /\ Max(s) >= n + 1
    BY <1>2
  <2> HIDE DEF Max
  <2>. QED BY <2>a
<1>4. s \ {n + 1} \in SUBSET (1 .. n)
  OBVIOUS
<1>. QED BY <1>3, <1>4

================================
