-------- MODULE ShellInputProofs --------
(***************************************************************************)
(* What holds of a shell's input for every script, every cutting of it     *)
(* into WRTEs and of these into pieces, and every size of a message, of a  *)
(* pipe and of what the stream holds.                                      *)
(*                                                                         *)
(* The argument: a function off maps every place in the stream where a     *)
(* message starts to the number of words of the script that lie before it, *)
(* so that the data of a message are the words that come next (PlaceInv).  *)
(* The handler takes these words one frame after the other (TodoInv), and  *)
(* what it gave the shell is what these frames mean (GivenInv).            *)
(***************************************************************************)
EXTENDS ShellInput, SequenceLemmas

--------------------------------
(* What a script means.  FoldLeft is a fold over sets of indices; here it is *)
(* shown to take the frames one by one.                                      *)

(* Taking, with the mode as a parameter, so that it stays the same from step to step. *)
TakingIn(m, before, f) ==
    CASE f.id = Stdin ->
            [before EXCEPT !.fed = @ \o f.data]
      [] f.id = WindowSizeChange /\ m.pty /\ Len(f.data) >= 2 ->
            [before EXCEPT !.winsize = f.data]
      [] OTHER -> before

(* What the shell has before the first frame. *)
Nothing == [fed |-> <<>>, winsize |-> <<>>]

(* Meant, likewise. *)
MeantIn(m, seq) == FoldLeft(LAMBDA b, f : TakingIn(m, b, f), Nothing, seq)

(* Meant of the module is MeantIn of the session's mode. *)
LEMMA MeantIsIn == ASSUME NEW seq PROVE Meant(seq) = MeantIn(mode, seq)
  BY DEF Meant, MeantIn, Taking, TakingIn, Nothing, FoldLeft, MapThenFoldSet

(* One step of the fold that FoldLeft is defined by, over sets of indices. *)
Step(m, seq, it, s) ==
    IF s = {} THEN Nothing ELSE TakingIn(m, it[s \ {Max(s)}], seq[Max(s)])

(* The function MapThenFoldSet chooses, for the sets of the first n indices. *)
IsFold(it, m, seq, n) == it = [s \in SUBSET (1 .. n) |-> Step(m, seq, it, s)]

(* What the fold chooses is there, for as many frames as you like. *)
LEMMA FoldExists ==
  ASSUME NEW m, NEW seq
  PROVE  \A n \in Nat : \E it : IsFold(it, m, seq, n)
<1> DEFINE P == {n \in Nat : \E it : IsFold(it, m, seq, n)}
<1>1. 0 \in P
  <2> DEFINE it == [s \in SUBSET (1 .. 0) |-> Nothing]
  <2>a. \A s \in SUBSET (1 .. 0) : s = {}
    OBVIOUS
  <2>b. it = [s \in SUBSET (1 .. 0) |-> Step(m, seq, it, s)]
    BY <2>a DEF Step
  <2>c. IsFold(it, m, seq, 0)
    BY <2>b DEF IsFold
  <2>. QED BY <2>c
<1>2. ASSUME NEW n \in Nat, NEW g, IsFold(g, m, seq, n)
      PROVE  \E it : IsFold(it, m, seq, n + 1)
  <2> DEFINE top(s) == TakingIn(m, g[s \ {n + 1}], seq[n + 1])
             it == [s \in SUBSET (1 .. n + 1) |-> IF n + 1 \in s THEN top(s) ELSE g[s]]
  <2>a. \A s \in SUBSET (1 .. n) : g[s] = Step(m, seq, g, s)
    BY <1>2, Zenon DEF IsFold
  <2>b. \A s \in SUBSET (1 .. n) : it[s] = g[s]
    OBVIOUS
  <2>c. ASSUME NEW s \in SUBSET (1 .. n + 1)
        PROVE  it[s] = Step(m, seq, it, s)
    <3>1. CASE n + 1 \in s
      <4>1. Max(s) = n + 1 /\ s \ {n + 1} \in SUBSET (1 .. n)
        BY <3>1, MaxTop
      <4>2. it[s] = top(s)
        BY <3>1
      <4>3. it[s \ {n + 1}] = g[s \ {n + 1}]
        BY <4>1, <2>b
      <4> HIDE DEF it
      <4>. QED BY <3>1, <4>1, <4>2, <4>3 DEF Step
    <3>2. CASE n + 1 \notin s
      <4>1. s \in SUBSET (1 .. n)
        BY <3>2
      <4>2. s # {} => s \ {Max(s)} \in SUBSET (1 .. n)
        BY <4>1
      <4>3. s # {} => it[s \ {Max(s)}] = g[s \ {Max(s)}]
        BY <4>2, <2>b
      <4>4. it[s] = Step(m, seq, g, s)
        BY <2>a, <2>b, <4>1
      <4> HIDE DEF it
      <4>. QED BY <4>3, <4>4 DEF Step
    <3>. QED BY <3>1, <3>2
  <2>d. it = [s \in SUBSET (1 .. n + 1) |-> Step(m, seq, it, s)]
    <3> DEFINE k == [s \in SUBSET (1 .. n + 1) |-> Step(m, seq, it, s)]
    <3>1. \A s \in SUBSET (1 .. n + 1) : it[s] = k[s]
      <4>1. \A s \in SUBSET (1 .. n + 1) : k[s] = Step(m, seq, it, s)
        <5> HIDE DEF it
        <5>. QED OBVIOUS
      <4> HIDE DEF it, k
      <4>. QED BY <2>c, <4>1
    <3>2. it = k
      BY <3>1
    <3>. QED BY <3>2
  <2>e. IsFold(it, m, seq, n + 1)
    <3> HIDE DEF it
    <3>. QED BY <2>d DEF IsFold
  <2>. QED BY <2>e
<1>3. \A n \in Nat : n \in P
  <2>a. ASSUME NEW n \in Nat, n \in P
        PROVE  n + 1 \in P
    <3>1. PICK g : IsFold(g, m, seq, n)
      BY <2>a
    <3>2. \E it : IsFold(it, m, seq, n + 1)
      BY <1>2, <3>1
    <3>. QED BY <3>2
  <2> HIDE DEF P
  <2>. QED BY <1>1, <2>a, AllNat
<1>. QED BY <1>3

(* And FoldLeft is that function at all the indices. *)
LEMMA MeantDef ==
  ASSUME NEW m, NEW n \in Nat, NEW seq, DOMAIN seq = 1 .. n
  PROVE  \E it : IsFold(it, m, seq, n) /\ MeantIn(m, seq) = it[1 .. n]
<1>1. PICK it : it = CHOOSE x : IsFold(x, m, seq, n)
  OBVIOUS
<1>2. IsFold(it, m, seq, n)
  BY <1>1, FoldExists
<1>3. MeantIn(m, seq) = it[1 .. n]
  BY <1>1 DEF MeantIn, FoldLeft, MapThenFoldSet, IsFold, Step
<1>. QED BY <1>2, <1>3

(* The fold takes the frames in their order, one after the other. *)
LEMMA FoldStep ==
  ASSUME NEW m, NEW seq, NEW n \in Nat, NEW it, IsFold(it, m, seq, n),
         NEW j \in 0 .. n - 1
  PROVE  it[1 .. j + 1] = TakingIn(m, it[1 .. j], seq[j + 1])
<1> DEFINE s == 1 .. j + 1
<1>1. Max(s) = j + 1
  BY MaxTop, j \in Nat, j + 1 \in s, s \in SUBSET s
<1>2. s # {} /\ s \ {j + 1} = 1 .. j
  OBVIOUS
<1>3. s \in SUBSET (1 .. n)
  OBVIOUS
<1>4. it[s] = Step(m, seq, it, s)
  <2> HIDE DEF s
  <2>. QED BY <1>3, Zenon DEF IsFold
<1> HIDE DEF s
<1>5. it[s] = TakingIn(m, it[1 .. j], seq[j + 1])
  BY <1>1, <1>2, <1>4 DEF Step
<1>. QED BY <1>5 DEF s

(* It starts with nothing. *)
LEMMA FoldNone ==
  ASSUME NEW m, NEW seq, NEW n \in Nat, NEW it, IsFold(it, m, seq, n)
  PROVE  it[1 .. 0] = Nothing
<1>1. 1 .. 0 = {} /\ {} \in SUBSET (1 .. n)
  OBVIOUS
<1>2. it[{}] = Step(m, seq, it, {})
  BY <1>1, Zenon DEF IsFold
<1>. QED BY <1>1, <1>2 DEF Step

(* No frames mean nothing. *)
LEMMA MeantNone ==
  ASSUME NEW m, NEW seq, DOMAIN seq = 1 .. 0
  PROVE  MeantIn(m, seq) = Nothing
<1>1. PICK it : IsFold(it, m, seq, 0) /\ MeantIn(m, seq) = it[1 .. 0]
  BY MeantDef, 0 \in Nat
<1>. QED BY <1>1, FoldNone, 0 \in Nat

(* What a longer script means is what the shorter one does and then its last frame. *)
LEMMA MeantOneMore ==
  ASSUME NEW m, NEW k \in Nat, NEW seq, NEW seq2,
         DOMAIN seq = 1 .. k, DOMAIN seq2 = 1 .. k + 1, \A i \in 1 .. k : seq2[i] = seq[i]
  PROVE  MeantIn(m, seq2) = TakingIn(m, MeantIn(m, seq), seq2[k + 1])
<1>1. PICK g : IsFold(g, m, seq, k) /\ MeantIn(m, seq) = g[1 .. k]
  BY MeantDef
<1>2. k + 1 \in Nat
  OBVIOUS
<1>3. PICK h : IsFold(h, m, seq2, k + 1) /\ MeantIn(m, seq2) = h[1 .. k + 1]
  BY <1>2, MeantDef
<1> DEFINE P == {j \in Nat : j <= k => h[1 .. j] = g[1 .. j]}
<1>4. 0 \in P
  <2>a. h[1 .. 0] = g[1 .. 0]
    BY <1>1, <1>2, <1>3, FoldNone
  <2>. QED BY <2>a
<1>5. ASSUME NEW j \in Nat, j \in P
      PROVE  j + 1 \in P
  <2> SUFFICES ASSUME j + 1 <= k
               PROVE  h[1 .. j + 1] = g[1 .. j + 1]
    OBVIOUS
  <2>a. h[1 .. j + 1] = TakingIn(m, h[1 .. j], seq2[j + 1])
    BY <1>2, <1>3, FoldStep, j \in 0 .. (k + 1) - 1
  <2>b. g[1 .. j + 1] = TakingIn(m, g[1 .. j], seq[j + 1])
    BY <1>1, FoldStep, j \in 0 .. k - 1
  <2>c. h[1 .. j] = g[1 .. j] /\ seq2[j + 1] = seq[j + 1]
    BY <1>5
  <2>. QED BY <2>a, <2>b, <2>c
<1>6. \A j \in Nat : j \in P
  <2> HIDE DEF P
  <2>. QED BY <1>4, <1>5, AllNat
<1>7. h[1 .. k] = g[1 .. k]
  BY <1>6
<1>8. h[1 .. k + 1] = TakingIn(m, h[1 .. k], seq2[k + 1])
  BY <1>2, <1>3, FoldStep, k \in 0 .. (k + 1) - 1
<1>. QED BY <1>1, <1>3, <1>7, <1>8

--------------------------------
(* The script on the wire. *)

(* Words, with the mode as a parameter. *)
WordIn(m, f) == IF m.v2 THEN <<f.id, Len(f.data)>> \o f.data ELSE f.data

(* What is known of a frame that a client sends. *)
TypedFrame(m, f) ==
    /\ f.id \in {Stdin, CloseStdin, WindowSizeChange}
    /\ f.data \in Seq(Nat)
    /\ f.id = WindowSizeChange /\ Len(f.data) >= 2 => Len(f.data) = 2
    /\ ~m.v2 => f.id = Stdin

(* And of all its frames. *)
TypedScript(m, s) ==
    /\ Len(s) \in Nat
    /\ \E S : s \in Seq(S)
    /\ \A i \in 1 .. Len(s) : TypedFrame(m, s[i])

(* The script on the wire, frame by frame. *)
Pieces(m, s) == [i \in 1 .. Len(s) |-> WordIn(m, s[i])]

(* The words of its first k frames; of all; and where the k-th frame ends. *)
First(m, s, k) == Flat(Pieces(m, s), 0, k)
Said(m, s) == First(m, s, Len(s))
Mark(m, s, k) == Len(First(m, s, k))

(* A frame on the wire: its id, its length, its payload; of v1 the payload alone. *)
LEMMA WordType ==
  ASSUME NEW m, NEW f, TypedFrame(m, f)
  PROVE  /\ WordIn(m, f) \in Seq(Nat)
         /\ Len(f.data) \in Nat
         /\ m.v2 => /\ Len(WordIn(m, f)) = 2 + Len(f.data)
                    /\ WordIn(m, f)[1] = f.id
                    /\ WordIn(m, f)[2] = Len(f.data)
                    /\ \A i \in 1 .. Len(f.data) : WordIn(m, f)[2 + i] = f.data[i]
<1>1. f.data \in Seq(Nat) /\ f.id \in Nat
  BY DEF TypedFrame, Stdin, CloseStdin, WindowSizeChange
<1>2. CASE ~m.v2
  BY <1>1, <1>2 DEF WordIn
<1>3. CASE m.v2
  <2> DEFINE h == <<f.id, Len(f.data)>>
  <2>a. Len(f.data) \in Nat
    BY <1>1
  <2>b. h \in Seq(Nat) /\ Len(h) = 2 /\ h[1] = f.id /\ h[2] = Len(f.data)
    BY <1>1, <2>a
  <2>c. WordIn(m, f) = h \o f.data
    BY <1>3 DEF WordIn
  <2> HIDE DEF h
  <2>d. /\ h \o f.data \in Seq(Nat)
        /\ Len(h \o f.data) = Len(h) + Len(f.data)
        /\ \A i \in 1 .. Len(h) : (h \o f.data)[i] = h[i]
        /\ \A i \in 1 .. Len(f.data) : (h \o f.data)[Len(h) + i] = f.data[i]
    BY <1>1, <2>b, Joined
  <2>e. 1 \in 1 .. Len(h) /\ 2 \in 1 .. Len(h)
    BY <2>b
  <2>. QED BY <2>a, <2>b, <2>c, <2>d, <2>e, Zenon
<1>. QED BY <1>2, <1>3

(* Frames are words on the wire. *)
LEMMA PiecesType ==
  ASSUME NEW m, NEW s, TypedScript(m, s)
  PROVE  /\ Len(s) \in Nat
         /\ Pieces(m, s) \in [1 .. Len(s) -> Seq(Nat)]
         /\ \A k \in 0 .. Len(s) : First(m, s, k) \in Seq(Nat) /\ Mark(m, s, k) \in Nat
<1>1. Len(s) \in Nat /\ Pieces(m, s) \in [1 .. Len(s) -> Seq(Nat)]
  BY WordType DEF TypedScript, Pieces
<1>2. \A k \in 0 .. Len(s) : First(m, s, k) \in Seq(Nat)
  <2> SUFFICES ASSUME NEW k \in 0 .. Len(s) PROVE First(m, s, k) \in Seq(Nat)
    OBVIOUS
  <2>a. 0 + k <= Len(s) /\ k \in Nat /\ 0 \in Nat
    BY <1>1
  <2>. QED BY <1>1, <2>a, FlatType DEF First
<1>. QED BY <1>1, <1>2 DEF Mark

(* The words of one frame more. *)
LEMMA FirstGrows ==
  ASSUME NEW m, NEW s, TypedScript(m, s), NEW k \in 0 .. Len(s) - 1
  PROVE  First(m, s, k + 1) = First(m, s, k) \o WordIn(m, s[k + 1])
<1>1. Len(s) \in Nat /\ Pieces(m, s) \in [1 .. Len(s) -> Seq(Nat)]
  BY PiecesType
<1>2. k \in Nat /\ 0 \in Nat /\ 0 + 1 = 1 /\ 1 \in 1 .. Len(s) /\ 0 + (k + 1) = k + 1 /\ k + 1 \in 1 .. Len(s)
  BY <1>1
<1>3. Pieces(m, s)[0 + 1] \in Seq(Nat) /\ Pieces(m, s)[k + 1] = WordIn(m, s[k + 1])
  BY <1>1, <1>2 DEF Pieces
<1>. QED BY <1>2, <1>3, FlatOneMore DEF First

(* What is said is the first k frames and then the others. *)
LEMMA FirstOfAll ==
  ASSUME NEW m, NEW s, TypedScript(m, s), NEW k \in 0 .. Len(s)
  PROVE  /\ Flat(Pieces(m, s), k, Len(s) - k) \in Seq(Nat)
         /\ Said(m, s) = First(m, s, k) \o Flat(Pieces(m, s), k, Len(s) - k)
<1>1. Len(s) \in Nat /\ Pieces(m, s) \in [1 .. Len(s) -> Seq(Nat)]
  BY PiecesType
<1> DEFINE j == Len(s) - k
<1>2. k \in Nat /\ j \in Nat /\ k + j = Len(s) /\ k + j <= Len(s)
  BY <1>1
<1> HIDE DEF j
<1>3. Flat(Pieces(m, s), 0, k + j) = Flat(Pieces(m, s), 0, k) \o Flat(Pieces(m, s), k, j)
  BY <1>1, <1>2, FlatSplit
<1>4. Flat(Pieces(m, s), k, j) \in Seq(Nat)
  BY <1>1, <1>2, FlatType
<1>. QED BY <1>2, <1>3, <1>4 DEF Said, First, j

(* Where frames end, from the first word to the last. *)
LEMMA Marks ==
  ASSUME NEW m, NEW s, TypedScript(m, s)
  PROVE  /\ Said(m, s) \in Seq(Nat)
         /\ Mark(m, s, 0) = 0 /\ First(m, s, 0) = <<>>
         /\ Mark(m, s, Len(s)) = Len(Said(m, s))
         /\ \A k \in 0 .. Len(s) : Mark(m, s, k) <= Len(Said(m, s))
<1>0. Len(s) \in Nat
  BY PiecesType
<1>1. Said(m, s) \in Seq(Nat)
  BY <1>0, PiecesType DEF Said
<1>2. Mark(m, s, 0) = 0 /\ First(m, s, 0) = <<>>
  BY FlatNone DEF First, Mark
<1>3. \A k \in 0 .. Len(s) : Mark(m, s, k) <= Len(Said(m, s))
  <2> SUFFICES ASSUME NEW k \in 0 .. Len(s) PROVE Mark(m, s, k) <= Len(Said(m, s))
    OBVIOUS
  <2>. QED BY FirstOfAll, PiecesType DEF Mark
<1>. QED BY <1>1, <1>2, <1>3 DEF Mark, Said

(* What is said behind k frames. *)
LEMMA NextFrame ==
  ASSUME NEW m, NEW s, TypedScript(m, s), NEW k \in 0 .. Len(s) - 1
  PROVE  LET word == WordIn(m, s[k + 1]) IN
         /\ word \in Seq(Nat)
         /\ Mark(m, s, k + 1) = Mark(m, s, k) + Len(word)
         /\ \A i \in 1 .. Len(word) : Said(m, s)[Mark(m, s, k) + i] = word[i]
<1> DEFINE word == WordIn(m, s[k + 1])
<1>1. k \in 0 .. Len(s) /\ k + 1 \in 0 .. Len(s) /\ k + 1 \in 1 .. Len(s)
  BY PiecesType
<1>2. word \in Seq(Nat)
  BY <1>1, WordType DEF TypedScript
<1>3. First(m, s, k) \in Seq(Nat) /\ First(m, s, k + 1) \in Seq(Nat)
  BY <1>1, PiecesType
<1>4. First(m, s, k + 1) = First(m, s, k) \o word
  BY FirstGrows
<1>5. PICK rest \in Seq(Nat) : Said(m, s) = First(m, s, k + 1) \o rest
  BY <1>1, FirstOfAll
<1> HIDE DEF word
<1>6. Mark(m, s, k + 1) = Mark(m, s, k) + Len(word)
  BY <1>2, <1>3, <1>4 DEF Mark
<1>7. \A i \in 1 .. Len(word) : Said(m, s)[Mark(m, s, k) + i] = word[i]
  <2> SUFFICES ASSUME NEW i \in 1 .. Len(word) PROVE Said(m, s)[Mark(m, s, k) + i] = word[i]
    OBVIOUS
  <2>a. Said(m, s)[Mark(m, s, k) + i] = First(m, s, k + 1)[Mark(m, s, k) + i]
    <3>0. Mark(m, s, k) \in Nat /\ Len(word) \in Nat
      BY <1>1, <1>2, PiecesType
    <3>1. Mark(m, s, k) + i \in 1 .. Len(First(m, s, k + 1))
      BY <1>6, <3>0 DEF Mark
    <3>. QED BY <1>3, <1>5, <3>1, Joined
  <2>b. First(m, s, k + 1)[Mark(m, s, k) + i] = word[i]
    BY <1>2, <1>3, <1>4 DEF Mark
  <2>. QED BY <2>a, <2>b
<1>. QED BY <1>2, <1>6, <1>7 DEF word

(* A frame that ends before another one precedes it. *)
LEMMA MarksGrow ==
  ASSUME NEW m, NEW s, TypedScript(m, s), NEW j \in 0 .. Len(s), NEW k \in 0 .. Len(s),
         Mark(m, s, j) < Mark(m, s, k)
  PROVE  j < k
<1>0. Len(s) \in Nat
  BY PiecesType
<1> DEFINE P == {d \in Nat : \A i \in 0 .. Len(s) : i + d <= Len(s) => Mark(m, s, i) <= Mark(m, s, i + d)}
<1>1. 0 \in P
  BY <1>0, PiecesType
<1>2. ASSUME NEW d \in Nat, d \in P
      PROVE  d + 1 \in P
  <2> SUFFICES ASSUME NEW i \in 0 .. Len(s), i + (d + 1) <= Len(s)
               PROVE  Mark(m, s, i) <= Mark(m, s, i + (d + 1))
    OBVIOUS
  <2>a. i + d \in 0 .. Len(s) - 1 /\ (i + d) + 1 = i + (d + 1) /\ i + (d + 1) \in 0 .. Len(s)
    BY <1>0
  <2>b. Mark(m, s, i) <= Mark(m, s, i + d)
    BY <1>2, <2>a
  <2>c. Mark(m, s, i + d) <= Mark(m, s, (i + d) + 1)
    <3> DEFINE k2 == i + d
    <3>1. k2 \in 0 .. Len(s) - 1 /\ k2 + 1 \in 0 .. Len(s) /\ k2 \in 0 .. Len(s)
      BY <1>0, <2>a
    <3> HIDE DEF k2
    <3>2. WordIn(m, s[k2 + 1]) \in Seq(Nat) /\ Mark(m, s, k2 + 1) = Mark(m, s, k2) + Len(WordIn(m, s[k2 + 1]))
      BY <3>1, NextFrame
    <3>3. Mark(m, s, k2) \in Nat
      BY <3>1, PiecesType
    <3>4. Mark(m, s, k2) <= Mark(m, s, k2 + 1)
      <4>1. Len(WordIn(m, s[k2 + 1])) \in Nat
        BY <3>2
      <4>. QED BY <3>2, <3>3, <4>1
    <3>. QED BY <3>4 DEF k2
  <2>d. Mark(m, s, i) \in Nat /\ Mark(m, s, i + d) \in Nat /\ Mark(m, s, (i + d) + 1) \in Nat
    <3>1. i + d \in 0 .. Len(s) /\ (i + d) + 1 \in 0 .. Len(s)
      BY <1>0, <2>a
    <3>. QED BY <3>1, PiecesType
  <2>. QED BY <2>a, <2>b, <2>c, <2>d
<1>3. \A d \in Nat : d \in P
  <2> HIDE DEF P
  <2>. QED BY <1>1, <1>2, AllNat
<1>4. ASSUME k <= j PROVE Mark(m, s, k) <= Mark(m, s, j)
  <2>a. j - k \in Nat /\ k + (j - k) = j
    BY <1>4, <1>0
  <2>b. \A i \in 0 .. Len(s) : i + (j - k) <= Len(s) => Mark(m, s, i) <= Mark(m, s, i + (j - k))
    BY <1>3, <2>a
  <2>. QED BY <2>a, <2>b, <1>0
<1>. QED BY <1>0, <1>4, PiecesType

(* WordsOf of the module, for a part of the script. *)
LEMMA WordsIsFlat ==
  ASSUME NEW s, TypedScript(mode, s), NEW j \in Nat, NEW k \in Nat, j + k <= Len(s)
  PROVE  WordsOf(SubSeq(s, j + 1, j + k)) = Flat(Pieces(mode, s), j, k)
<1> DEFINE t == SubSeq(s, j + 1, j + k)
<1>1. Len(t) = k /\ \A i \in 1 .. k : t[i] = s[j + i]
  <2>a. PICK S : s \in Seq(S)
    BY DEF TypedScript
  <2>b. Len(s) \in Nat
    BY <2>a
  <2>c. Len(t) = k
    BY <2>a, <2>b
  <2>d. ASSUME NEW i \in 1 .. k PROVE t[i] = s[j + i]
    <3>1. (j + 1) + i - 1 = j + i
      OBVIOUS
    <3>. QED BY <2>a, <2>b, <3>1
  <2>. QED BY <2>c, <2>d
<1>2. \A i \in 1 .. k : j + i \in 1 .. Len(s)
  BY DEF TypedScript
<1> HIDE DEF t
<1>3. [i \in 1 .. Len(t) |-> Words(t[i])] = [i \in 1 .. k |-> Pieces(mode, s)[j + i]]
  BY <1>1, <1>2 DEF Words, Pieces, WordIn
<1>. QED BY <1>3 DEF WordsOf, Flat, t

(* WordsOf of the module, for what comes up to a frame and for what follows it. *)
LEMMA WordsOfFirst ==
  ASSUME NEW s, TypedScript(mode, s), NEW k \in 0 .. Len(s)
  PROVE  /\ WordsOf(SubSeq(s, 1, k)) = First(mode, s, k)
         /\ Len(WordsOf(SubSeq(s, k + 1, Len(s)))) = Len(Said(mode, s)) - Mark(mode, s, k)
         /\ WordsOf(s) = Said(mode, s)
<1>0. Len(s) \in Nat
  BY PiecesType
<1>1. WordsOf(SubSeq(s, 1, k)) = First(mode, s, k)
  <2>a. WordsOf(SubSeq(s, 0 + 1, 0 + k)) = Flat(Pieces(mode, s), 0, k)
    BY <1>0, WordsIsFlat
  <2>. QED BY <1>0, <2>a DEF First
<1>2. Len(WordsOf(SubSeq(s, k + 1, Len(s)))) = Len(Said(mode, s)) - Mark(mode, s, k)
  <2>a. Len(s) - k \in Nat /\ k + (Len(s) - k) = Len(s)
    BY <1>0
  <2>b. WordsOf(SubSeq(s, k + 1, k + (Len(s) - k))) = Flat(Pieces(mode, s), k, Len(s) - k)
    BY <1>0, <2>a, WordsIsFlat
  <2>c. First(mode, s, k) \in Seq(Nat)
    BY PiecesType
  <2>d. /\ Flat(Pieces(mode, s), k, Len(s) - k) \in Seq(Nat)
        /\ Said(mode, s) = First(mode, s, k) \o Flat(Pieces(mode, s), k, Len(s) - k)
    BY FirstOfAll
  <2> DEFINE f == Flat(Pieces(mode, s), k, Len(s) - k)
  <2>e. WordsOf(SubSeq(s, k + 1, Len(s))) = f
    BY <2>a, <2>b
  <2> HIDE DEF f
  <2>f. Len(Said(mode, s)) = Len(First(mode, s, k)) + Len(f)
    BY <2>c, <2>d, Joined DEF f
  <2>g. Len(f) \in Nat
    BY <2>d DEF f
  <2>h. Len(First(mode, s, k)) \in Nat
    BY <2>c
  <2>. QED BY <2>e, <2>f, <2>g, <2>h DEF Mark
<1>3. WordsOf(s) = Said(mode, s)
  <2>a. [i \in 1 .. Len(s) |-> Words(s[i])] = [i \in 1 .. Len(s) |-> Pieces(mode, s)[0 + i]]
    BY <1>0 DEF Words, Pieces, WordIn
  <2>. QED BY <2>a DEF WordsOf, Said, First, Flat
<1>. QED BY <1>1, <1>2, <1>3

--------------------------------
(* What the first frames of a script mean. *)

(* What the first k frames mean. *)
MeantFirst(m, s, k) == MeantIn(m, SubSeq(s, 1, k))

(* The values this has. *)
Meanings == [fed : Seq(Nat), winsize : Seq(Nat)]

(* Of no frames the shell gets nothing. *)
LEMMA MeantFirstNone ==
  ASSUME NEW m, NEW s PROVE MeantFirst(m, s, 0) = Nothing
<1>1. DOMAIN SubSeq(s, 1, 0) = 1 .. 0
  OBVIOUS
<1>. QED BY <1>1, MeantNone DEF MeantFirst

(* Of one frame more it gets what this frame adds. *)
LEMMA MeantFirstGrows ==
  ASSUME NEW m, NEW s, TypedScript(m, s), NEW k \in 0 .. Len(s) - 1
  PROVE  MeantFirst(m, s, k + 1) = TakingIn(m, MeantFirst(m, s, k), s[k + 1])
<1> DEFINE a == SubSeq(s, 1, k)
           b == SubSeq(s, 1, k + 1)
<1>0. Len(s) \in Nat /\ k \in Nat
  BY PiecesType
<1>1. DOMAIN a = 1 .. k /\ DOMAIN b = 1 .. k + 1
  BY <1>0
<1>2. \A i \in 1 .. k : b[i] = a[i]
  BY <1>0
<1>3. b[k + 1] = s[k + 1]
  BY <1>0
<1> HIDE DEF a, b
<1>4. MeantIn(m, b) = TakingIn(m, MeantIn(m, a), b[k + 1])
  BY <1>0, <1>1, <1>2, MeantOneMore
<1>. QED BY <1>3, <1>4 DEF MeantFirst, a, b

(* A frame leaves words given, and a window size. *)
LEMMA TakingType ==
  ASSUME NEW m, NEW f, TypedFrame(m, f), NEW before \in Meanings
  PROVE  TakingIn(m, before, f) \in Meanings
<1>1. before.fed \in Seq(Nat) /\ before.winsize \in Seq(Nat) /\ f.data \in Seq(Nat)
  BY DEF TypedFrame, Meanings
<1>2. before.fed \o f.data \in Seq(Nat)
  BY <1>1, Joined
<1>. QED BY <1>1, <1>2 DEF TakingIn, Meanings

(* So do all frames of a script. *)
LEMMA MeantType ==
  ASSUME NEW m, NEW s, TypedScript(m, s)
  PROVE  \A k \in 0 .. Len(s) : MeantFirst(m, s, k) \in Meanings
<1> DEFINE P == {k \in Nat : k <= Len(s) => MeantFirst(m, s, k) \in Meanings}
<1>0. Len(s) \in Nat
  BY PiecesType
<1>1. 0 \in P
  <2>a. Nothing \in Meanings
    BY EmptySeq DEF Nothing, Meanings
  <2>b. MeantFirst(m, s, 0) \in Meanings
    BY <2>a, MeantFirstNone
  <2>. QED BY <2>b
<1>2. ASSUME NEW k \in Nat, k \in P
      PROVE  k + 1 \in P
  <2> SUFFICES ASSUME k + 1 <= Len(s)
               PROVE  MeantFirst(m, s, k + 1) \in Meanings
    OBVIOUS
  <2>a. k \in 0 .. Len(s) - 1 /\ k + 1 \in 1 .. Len(s) /\ MeantFirst(m, s, k) \in Meanings
    BY <1>0, <1>2
  <2>b. TypedFrame(m, s[k + 1])
    BY <2>a DEF TypedScript
  <2>c. TakingIn(m, MeantFirst(m, s, k), s[k + 1]) \in Meanings
    BY <2>a, <2>b, TakingType
  <2>. QED BY <2>a, <2>c, MeantFirstGrows
<1>3. \A k \in Nat : k \in P
  <2> HIDE DEF P
  <2>. QED BY <1>1, <1>2, AllNat
<1>. QED BY <1>0, <1>3

--------------------------------
(* Words with some left out. *)

(* a is found in b, in order: a is b with some words left out. *)
Embeds(a, b) ==
    \E place \in [1 .. Len(a) -> 1 .. Len(b)] :
        /\ \A i \in 1 .. Len(a) : a[i] = b[place[i]]
        /\ \A i \in 2 .. Len(a) : place[i - 1] < place[i]

(* Nothing is found anywhere. *)
LEMMA EmbedsNone ==
  ASSUME NEW b \in Seq(Nat) PROVE Embeds(<<>>, b)
<1>1. [i \in 1 .. Len(<<>>) |-> 1] \in [1 .. Len(<<>>) -> 1 .. Len(b)]
  OBVIOUS
<1>2. 1 .. Len(<<>>) = {} /\ 2 .. Len(<<>>) = {}
  OBVIOUS
<1>. QED BY <1>1, <1>2 DEF Embeds

(* What begins something that is found in order is found too. *)
LEMMA EmbedsPart ==
  ASSUME NEW a \in Seq(Nat), NEW b \in Seq(Nat), NEW c \in Seq(Nat), Embeds(a \o c, b)
  PROVE  Embeds(a, b)
<1>1. PICK f \in [1 .. Len(a \o c) -> 1 .. Len(b)] :
            /\ \A i \in 1 .. Len(a \o c) : (a \o c)[i] = b[f[i]]
            /\ \A i \in 2 .. Len(a \o c) : f[i - 1] < f[i]
  BY DEF Embeds
<1>2. Len(a \o c) = Len(a) + Len(c) /\ \A i \in 1 .. Len(a) : (a \o c)[i] = a[i]
  BY Joined
<1> DEFINE g == [i \in 1 .. Len(a) |-> f[i]]
<1>3. Len(a) \in Nat /\ Len(c) \in Nat
  OBVIOUS
<1>4. g \in [1 .. Len(a) -> 1 .. Len(b)]
  BY <1>1, <1>2, <1>3
<1>5. \A i \in 1 .. Len(a) : a[i] = b[g[i]]
  BY <1>1, <1>2, <1>3
<1>6. \A i \in 2 .. Len(a) : g[i - 1] < g[i]
  <2> SUFFICES ASSUME NEW i \in 2 .. Len(a) PROVE g[i - 1] < g[i]
    OBVIOUS
  <2>a. i - 1 \in 1 .. Len(a) /\ i \in 1 .. Len(a) /\ i \in 2 .. Len(a \o c)
    BY <1>2, <1>3
  <2>b. g[i - 1] = f[i - 1] /\ g[i] = f[i]
    BY <2>a
  <2>. QED BY <1>1, <2>a, <2>b
<1> HIDE DEF g
<1>. QED BY <1>4, <1>5, <1>6 DEF Embeds

(* It is found in anything longer. *)
LEMMA EmbedsInMore ==
  ASSUME NEW a \in Seq(Nat), NEW b \in Seq(Nat), NEW c \in Seq(Nat), Embeds(a, b)
  PROVE  Embeds(a, b \o c)
<1>1. PICK f \in [1 .. Len(a) -> 1 .. Len(b)] :
            /\ \A i \in 1 .. Len(a) : a[i] = b[f[i]]
            /\ \A i \in 2 .. Len(a) : f[i - 1] < f[i]
  BY DEF Embeds
<1>2. Len(b \o c) = Len(b) + Len(c) /\ \A i \in 1 .. Len(b) : (b \o c)[i] = b[i]
  BY Joined
<1>3. f \in [1 .. Len(a) -> 1 .. Len(b \o c)]
  BY <1>2
<1>4. \A i \in 1 .. Len(a) : a[i] = (b \o c)[f[i]]
  BY <1>1, <1>2
<1>. QED BY <1>1, <1>3, <1>4 DEF Embeds

(* And it may grow when the other does, by the same words. *)
LEMMA EmbedsBoth ==
  ASSUME NEW a \in Seq(Nat), NEW b \in Seq(Nat), NEW c \in Seq(Nat), Embeds(a, b)
  PROVE  Embeds(a \o c, b \o c)
<1>1. PICK f \in [1 .. Len(a) -> 1 .. Len(b)] :
            /\ \A i \in 1 .. Len(a) : a[i] = b[f[i]]
            /\ \A i \in 2 .. Len(a) : f[i - 1] < f[i]
  BY DEF Embeds
<1>2. /\ Len(b \o c) = Len(b) + Len(c)
      /\ \A i \in 1 .. Len(b) : (b \o c)[i] = b[i]
      /\ \A i \in 1 .. Len(c) : (b \o c)[Len(b) + i] = c[i]
  BY Joined
<1>3. /\ Len(a \o c) = Len(a) + Len(c)
      /\ \A i \in 1 .. Len(a) : (a \o c)[i] = a[i]
      /\ \A i \in 1 .. Len(c) : (a \o c)[Len(a) + i] = c[i]
  BY Joined
<1>4. Len(a) \in Nat /\ Len(b) \in Nat /\ Len(c) \in Nat
  OBVIOUS
<1> DEFINE ac == a \o c
           bc == b \o c
           g == [i \in 1 .. Len(a) + Len(c) |-> IF i <= Len(a) THEN f[i] ELSE Len(b) + (i - Len(a))]
<1> HIDE DEF ac, bc
<1>5. g \in [1 .. Len(a) + Len(c) -> 1 .. Len(b) + Len(c)]
  <2> SUFFICES ASSUME NEW i \in 1 .. Len(a) + Len(c)
               PROVE  (IF i <= Len(a) THEN f[i] ELSE Len(b) + (i - Len(a))) \in 1 .. Len(b) + Len(c)
    OBVIOUS
  <2>a. CASE i <= Len(a)
    <3>0. i \in 1 .. Len(a)
      BY <2>a, <1>4
    <3>1. f[i] \in 1 .. Len(b)
      BY <3>0, <1>1
    <3>. QED BY <2>a, <3>1, <1>4
  <2>b. CASE ~ (i <= Len(a))
    BY <2>b, <1>4
  <2>. QED BY <2>a, <2>b
<1>6. \A i \in 1 .. Len(a) + Len(c) : ac[i] = bc[g[i]]
  <2> SUFFICES ASSUME NEW i \in 1 .. Len(a) + Len(c) PROVE ac[i] = bc[g[i]]
    OBVIOUS
  <2>a. CASE i <= Len(a)
    <3>0. i \in 1 .. Len(a)
      BY <2>a, <1>4
    <3>1. i \in 1 .. Len(a) /\ f[i] \in 1 .. Len(b) /\ g[i] = f[i]
      BY <2>a, <3>0, <1>1
    <3>. QED BY <3>1, <1>1, <1>2, <1>3 DEF ac, bc
  <2>b. CASE ~ (i <= Len(a))
    <3> DEFINE d == i - Len(a)
    <3>1. d \in 1 .. Len(c) /\ i = Len(a) + d /\ g[i] = Len(b) + d
      BY <2>b, <1>4
    <3> HIDE DEF d, g
    <3>. QED BY <3>1, <1>2, <1>3 DEF ac, bc
  <2>. QED BY <2>a, <2>b
<1>7. \A i \in 2 .. Len(a) + Len(c) : g[i - 1] < g[i]
  <2> SUFFICES ASSUME NEW i \in 2 .. Len(a) + Len(c) PROVE g[i - 1] < g[i]
    OBVIOUS
  <2>a. i \in 1 .. Len(a) + Len(c) /\ i - 1 \in 1 .. Len(a) + Len(c)
    BY <1>4
  <2>b. g[i] = (IF i <= Len(a) THEN f[i] ELSE Len(b) + (i - Len(a)))
    BY <2>a
  <2>c. g[i - 1] = (IF i - 1 <= Len(a) THEN f[i - 1] ELSE Len(b) + ((i - 1) - Len(a)))
    BY <2>a
  <2>d. CASE i <= Len(a)
    <3>1. i \in 2 .. Len(a) /\ i - 1 <= Len(a)
      BY <2>d, <1>4
    <3>2. f[i - 1] < f[i]
      BY <1>1, <3>1
    <3>. QED BY <2>b, <2>c, <2>d, <3>1, <3>2
  <2>e. CASE i = Len(a) + 1
    <3>1. i - 1 \in 1 .. Len(a) /\ i - 1 <= Len(a) /\ ~(i <= Len(a)) /\ i - Len(a) = 1
      BY <2>a, <2>e, <1>4
    <3>2. f[i - 1] \in 1 .. Len(b)
      BY <3>1, <1>1
    <3>3. g[i] = Len(b) + 1 /\ g[i - 1] = f[i - 1]
      BY <2>b, <2>c, <3>1
    <3>. QED BY <3>2, <3>3, <1>4
  <2>f. CASE i > Len(a) + 1
    BY <2>b, <2>c, <2>f, <1>4
  <2>. QED BY <2>d, <2>e, <2>f, <1>4
<1> HIDE DEF g
<1>8. Len(ac) = Len(a) + Len(c) /\ Len(bc) = Len(b) + Len(c)
  BY <1>2, <1>3 DEF ac, bc
<1>9. Embeds(ac, bc)
  BY <1>5, <1>6, <1>7, <1>8 DEF Embeds
<1>. QED BY <1>9 DEF ac, bc

--------------------------------
(* Where the messages start. *)

(* A header at p that parse_header accepts, as far as it has arrived. *)
Valid(w, p) == p + 1 <= Len(w) /\ w[p] = HEADER /\ w[p + 1] <= MaxPayload

(* off says for every place in w where a message starts how many words of what   *)
(* is said lie before it.  What starts there is a header; its data are the words *)
(* that follow in what is said; behind these the next message starts.  Behind a  *)
(* header that is not valid nothing is known, as nothing is read there.          *)
InPlace(off, w, said) ==
    /\ 1 \in DOMAIN off
    /\ DOMAIN off \subseteq Nat \ {0}
    /\ \A p \in DOMAIN off :
          /\ off[p] \in 0 .. Len(said)
          /\ p <= Len(w) => w[p] \in {HEADER, GARBLED}
          /\ Valid(w, p) => /\ p + 2 + w[p + 1] \in DOMAIN off
                            /\ off[p + 2 + w[p + 1]] = off[p] + w[p + 1]
                            /\ \A j \in 1 .. w[p + 1] :
                                  p + 1 + j <= Len(w) => w[p + 1 + j] = said[off[p] + j]

(* The end of the stream is where the next message starts. *)
Ends(off, n, carried) ==
    /\ DOMAIN off \subseteq 1 .. n + 1
    /\ n \notin DOMAIN off
    /\ n + 1 \in DOMAIN off
    /\ off[n + 1] = carried

(* b begins with a. *)
Begins(a, b) == Len(a) <= Len(b) /\ \A i \in 1 .. Len(a) : a[i] = b[i]

(* As one sequence does with another that it is joined to. *)
LEMMA BeginsJoined ==
  ASSUME NEW a \in Seq(Nat), NEW b \in Seq(Nat)
  PROVE  Begins(a, a \o b)
<1>1. /\ Len(a \o b) = Len(a) + Len(b)
      /\ \A i \in 1 .. Len(a) : (a \o b)[i] = a[i]
  BY Joined
<1>2. Len(a) \in Nat /\ Len(b) \in Nat
  OBVIOUS
<1>. QED BY <1>1, <1>2 DEF Begins

(* The places still fit when the words end earlier. *)
LEMMA InPlaceCut ==
  ASSUME NEW off, NEW w \in Seq(Nat), NEW w2 \in Seq(Nat), NEW said, InPlace(off, w, said),
         Begins(w2, w)
  PROVE  InPlace(off, w2, said)
<1> SUFFICES ASSUME NEW p \in DOMAIN off
    PROVE  /\ p <= Len(w2) => w2[p] \in {HEADER, GARBLED}
           /\ Valid(w2, p) => /\ p + 2 + w2[p + 1] \in DOMAIN off
                              /\ off[p + 2 + w2[p + 1]] = off[p] + w2[p + 1]
                              /\ \A j \in 1 .. w2[p + 1] :
                                    p + 1 + j <= Len(w2) => w2[p + 1 + j] = said[off[p] + j]
  BY DEF InPlace
<1>1. p \in Nat \ {0} /\ Len(w) \in Nat /\ Len(w2) \in Nat
  BY DEF InPlace
<1>2. p <= Len(w2) => w2[p] \in {HEADER, GARBLED}
  <2> SUFFICES ASSUME p <= Len(w2) PROVE w2[p] \in {HEADER, GARBLED}
    OBVIOUS
  <2>a. p <= Len(w) => w[p] \in {HEADER, GARBLED}
    BY DEF InPlace
  <2>b. p <= Len(w) /\ w2[p] = w[p]
    BY <1>1 DEF Begins
  <2>. QED BY <2>a, <2>b
<1>3. ASSUME Valid(w2, p)
      PROVE  /\ p + 2 + w2[p + 1] \in DOMAIN off
             /\ off[p + 2 + w2[p + 1]] = off[p] + w2[p + 1]
             /\ \A j \in 1 .. w2[p + 1] :
                   p + 1 + j <= Len(w2) => w2[p + 1 + j] = said[off[p] + j]
  <2>a. w2[p] = w[p] /\ w2[p + 1] = w[p + 1] /\ w[p + 1] \in Nat
    <3>1. p \in 1 .. Len(w2) /\ p + 1 \in 1 .. Len(w2) /\ p + 1 \in 1 .. Len(w)
      <4>1. p + 1 <= Len(w2) /\ Len(w2) <= Len(w)
        BY <1>3 DEF Valid, Begins
      <4>. QED BY <1>1, <4>1
    <3>2. w2[p] = w[p] /\ w2[p + 1] = w[p + 1]
      BY <3>1 DEF Begins
    <3>3. w[p + 1] \in Nat
      BY <3>1, ElementOfSeq
    <3>. QED BY <3>2, <3>3
  <2>b. Valid(w, p)
    <3>1. p + 1 <= Len(w2) /\ Len(w2) <= Len(w)
      BY <1>3 DEF Valid, Begins
    <3>2. p + 1 <= Len(w)
      BY <1>1, <3>1
    <3>. QED BY <1>3, <2>a, <3>2 DEF Valid
  <2>c. \A j \in 1 .. w[p + 1] : p + 1 + j <= Len(w2) => w2[p + 1 + j] = w[p + 1 + j]
    <3> SUFFICES ASSUME NEW j \in 1 .. w[p + 1], p + 1 + j <= Len(w2)
                 PROVE  w2[p + 1 + j] = w[p + 1 + j]
      OBVIOUS
    <3>1. j \in Nat \ {0}
      BY <2>a
    <3>2. p + 1 + j \in 1 .. Len(w2)
      <4>1. ASSUME NEW x \in Nat \ {0}, NEW y \in Nat \ {0}, NEW n \in Nat, x + 1 + y <= n
            PROVE  x + 1 + y \in 1 .. n
        BY <4>1
      <4>. QED BY <1>1, <3>1, <4>1
    <3>. QED BY <3>2 DEF Begins
  <2>d. \A j \in 1 .. w[p + 1] : p + 1 + j <= Len(w2) => p + 1 + j <= Len(w)
    BY <1>1, <2>a DEF Begins
  <2>e. /\ p + 2 + w[p + 1] \in DOMAIN off
        /\ off[p + 2 + w[p + 1]] = off[p] + w[p + 1]
        /\ \A j \in 1 .. w[p + 1] : p + 1 + j <= Len(w) => w[p + 1 + j] = said[off[p] + j]
    BY <2>b DEF InPlace
  <2>f. \A j \in 1 .. w[p + 1] : p + 1 + j <= Len(w2) => w2[p + 1 + j] = said[off[p] + j]
    BY <2>c, <2>d, <2>e
  <2>. QED BY <2>a, <2>e, <2>f
<1>. QED BY <1>2, <1>3

(* A message that is well-formed carries the next n words of what is said. *)
Carries(msg, said, c, n) ==
    msg[1] = HEADER /\ msg[2] <= MaxPayload =>
        /\ Len(msg) = 2 + n /\ msg[2] = n
        /\ \A j \in 1 .. n : msg[2 + j] = said[c + j]

(* The places when the first message, b, has been taken off. *)
NextPlaces(off, off2, b, rest, said) ==
    /\ InPlace(off2, rest, said)
    /\ off2[1] = off[1] + b[2]
    /\ \A p \in DOMAIN off2 : \E q \in DOMAIN off : off2[p] = off[q]
    /\ \A c : Ends(off, Len(b \o rest), c) => Ends(off2, Len(rest), c)

(* The places when one more message has been added. *)
MorePlaces(off, off2, w, msg, said, c, n) ==
    /\ InPlace(off2, w \o msg, said)
    /\ off2[1] = off[1]
    /\ \A p \in DOMAIN off2 : off2[p] = c + n \/ \E q \in DOMAIN off : off2[p] = off[q]
    /\ Ends(off2, Len(w \o msg), c + n)

(* They fit what is left when the first message has been taken off. *)
LEMMA InPlaceNext ==
  ASSUME NEW off, NEW b \in Seq(Nat), NEW rest \in Seq(Nat), NEW said, Len(said) \in Nat,
         InPlace(off, b \o rest, said),
         Len(b) >= 2, b[1] = HEADER, b[2] <= MaxPayload, Len(b) = 2 + b[2]
  PROVE  \E off2 : NextPlaces(off, off2, b, rest, said)
<1> DEFINE L == Len(b)
           w == b \o rest
           R == Len(rest)
           N == Len(w)
           S == {p \in Nat \ {0} : p + L \in DOMAIN off}
           off2 == [p \in S |-> off[p + L]]
<1>1. L \in Nat /\ R \in Nat /\ b[2] \in Nat /\ L >= 2
  OBVIOUS
<1>2. /\ w \in Seq(Nat)
      /\ N = L + R
      /\ \A i \in 1 .. L : w[i] = b[i]
      /\ \A i \in 1 .. R : w[L + i] = rest[i]
  BY Joined
<1>3. InPlace(off, w, said)
  OBVIOUS
<1>4. L = 2 + b[2]
  OBVIOUS
<1> HIDE DEF L, w, R, N
<1>5. w[1] = HEADER /\ w[2] = b[2]
  <2>a. 1 \in 1 .. L /\ 2 \in 1 .. L
    BY <1>1
  <2>. QED BY <1>2, <2>a
<1>6. Valid(w, 1)
  BY <1>1, <1>2, <1>5 DEF Valid, R, N
<1>7. L + 1 \in DOMAIN off /\ off[L + 1] = off[1] + b[2]
  <2>a. 1 + 2 + w[1 + 1] = L + 1 /\ w[1 + 1] = b[2]
    BY <1>1, <1>4, <1>5
  <2>b. 1 + 2 + w[1 + 1] \in DOMAIN off /\ off[1 + 2 + w[1 + 1]] = off[1] + w[1 + 1]
    BY <1>3, <1>6 DEF InPlace, R, N
  <2>. QED BY <2>a, <2>b
<1>8. 1 \in S /\ off2[1] = off[1] + b[2]
  <2>a. 1 + L = L + 1
    BY <1>1
  <2>. QED BY <1>7, <2>a
<1>9. \A p \in DOMAIN off2 : \E q \in DOMAIN off : off2[p] = off[q]
  OBVIOUS
<1>10. \A c : Ends(off, N, c) => Ends(off2, R, c)
  <2> SUFFICES ASSUME NEW c, Ends(off, N, c) PROVE Ends(off2, R, c)
    OBVIOUS
  <2>a. S \subseteq 1 .. R + 1
    <3> SUFFICES ASSUME NEW p \in Nat \ {0}, p + L \in DOMAIN off PROVE p \in 1 .. R + 1
      OBVIOUS
    <3>1. p + L \in 1 .. N + 1
      BY DEF Ends
    <3>. QED BY <3>1, <1>1, <1>2
  <2>b. R \notin S
    <3>1. R + L = N
      BY <1>1, <1>2
    <3>. QED BY <3>1 DEF Ends
  <2>c. R + 1 \in S /\ off2[R + 1] = c
    <3>1. (R + 1) + L = N + 1 /\ R + 1 \in Nat \ {0}
      BY <1>1, <1>2
    <3>. QED BY <3>1 DEF Ends
  <2>. QED BY <2>a, <2>b, <2>c DEF Ends
<1>11. InPlace(off2, rest, said)
  <2>a. ASSUME NEW p \in S
        PROVE  /\ off2[p] \in 0 .. Len(said)
               /\ p <= R => rest[p] \in {HEADER, GARBLED}
               /\ Valid(rest, p) => /\ p + 2 + rest[p + 1] \in S
                                    /\ off2[p + 2 + rest[p + 1]] = off2[p] + rest[p + 1]
                                    /\ \A j \in 1 .. rest[p + 1] :
                                          p + 1 + j <= R => rest[p + 1 + j] = said[off2[p] + j]
    <3> DEFINE q == p + L
    <3>1. p \in Nat \ {0} /\ q \in DOMAIN off /\ off2[p] = off[q] /\ q = L + p /\ q \in Nat
      BY <1>1
    <3>2. off[q] \in 0 .. Len(said) /\ (q <= N => w[q] \in {HEADER, GARBLED})
      BY <1>3, <3>1 DEF InPlace, R, N
    <3>3. p <= R => rest[p] \in {HEADER, GARBLED}
      <4> SUFFICES ASSUME p <= R PROVE rest[p] \in {HEADER, GARBLED}
        OBVIOUS
      <4>1. p \in 1 .. R /\ q <= N
        BY <1>1, <1>2, <3>1
      <4>. QED BY <4>1, <3>1, <3>2, <1>2
    <3>4. ASSUME Valid(rest, p)
          PROVE  /\ p + 2 + rest[p + 1] \in S
                 /\ off2[p + 2 + rest[p + 1]] = off2[p] + rest[p + 1]
                 /\ \A j \in 1 .. rest[p + 1] :
                       p + 1 + j <= R => rest[p + 1 + j] = said[off2[p] + j]
      <4>1. p \in 1 .. R /\ p + 1 \in 1 .. R
        BY <1>1, <3>1, <3>4 DEF Valid, R, N
      <4>2. rest[p] = w[q] /\ rest[p + 1] = w[q + 1] /\ rest[p + 1] \in Nat
        <5>1. L + p = q /\ L + (p + 1) = q + 1
          BY <1>1, <3>1
        <5>2. w[L + p] = rest[p] /\ w[L + (p + 1)] = rest[p + 1]
          BY <1>2, <4>1
        <5>3. rest[p + 1] \in Nat
          <6>1. p + 1 \in 1 .. Len(rest)
            BY <4>1 DEF R
          <6>. QED BY <6>1, ElementOfSeq
        <5>. QED BY <5>1, <5>2, <5>3
      <4>3. Valid(w, q)
        <5>1. q + 1 <= N
          BY <1>1, <1>2, <3>1, <4>1
        <5>. QED BY <3>4, <4>2, <5>1 DEF Valid, N
      <4> DEFINE l == rest[p + 1]
      <4>4. /\ q + 2 + l \in DOMAIN off
            /\ off[q + 2 + l] = off[q] + l
            /\ \A j \in 1 .. l : q + 1 + j <= N => w[q + 1 + j] = said[off[q] + j]
        <5>1. Valid(w, q) =>
                 /\ q + 2 + w[q + 1] \in DOMAIN off
                 /\ off[q + 2 + w[q + 1]] = off[q] + w[q + 1]
                 /\ \A j \in 1 .. w[q + 1] :
                       q + 1 + j <= Len(w) => w[q + 1 + j] = said[off[q] + j]
          BY <1>3, <3>1 DEF InPlace
        <5>2. l = w[q + 1] /\ N = Len(w)
          BY <4>2 DEF N
        <5> HIDE DEF l
        <5>. QED BY <4>3, <5>1, <5>2
      <4>5. l \in Nat
        BY <4>2
      <4> HIDE DEF l, q
      <4>6. p + 2 + l \in S /\ off2[p + 2 + l] = off2[p] + l
        <5>1. (p + 2 + l) + L = q + 2 + l /\ p + 2 + l \in Nat \ {0}
          BY <1>1, <3>1, <4>5
        <5>. QED BY <5>1, <4>4, <3>1
      <4>7. ASSUME NEW j \in 1 .. l, p + 1 + j <= R
            PROVE  rest[p + 1 + j] = said[off2[p] + j]
        <5>1. j \in Nat \ {0}
          BY <4>5
        <5>2. p + 1 + j \in 1 .. R /\ L + (p + 1 + j) = q + 1 + j /\ q + 1 + j <= N
          BY <1>1, <1>2, <3>1, <5>1, <4>7
        <5>3. w[q + 1 + j] = said[off[q] + j]
          BY <4>4, <5>2
        <5>4. w[L + (p + 1 + j)] = rest[p + 1 + j]
          BY <1>2, <5>2
        <5>. QED BY <5>2, <5>3, <5>4, <3>1
      <4>. QED BY <4>6, <4>7 DEF l
    <3>. QED BY <3>1, <3>2, <3>3, <3>4
  <2>b. DOMAIN off2 = S /\ S \subseteq Nat \ {0}
    OBVIOUS
  <2> HIDE DEF off2, S
  <2>. QED BY <1>8, <2>a, <2>b DEF InPlace, R, N
<1>12. NextPlaces(off, off2, b, rest, said)
  <2> HIDE DEF off2, S
  <2>. QED BY <1>8, <1>9, <1>10, <1>11 DEF NextPlaces, w, R, N
<1>. QED BY <1>12

(* And they fit when a message that says the right words is added. *)
LEMMA InPlaceMore ==
  ASSUME NEW off, NEW w \in Seq(Nat), NEW msg \in Seq(Nat), NEW said, Len(said) \in Nat,
         InPlace(off, w, said), NEW c \in Nat, NEW n \in Nat, c + n <= Len(said),
         Ends(off, Len(w), c),
         Len(msg) >= 2, msg[1] \in {HEADER, GARBLED},
         Carries(msg, said, c, n)
  PROVE  \E off2 : MorePlaces(off, off2, w, msg, said, c, n)
<1> DEFINE W == w \o msg
           e == Len(w) + Len(msg) + 1
           S == DOMAIN off \cup {e}
           L == Len(w)
           M == Len(msg)
           N == Len(W)
           off2 == [p \in S |-> IF p = e THEN c + n ELSE off[p]]
<1>1. L \in Nat /\ M \in Nat /\ M >= 2 /\ msg[2] \in Nat
  OBVIOUS
<1>2. /\ W \in Seq(Nat)
      /\ N = L + M
      /\ \A i \in 1 .. L : W[i] = w[i]
      /\ \A i \in 1 .. M : W[L + i] = msg[i]
  BY Joined
<1>3. e = N + 1 /\ e \in Nat \ {0} /\ e > L + 2
  BY <1>1, <1>2
<1> HIDE DEF W, e, L, M, N
<1>4. DOMAIN off \subseteq 1 .. L + 1 /\ L \notin DOMAIN off /\ L + 1 \in DOMAIN off
      /\ off[L + 1] = c
  BY DEF Ends, L
<1>5. e \notin DOMAIN off
  BY <1>1, <1>3, <1>4
<1>6. \A p \in DOMAIN off : off2[p] = off[p]
  BY <1>5
<1>7. off2[e] = c + n /\ DOMAIN off2 = S
  OBVIOUS
<1>8. 1 \in DOMAIN off /\ 1 \in S /\ off2[1] = off[1]
  BY <1>6 DEF InPlace, L, N
<1>9. \A p \in DOMAIN off2 : off2[p] = c + n \/ \E q \in DOMAIN off : off2[p] = off[q]
  BY <1>6, <1>7
<1> HIDE DEF off2
<1>10. Ends(off2, N, c + n)
  <2>a. S \subseteq 1 .. N + 1
    <3>1. 1 .. L + 1 \subseteq 1 .. N + 1 /\ N + 1 \in 1 .. N + 1
      BY <1>1, <1>2
    <3>. QED BY <3>1, <1>3, <1>4
  <2>b. N \notin S
    BY <1>1, <1>2, <1>3, <1>4
  <2>. QED BY <2>a, <2>b, <1>3, <1>7 DEF Ends
<1>11. InPlace(off2, W, said)
  <2>a. ASSUME NEW p \in S
        PROVE  /\ off2[p] \in 0 .. Len(said)
               /\ p <= N => W[p] \in {HEADER, GARBLED}
               /\ Valid(W, p) => /\ p + 2 + W[p + 1] \in S
                                 /\ off2[p + 2 + W[p + 1]] = off2[p] + W[p + 1]
                                 /\ \A j \in 1 .. W[p + 1] :
                                       p + 1 + j <= N => W[p + 1 + j] = said[off2[p] + j]
    <3>1. CASE p = e
      <4>1. ~ (p <= N) /\ ~ Valid(W, p)
        <5>1. N \in Nat /\ p = N + 1
          BY <3>1, <1>1, <1>2, <1>3
        <5>2. ~ (p <= N) /\ ~ (p + 1 <= N)
          BY <5>1
        <5>. QED BY <5>2 DEF Valid, N
      <4>2. c + n \in 0 .. Len(said)
        OBVIOUS
      <4>. QED BY <4>1, <4>2, <3>1, <1>7
    <3>2. CASE p = L + 1
      <4>1. off2[p] = c
        BY <3>2, <1>4, <1>6
      <4>2. W[p] = msg[1] /\ W[p + 1] = msg[2]
        <5>1. 1 \in 1 .. M /\ 2 \in 1 .. M /\ p = L + 1 /\ p + 1 = L + 2
          BY <3>2, <1>1
        <5>. QED BY <5>1, <1>2
      <4>3. ASSUME Valid(W, p)
            PROVE  /\ p + 2 + W[p + 1] \in S
                   /\ off2[p + 2 + W[p + 1]] = off2[p] + W[p + 1]
                   /\ \A j \in 1 .. W[p + 1] :
                         p + 1 + j <= N => W[p + 1 + j] = said[off2[p] + j]
        <5>1. M = 2 + n /\ msg[2] = n /\ \A j \in 1 .. n : msg[2 + j] = said[c + j]
          BY <4>2, <4>3 DEF Valid, Carries, M
        <5>2. p + 2 + n = e
          BY <3>2, <5>1, <1>1 DEF e, L, M
        <5>3. ASSUME NEW j \in 1 .. n PROVE W[p + 1 + j] = said[c + j]
          <6>1. p + 1 + j = L + (2 + j) /\ 2 + j \in 1 .. M
            BY <3>2, <5>1, <1>1
          <6>2. W[L + (2 + j)] = msg[2 + j]
            BY <6>1, <1>2
          <6>. QED BY <6>1, <6>2, <5>1
        <5>. QED BY <4>1, <4>2, <5>1, <5>2, <5>3, <1>7
      <4>4. c \in 0 .. Len(said)
        OBVIOUS
      <4>. QED BY <4>1, <4>2, <4>3, <4>4
    <3>3. CASE p \in DOMAIN off /\ p # L + 1
      <4>1. p \in 1 .. L /\ p + 1 \in 1 .. L
        <5>1. p \in 1 .. L + 1 /\ p # L /\ p # L + 1
          BY <3>3, <1>4
        <5> HIDE DEF S
        <5>. QED BY <5>1, <1>1
      <4>2. W[p] = w[p] /\ W[p + 1] = w[p + 1] /\ w[p + 1] \in Nat
        <5>1. w[p + 1] \in Nat
          <6>1. p + 1 \in 1 .. Len(w)
            BY <4>1 DEF L
          <6>. QED BY <6>1, ElementOfSeq
        <5>. QED BY <4>1, <1>2, <5>1
      <4>3. off2[p] = off[p] /\ off[p] \in 0 .. Len(said) /\ w[p] \in {HEADER, GARBLED}
        BY <3>3, <4>1, <1>6 DEF InPlace, L, N
      <4>4. ASSUME Valid(W, p)
            PROVE  /\ p + 2 + W[p + 1] \in S
                   /\ off2[p + 2 + W[p + 1]] = off2[p] + W[p + 1]
                   /\ \A j \in 1 .. W[p + 1] :
                         p + 1 + j <= N => W[p + 1 + j] = said[off2[p] + j]
        <5>1. Valid(w, p)
          BY <4>1, <4>2, <4>4 DEF Valid, L, N
        <5> DEFINE l == w[p + 1]
        <5>2. /\ p + 2 + l \in DOMAIN off
              /\ off[p + 2 + l] = off[p] + l
              /\ \A j \in 1 .. l : p + 1 + j <= L => w[p + 1 + j] = said[off[p] + j]
          BY <3>3, <5>1 DEF InPlace, L, N
        <5>3. l \in Nat
          BY <4>2
        <5> HIDE DEF l
        <5>4. p + 2 + l <= L + 1
          BY <5>2, <1>4, <1>1
        <5>5. ASSUME NEW j \in 1 .. l PROVE W[p + 1 + j] = said[off[p] + j]
          <6>1. j \in Nat \ {0} /\ j <= l
            BY <5>3
          <6>2. p + 1 + j \in 1 .. L
            BY <4>1, <5>3, <5>4, <6>1, <1>1
          <6>3. W[p + 1 + j] = w[p + 1 + j]
            BY <6>2, <1>2
          <6>4. w[p + 1 + j] = said[off[p] + j]
            BY <6>2, <5>2
          <6>. QED BY <6>3, <6>4
        <5>6. W[p + 1] = l
          BY <4>2 DEF l
        <5>. QED BY <4>3, <5>2, <5>5, <5>6, <1>6
      <4>. QED BY <4>2, <4>3, <4>4
    <3>. QED BY <3>1, <3>2, <3>3
  <2>b. S \subseteq Nat \ {0}
    <3>1. 1 .. L + 1 \subseteq Nat \ {0}
      BY <1>1
    <3>. QED BY <3>1, <1>3, <1>4
  <2> HIDE DEF S
  <2>. QED BY <1>7, <1>8, <2>a, <2>b DEF InPlace, L, N
<1>12. MorePlaces(off, off2, w, msg, said, c, n)
  BY <1>8, <1>9, <1>10, <1>11 DEF MorePlaces, W, N
<1>. QED BY <1>12

--------------------------------
(* Types. *)

(* All words the client has to say, and how many of them it has written. *)
said == Said(mode, script)
carried == Len(said) - Len(pending)

(* What never changes. *)
ScriptInv ==
    /\ mode \in [v2 : BOOLEAN, pty : BOOLEAN]
    /\ TypedScript(mode, script)

(* What the buffer holds at each point of the handler. *)
PcInv ==
    /\ pc \in {"peek", "done"} => buf = <<>>
    /\ pc = "done" => stream = <<>>
    /\ pc = "header" => Len(buf) <= 2
    /\ pc \in {"data", "handle", "apply", "write"} =>
          Len(buf) >= 2 /\ buf[1] = HEADER /\ buf[2] <= MaxPayload
    /\ pc = "data" => Len(buf) <= 2 + buf[2]
    /\ pc \in {"handle", "apply", "write"} => Len(buf) = 2 + buf[2]

(* What is still to be written is the end of what is said. *)
PendingInv ==
    /\ pending \in Seq(Nat)
    /\ Len(pending) <= Len(said)
    /\ \A i \in 1 .. Len(pending) : pending[i] = said[carried + i]

(* All these together. *)
TypeInv == InputOK /\ ScriptInv /\ PcInv /\ PendingInv

(* What the client says are words. *)
LEMMA SaidType ==
  ASSUME ScriptInv
  PROVE  said \in Seq(Nat) /\ Len(said) \in Nat /\ Len(script) \in Nat
<1>1. said \in Seq(Nat)
  BY Marks DEF ScriptInv, said
<1>. QED BY <1>1, PiecesType DEF ScriptInv

(* The script a client starts with has frames it can type. *)
LEMMA InitScript == Init => ScriptInv
<1> SUFFICES ASSUME Init PROVE ScriptInv
  OBVIOUS
<1>1. mode \in [v2 : BOOLEAN, pty : BOOLEAN]
  BY ModesAssumption DEF Init
<1>2. \A f \in Frames : TypedFrame(mode, f)
  <2> SUFFICES ASSUME NEW f \in Frames PROVE TypedFrame(mode, f)
    OBVIOUS
  <2>a. CASE \E data \in Keys : f = Frame(Stdin, data)
    <3>1. PICK data \in Keys : f = Frame(Stdin, data)
      BY <2>a
    <3>3. data \in Seq(Nat)
      BY <3>1, KeysAssumption
    <3>4. f.id = Stdin /\ f.data = data
      BY <3>1 DEF Frame
    <3>. QED BY <3>3, <3>4 DEF TypedFrame, Stdin, WindowSizeChange
  <2>b. CASE mode.v2 /\ f = Frame(CloseStdin, <<>>)
    <3>1. f.id = CloseStdin /\ f.data = <<>>
      BY <2>b DEF Frame
    <3>2. f.data \in Seq(Nat)
      BY <3>1, EmptySeq
    <3>. QED BY <2>b, <3>1, <3>2 DEF TypedFrame, CloseStdin, WindowSizeChange
  <2>c. CASE mode.v2 /\ f = Frame(WindowSizeChange, <<24, 80>>)
    BY <2>c DEF Frame, TypedFrame
  <2>d. CASE mode.v2 /\ f = Frame(WindowSizeChange, <<24>>)
    BY <2>d DEF Frame, TypedFrame
  <2>. QED BY <2>a, <2>b, <2>c, <2>d DEF Frames
<1>3. PICK n \in 0 .. MaxFrames : script \in [1 .. n -> Frames]
  BY DEF Init, BoundedSeq, SeqOf
<1>4. n \in Nat
  BY MaxFramesAssumption
<1>5. script \in Seq(Frames) /\ Len(script) = n
  BY <1>3, <1>4
<1>6. TypedScript(mode, script)
  BY <1>2, <1>3, <1>4, <1>5 DEF TypedScript
<1>. QED BY <1>1, <1>6 DEF ScriptInv

(* All is of its type at the start. *)
LEMMA InitTypes == Init => TypeInv
<1> SUFFICES ASSUME Init PROVE TypeInv
  OBVIOUS
<1>1. ScriptInv
  BY InitScript
<1>2. pending = said
  <2>a. 0 \in 0 .. Len(script)
    BY <1>1, SaidType
  <2>b. WordsOf(script) = Said(mode, script)
    BY <1>1, <2>a, WordsOfFirst DEF ScriptInv
  <2>. QED BY <2>b DEF Init, said
<1>3. PendingInv
  BY <1>1, <1>2, SaidType DEF PendingInv, carried
<1>4. stream \in Seq(Nat) /\ buf \in Seq(Nat) /\ todo \in Seq(Nat) /\ payload \in Seq(Nat) /\ fed \in Seq(Nat)
  BY EmptySeq DEF Init, TransportInit
<1>5. PcInv
  BY DEF Init, TransportInit, PcInv
<1>6. unread \in 0 .. StdinCap
  BY StdinCapAssumption DEF Init
<1>7. TransportOK
  BY <1>4 DEF Init, TransportInit, TransportOK
<1>8. InputOK
  BY <1>4, <1>6, <1>7 DEF Init, TransportInit, InputOK, Reading
<1>. QED BY <1>1, <1>3, <1>5, <1>8 DEF TypeInv

(* The client goes, or is not heard any more. *)
SilentStep == \/ ClientHangsUp
              \/ \E n \in 0 .. Len(stream) - 1 : ClientFallsSilent(n)

(* ClientWrites leaves all of its type: the rest of what is said is still to say. *)
LEMMA WriteTypes ==
  ASSUME TypeInv, NEW n \in 0 .. Len(pending), ClientWrites(n)
  PROVE  TypeInv'
<1> DEFINE data == SubSeq(pending, 1, n)
           rest == SubSeq(pending, n + 1, Len(pending))
           msg == Message(HEADER, data)
<1>0. pending \in Seq(Nat) /\ Len(pending) \in Nat /\ n \in Nat
  BY DEF TypeInv, PendingInv
<1>1. /\ data \in Seq(Nat) /\ rest \in Seq(Nat) /\ Len(data) = n /\ Len(rest) = Len(pending) - n
      /\ \A i \in 1 .. Len(pending) - n : rest[i] = pending[n + i]
  BY <1>0, CutType
<1> HIDE DEF data, rest
<1>2. msg \in Seq(Nat)
  <2>a. <<HEADER, Len(data)>> \in Seq(Nat)
    BY <1>1, <1>0 DEF HEADER
  <2>. QED BY <1>1, <2>a, Joined DEF Message
<1> HIDE DEF msg
<1>3. /\ stream' = stream \o msg /\ pending' = rest
      /\ whole' \in BOOLEAN
      /\ UNCHANGED <<peer, buf, pc, shell, work, script, handled, lost>>
  BY DEF ClientWrites, Written, msg, data, rest
<1>4. stream' \in Seq(Nat)
  BY <1>2, <1>3, Joined DEF TypeInv, InputOK, TransportOK
<1>5. InputOK'
  BY <1>3, <1>4 DEF TypeInv, InputOK, TransportOK, data_length, shell, work
<1>6. ScriptInv' /\ PcInv'
  <2>a. pc # "done"
    BY DEF ClientWrites, Written
  <2>. QED BY <1>3, <2>a DEF TypeInv, ScriptInv, PcInv, shell
<1>7. PendingInv'
  <2>a. said' = said /\ Len(said) \in Nat
    BY <1>3, SaidType DEF TypeInv, said, shell
  <2>b. Len(pending) <= Len(said) /\ \A i \in 1 .. Len(pending) : pending[i] = said[carried + i]
    BY DEF TypeInv, PendingInv
  <2>c. Len(pending') = Len(pending) - n /\ carried' = carried + n /\ carried \in Nat
    <3>1. Len(pending') = Len(pending) - n
      BY <1>1, <1>3
    <3>2. carried \in Nat
      BY <1>0, <2>a, <2>b DEF carried
    <3>3. carried' = Len(said) - Len(pending')
      BY <2>a DEF carried
    <3>. QED BY <1>0, <2>a, <3>1, <3>2, <3>3 DEF carried
  <2>d. ASSUME NEW i \in 1 .. Len(pending') PROVE pending'[i] = said[carried' + i]
    <3>1. i \in 1 .. Len(pending) - n /\ n + i \in 1 .. Len(pending) /\ carried' + i = carried + (n + i)
      BY <1>0, <2>c
    <3>2. pending'[i] = pending[n + i]
      BY <1>1, <1>3, <3>1
    <3>. QED BY <3>1, <3>2, <2>b
  <2>e. Len(pending') <= Len(said)
    BY <1>0, <2>a, <2>b, <2>c
  <2>. QED BY <1>1, <1>3, <2>a, <2>d, <2>e DEF PendingInv
<1>. QED BY <1>5, <1>6, <1>7 DEF TypeInv

(* A step that leaves the client's script and what it has still to write. *)
LEMMA ScriptKept ==
  ASSUME TypeInv, UNCHANGED <<mode, script, pending>>
  PROVE  ScriptInv' /\ PendingInv' /\ said' = said /\ carried' = carried
<1>1. said' = said /\ carried' = carried
  BY DEF said, carried
<1>. QED BY <1>1 DEF TypeInv, ScriptInv, PendingInv

(* So does a header that is garbled, *)
LEMMA GarbleTypes ==
  ASSUME TypeInv, ClientGarbles PROVE TypeInv'
<1>1. PICK msg \in {<<GARBLED, 0>>, <<HEADER, MaxPayload + 1>>} : Written(msg)
  BY DEF ClientGarbles
<1>2. msg \in Seq(Nat)
  <2>a. MaxPayload + 1 \in Nat
    BY MaxPayloadAssumption
  <2>b. <<GARBLED, 0>> \in Seq(Nat) /\ <<HEADER, MaxPayload + 1>> \in Seq(Nat)
    BY <2>a DEF GARBLED, HEADER
  <2>. QED BY <2>b
<1>3. /\ stream' = stream \o msg /\ pc # "done"
      /\ UNCHANGED <<peer, buf, pc, shell, work, client, handled, lost>>
  BY <1>1 DEF ClientGarbles, Written
<1>4. stream' \in Seq(Nat)
  BY <1>2, <1>3, Joined DEF TypeInv, InputOK, TransportOK
<1>5. InputOK'
  BY <1>3, <1>4 DEF TypeInv, InputOK, TransportOK, data_length, shell, work, client
<1>6. ScriptInv' /\ PendingInv'
  BY <1>3, ScriptKept DEF shell, client
<1>7. PcInv'
  BY <1>3 DEF TypeInv, PcInv
<1>. QED BY <1>5, <1>6, <1>7 DEF TypeInv

(* a client that goes or falls silent, *)
LEMMA SilentTypes ==
  ASSUME TypeInv, SilentStep, UNCHANGED <<shell, work, client, handled, lost>> PROVE TypeInv'
<1>0. ScriptInv' /\ PendingInv'
  BY ScriptKept DEF shell, client
<1>1. CASE ClientHangsUp
  BY <1>0, <1>1 DEF TypeInv, InputOK, TransportOK, PcInv, data_length, shell, work, client, ClientHangsUp
<1>2. ASSUME NEW n \in 0 .. Len(stream) - 1, ClientFallsSilent(n)
      PROVE  TypeInv'
  <2>a. /\ peer' = "silent" /\ stream' = SubSeq(stream, 1, n) /\ pc # "done"
        /\ UNCHANGED <<buf, pc>>
    BY <1>2 DEF ClientFallsSilent
  <2>b. stream' \in Seq(Nat)
    <3>1. stream \in Seq(Nat)
      BY DEF TypeInv, InputOK, TransportOK
    <3>2. n \in 0 .. Len(stream)
      BY <3>1
    <3>. QED BY <2>a, <3>1, <3>2, CutType
  <2>c. TransportOK'
    BY <2>a, <2>b DEF TypeInv, InputOK, TransportOK, data_length
  <2>d. InputOK'
    BY <2>a, <2>c DEF TypeInv, InputOK, shell, work, client
  <2>e. PcInv'
    BY <2>a DEF TypeInv, PcInv
  <2>. QED BY <1>0, <2>d, <2>e DEF TypeInv
<1>. QED BY <1>1, <1>2 DEF SilentStep

(* and a read, which moves words from the stream to the buffer and changes none. *)
LEMMA ReadTypes ==
  ASSUME TypeInv, NEW n \in 1 .. Len(stream), ReadSome(n), UNCHANGED <<shell, work, client, handled, lost>>
  PROVE  TypeInv' /\ buf' \o stream' = buf \o stream
<1>1. /\ n \in 0 .. Len(stream)
      /\ stream \in Seq(Nat) /\ buf \in Seq(Nat) /\ Len(buf) \in Nat /\ n \in Nat
  BY DEF TypeInv, InputOK, TransportOK
<1> DEFINE a == SubSeq(stream, 1, n)
           b == SubSeq(stream, n + 1, Len(stream))
<1>2. a \in Seq(Nat) /\ b \in Seq(Nat) /\ Len(a) = n /\ stream = a \o b
  BY <1>1, CutType
<1>3. /\ buf' = buf \o a /\ stream' = b /\ n <= Wanted
      /\ pc \in Reading
      /\ UNCHANGED <<peer, pc, shell, work, client, handled, lost>>
  BY DEF ReadSome
<1> HIDE DEF a, b
<1>4. /\ buf' \in Seq(Nat) /\ Len(buf') = Len(buf) + n
      /\ \A i \in 1 .. Len(buf) : buf'[i] = buf[i]
  BY <1>1, <1>2, <1>3, Joined
<1>5. buf' \o stream' = buf \o stream
  BY <1>1, <1>2, <1>3, Assoc
<1>6. pc = "header" => Len(buf') <= 2
  BY <1>1, <1>3, <1>4 DEF Wanted
<1>7. pc = "data" => /\ Len(buf) >= 2 /\ buf[1] = HEADER /\ buf[2] <= MaxPayload /\ buf[2] \in Nat
                     /\ buf'[1] = buf[1] /\ buf'[2] = buf[2]
                     /\ Len(buf') >= 2 /\ Len(buf') <= 2 + buf[2]
  <2> SUFFICES ASSUME pc = "data"
               PROVE  /\ Len(buf) >= 2 /\ buf[1] = HEADER /\ buf[2] <= MaxPayload /\ buf[2] \in Nat
                      /\ buf'[1] = buf[1] /\ buf'[2] = buf[2]
                      /\ Len(buf') >= 2 /\ Len(buf') <= 2 + buf[2]
    OBVIOUS
  <2>a. Len(buf) >= 2 /\ buf[1] = HEADER /\ buf[2] <= MaxPayload
    BY DEF TypeInv, PcInv
  <2>b. 1 \in 1 .. Len(buf) /\ 2 \in 1 .. Len(buf)
    BY <1>1, <2>a
  <2>c. buf[2] \in Nat
    BY <1>1, <2>b, ElementOfSeq
  <2>d. n <= 2 + buf[2] - Len(buf)
    BY <1>3 DEF Wanted, data_length
  <2>e. buf'[1] = buf[1] /\ buf'[2] = buf[2]
    BY <1>4, <2>b
  <2>f. Len(buf') >= 2 /\ Len(buf') <= 2 + buf[2]
    <3>1. Len(buf') = Len(buf) + n /\ n \in Nat /\ Len(buf) \in Nat
      BY <1>1, <1>4
    <3>2. Len(buf) + n >= 2
      BY <2>a, <3>1
    <3>3. Len(buf) + n <= 2 + buf[2]
      BY <2>c, <2>d, <3>1
    <3>. QED BY <3>1, <3>2, <3>3
  <2>. QED BY <2>a, <2>c, <2>e, <2>f
<1>8. ScriptInv' /\ PendingInv'
  BY <1>3, ScriptKept DEF shell, client
<1>9. PcInv'
  BY <1>3, <1>4, <1>6, <1>7 DEF PcInv, Reading
<1>10. InputOK'
  <2>a. TransportOK'
    BY <1>2, <1>3, <1>4, <1>7 DEF TypeInv, InputOK, TransportOK, data_length, Reading
  <2>. QED BY <2>a, <1>3 DEF TypeInv, InputOK, shell, work, client
<1>. QED BY <1>5, <1>8, <1>9, <1>10 DEF TypeInv

(* The other steps of Receive. *)
Onward == PeekData \/ HeaderOnly \/ HeaderThenData \/ HasData
Ending == HeaderInvalid \/ EndOfStream \/ ReadTimesOut

(* The handler's way through a message that it has read. *)
LEMMA OnwardTypes ==
  ASSUME TypeInv, Onward, UNCHANGED <<shell, work, client, handled, lost>>
  PROVE  TypeInv' /\ pc # "done" /\ pc' # "done" /\ UNCHANGED net
<1>1. ScriptInv' /\ PendingInv'
  BY ScriptKept DEF shell, client
<1>2. /\ stream \in Seq(Nat) /\ buf \in Seq(Nat) /\ Len(buf) \in Nat
      /\ \A i \in 1 .. Len(buf) : buf[i] \in Nat
  BY DEF TypeInv, InputOK, TransportOK
<1>3. UNCHANGED net /\ UNCHANGED <<peer, stream, buf>>
  BY DEF Onward, PeekData, HeaderOnly, HeaderThenData, HasData, net
<1>4. InputOK /\ PcInv
  BY DEF TypeInv
<1>5. ASSUME pc' \in {"header", "data", "handle"},
             pc' = "header" => buf = <<>>,
             pc' # "header" => Len(buf) >= 2 /\ buf[1] = HEADER /\ buf[2] <= MaxPayload,
             pc' = "data" => Len(buf) <= 2 + buf[2],
             pc' = "handle" => Len(buf) = 2 + buf[2]
      PROVE  TypeInv'
  <2>a. pc' # "header" => buf[2] \in Nat
    <3> SUFFICES ASSUME pc' # "header" PROVE buf[2] \in Nat
      OBVIOUS
    <3>1. 2 \in 1 .. Len(buf)
      BY <1>2, <1>5
    <3>. QED BY <1>2, <3>1
  <2>b. PcInv'
    BY <1>2, <1>3, <1>5 DEF PcInv
  <2>c. TransportOK'
    BY <1>2, <1>3, <1>4, <1>5, <2>a DEF InputOK, TransportOK, data_length
  <2>d. InputOK'
    BY <1>4, <1>5, <2>c DEF InputOK, Reading, shell, work, client
  <2>. QED BY <1>1, <2>b, <2>d DEF TypeInv
<1>6. CASE PeekData
  <2>a. pc = "peek" /\ pc' = "header" /\ buf = <<>>
    BY <1>4, <1>6 DEF PeekData, PcInv
  <2>. QED BY <1>3, <1>5, <2>a
<1>7. CASE HeaderOnly
  <2>a. pc = "header" /\ pc' = "handle" /\ Len(buf) = 2 /\ buf[1] = HEADER /\ buf[2] = 0
    BY <1>2, <1>7 DEF HeaderOnly, HasHeader, Wanted, data_length
  <2>b. buf[2] <= MaxPayload /\ Len(buf) = 2 + buf[2]
    BY <2>a, MaxPayloadAssumption
  <2>. QED BY <1>3, <1>5, <2>a, <2>b
<1>8. CASE HeaderThenData
  <2>a. pc = "header" /\ pc' = "data" /\ Len(buf) = 2 /\ buf[1] = HEADER /\ buf[2] \in 1 .. MaxPayload
    BY <1>2, <1>8 DEF HeaderThenData, HasHeader, Wanted, data_length
  <2>b. buf[2] <= MaxPayload /\ Len(buf) <= 2 + buf[2]
    BY <2>a, MaxPayloadAssumption
  <2>. QED BY <1>3, <1>5, <2>a, <2>b
<1>9. CASE HasData
  <2>a. pc = "data" /\ pc' = "handle" /\ 2 + buf[2] - Len(buf) = 0
    BY <1>9 DEF HasData, Wanted, data_length
  <2>b. Len(buf) >= 2 /\ buf[1] = HEADER /\ buf[2] <= MaxPayload
    BY <1>4, <2>a DEF PcInv
  <2>c. buf[2] \in Nat
    <3>1. 2 \in 1 .. Len(buf)
      BY <1>2, <2>b
    <3>. QED BY <1>2, <3>1
  <2>d. Len(buf) = 2 + buf[2]
    BY <1>2, <2>a, <2>c
  <2>. QED BY <1>3, <1>5, <2>a, <2>b, <2>d
<1>. QED BY <1>3, <1>6, <1>7, <1>8, <1>9 DEF Onward

(* The connection ends: never while a WRTE is being handled. *)
LEMMA EndingTypes ==
  ASSUME TypeInv, Ending, UNCHANGED <<shell, work, client, handled, lost>>
  PROVE  TypeInv' /\ pc \notin {"handle", "apply", "write"} /\ Stop
<1>1. ScriptInv' /\ PendingInv'
  BY ScriptKept DEF shell, client
<1>2. Stop /\ pc \in {"peek", "header", "data"}
  BY DEF Ending, HeaderInvalid, EndOfStream, ReadTimesOut, HasHeader, Reading
<1>3. stream' = <<>> /\ buf' = <<>> /\ pc' = "done" /\ UNCHANGED peer
  BY <1>2 DEF Stop
<1>4. stream' \in Seq(Nat) /\ buf' \in Seq(Nat)
  BY <1>3, EmptySeq
<1>5. TransportOK'
  BY <1>3, <1>4 DEF TypeInv, InputOK, TransportOK
<1>6. InputOK' /\ PcInv'
  BY <1>3, <1>5 DEF TypeInv, InputOK, PcInv, shell, work, client
<1>. QED BY <1>1, <1>2, <1>6 DEF TypeInv

(* A message that has arrived whole: its header, and as much data as that announces. *)
LEMMA DataType ==
  ASSUME TypeInv, pc \in {"handle", "apply", "write"}
  PROVE  /\ data_length \in Nat /\ buf \in Seq(Nat) /\ Len(buf) = 2 + data_length
         /\ buf[1] = HEADER /\ data_length <= MaxPayload
<1>1. buf \in Seq(Nat) /\ Len(buf) >= 2 /\ buf[1] = HEADER /\ buf[2] <= MaxPayload /\ Len(buf) = 2 + buf[2]
  BY DEF TypeInv, InputOK, TransportOK, PcInv
<1>2. 2 \in 1 .. Len(buf)
  BY <1>1
<1>3. buf[2] \in Nat
  BY <1>1, <1>2, ElementOfSeq
<1>. QED BY <1>1, <1>3 DEF data_length

(* What a step leaves that neither reads the stream nor the script. *)
LEMMA AtMessageTypes ==
  ASSUME TypeInv, UNCHANGED <<net, mode, client>>,
         pc \in {"handle", "apply", "write"}, pc' \in {"handle", "apply", "write"},
         todo' \in Seq(Nat), payload' \in Seq(Nat), fed' \in Seq(Nat),
         unread' \in 0 .. StdinCap, winsize' \in {<<>>} \cup Seq(Nat), handled' \in Nat,
         session' \in BOOLEAN, alive' \in BOOLEAN, lost' \in BOOLEAN
  PROVE  TypeInv'
<1>1. ScriptInv' /\ PendingInv'
  BY ScriptKept DEF client
<1>2. UNCHANGED <<peer, stream, buf, whole>>
  BY DEF net, client
<1>3. TransportOK'
  BY <1>2 DEF TypeInv, InputOK, TransportOK
<1>4. InputOK'
  BY <1>2, <1>3 DEF TypeInv, InputOK
<1>5. PcInv'
  BY <1>2 DEF TypeInv, PcInv
<1>. QED BY <1>1, <1>4, <1>5 DEF TypeInv

(* The steps of the handler on a WRTE that has arrived. *)
Working == \/ Acknowledge
           \/ StdinFrame \/ WindowFrame \/ IgnoredFrame \/ RawInput
           \/ WriteSome \/ WriteReturns \/ WriteFails

(* A frame that parses lies within what there is. *)
LEMMA ParsedType ==
  ASSUME TypeInv, Parses
  PROVE  /\ todo \in Seq(Nat) /\ frame_length \in Nat /\ 2 + frame_length <= Len(todo)
         /\ frame_data \in Seq(Nat) /\ Len(frame_data) = frame_length
         /\ \A i \in 1 .. frame_length : frame_data[i] = todo[2 + i]
         /\ SubSeq(todo, (2 + frame_length) + 1, Len(todo)) \in Seq(Nat)
<1>1. todo \in Seq(Nat) /\ Len(todo) \in Nat
  BY DEF TypeInv, InputOK
<1>2. frame_length \in Nat /\ 2 + frame_length <= Len(todo)
  <2>a. Len(todo) >= 2 /\ Len(todo) >= 2 + todo[2]
    BY DEF Parses, frame_length
  <2>b. 2 \in 1 .. Len(todo)
    BY <1>1, <2>a
  <2>c. todo[2] \in Nat
    BY <1>1, <2>b, ElementOfSeq
  <2>. QED BY <1>1, <2>a, <2>c DEF frame_length
<1>3. frame_data \in Seq(Nat)
  BY <1>1, <1>2, SubSeqType DEF frame_data
<1>4. Len(frame_data) = frame_length
  BY <1>1, <1>2 DEF frame_data
<1>5. \A i \in 1 .. frame_length : frame_data[i] = todo[2 + i]
  <2> SUFFICES ASSUME NEW i \in 1 .. frame_length PROVE frame_data[i] = todo[2 + i]
    OBVIOUS
  <2>a. 3 + i - 1 = 2 + i
    BY <1>2
  <2>. QED BY <1>1, <1>2, <2>a DEF frame_data
<1>6. SubSeq(todo, (2 + frame_length) + 1, Len(todo)) \in Seq(Nat)
  BY <1>1, <1>2, CutType
<1>. QED BY <1>1, <1>2, <1>3, <1>4, <1>5, <1>6

(* The steps of the handler within a WRTE leave the stream and the client alone. *)
LEMMA WorkingTypes ==
  ASSUME TypeInv, Working
  PROVE  /\ TypeInv' /\ UNCHANGED <<net, client, handled, mode, session>>
         /\ pc \in {"handle", "apply", "write"} /\ pc' \in {"handle", "apply", "write"}
<1>1. /\ todo \in Seq(Nat) /\ payload \in Seq(Nat) /\ fed \in Seq(Nat) /\ buf \in Seq(Nat)
      /\ unread \in 0 .. StdinCap /\ winsize \in {<<>>} \cup Seq(Nat) /\ handled \in Nat
      /\ session \in BOOLEAN /\ alive \in BOOLEAN /\ lost \in BOOLEAN
  BY DEF TypeInv, InputOK, TransportOK
<1>2. CASE Acknowledge
  <2>a. pc \in {"handle", "apply", "write"} /\ pc' \in {"handle", "apply", "write"}
        /\ UNCHANGED <<net, mode, client, session, alive, fed, unread, winsize, payload, handled, lost>>
    BY <1>2 DEF Acknowledge, shell
  <2>b. todo' \in Seq(Nat)
    <3>1. todo' = SubSeq(buf, 3, Len(buf))
      BY <1>2 DEF Acknowledge
    <3>. QED BY <1>1, <3>1, SubSeqType
  <2>. QED BY <1>1, <2>a, <2>b, AtMessageTypes
<1>3. ASSUME NEW id, Parsed(id)
      PROVE  /\ pc = "apply" /\ Parses /\ todo' \in Seq(Nat)
             /\ UNCHANGED <<net, mode, client, session, alive, fed, unread, handled, lost>>
  <2>a. Parses /\ todo' = SubSeq(todo, (2 + frame_length) + 1, Len(todo))
    BY <1>3 DEF Parsed, Consume
  <2>. QED BY <1>3, <2>a, ParsedType DEF Parsed
<1>4. CASE StdinFrame
  <2>a. /\ pc = "apply" /\ Parses /\ todo' \in Seq(Nat)
        /\ UNCHANGED <<net, mode, client, session, alive, fed, unread, handled, lost>>
    BY <1>3, <1>4 DEF StdinFrame
  <2>b. payload' = frame_data /\ pc' = "write" /\ winsize' = winsize
    BY <1>4 DEF StdinFrame
  <2>c. payload' \in Seq(Nat)
    BY <2>a, <2>b, ParsedType
  <2>. QED BY <1>1, <2>a, <2>b, <2>c, AtMessageTypes
<1>5. CASE WindowFrame
  <2>a. /\ pc = "apply" /\ Parses /\ todo' \in Seq(Nat)
        /\ UNCHANGED <<net, mode, client, session, alive, fed, unread, handled, lost>>
    BY <1>3, <1>5 DEF WindowFrame
  <2>b. /\ winsize' = IF mode.pty /\ frame_length >= 2 THEN SubSeq(frame_data, 1, 2) ELSE winsize
        /\ UNCHANGED <<payload, pc>>
    BY <1>5 DEF WindowFrame
  <2>c. winsize' \in {<<>>} \cup Seq(Nat)
    <3>1. CASE mode.pty /\ frame_length >= 2
      <4>1. SubSeq(frame_data, 1, 2) \in Seq(Nat)
        <5>1. frame_data \in Seq(Nat) /\ 2 <= Len(frame_data)
          BY <2>a, <3>1, ParsedType
        <5>. QED BY <5>1, SubSeqType
      <4>. QED BY <2>b, <3>1, <4>1
    <3>2. CASE ~(mode.pty /\ frame_length >= 2)
      BY <1>1, <2>b, <3>2
    <3>. QED BY <3>1, <3>2
  <2>. QED BY <1>1, <2>a, <2>b, <2>c, AtMessageTypes
<1>6. CASE IgnoredFrame
  <2>a. /\ pc = "apply" /\ Parses /\ todo' \in Seq(Nat)
        /\ UNCHANGED <<net, mode, client, session, alive, fed, unread, handled, lost>>
    BY <1>3, <1>6 DEF IgnoredFrame
  <2>b. UNCHANGED <<payload, pc, winsize>>
    BY <1>6 DEF IgnoredFrame
  <2>. QED BY <1>1, <2>a, <2>b, AtMessageTypes
<1>7. CASE RawInput
  <2>a. /\ pc = "apply" /\ pc' = "write" /\ payload' = todo /\ todo' = <<>>
        /\ UNCHANGED <<net, mode, client, session, alive, fed, unread, winsize, handled, lost>>
    BY <1>7 DEF RawInput, shell
  <2>b. todo' \in Seq(Nat)
    BY <2>a, EmptySeq
  <2>. QED BY <1>1, <2>a, <2>b, AtMessageTypes
<1>8. CASE WriteSome
  <2>a. /\ pc = "write"
        /\ UNCHANGED <<net, pc, mode, session, alive, winsize, todo, client, handled, lost>>
    BY <1>8 DEF WriteSome
  <2>b. PICK n \in 1 .. Len(payload) :
           /\ unread + n <= StdinCap
           /\ fed' = fed \o SubSeq(payload, 1, n)
           /\ unread' = unread + n
           /\ payload' = SubSeq(payload, n + 1, Len(payload))
    BY <1>8 DEF WriteSome
  <2>c. n \in 0 .. Len(payload) /\ n \in Nat
    BY <1>1, <2>b
  <2>d. payload' \in Seq(Nat) /\ SubSeq(payload, 1, n) \in Seq(Nat)
    BY <1>1, <2>b, <2>c, CutType
  <2>e. fed' \in Seq(Nat)
    BY <1>1, <2>b, <2>d, Joined
  <2>f. unread' \in 0 .. StdinCap
    BY <1>1, <2>b, <2>c, StdinCapAssumption
  <2>. QED BY <1>1, <2>a, <2>d, <2>e, <2>f, AtMessageTypes
<1>9. CASE WriteReturns
  <2>a. /\ pc = "write" /\ pc' = "apply"
        /\ UNCHANGED <<net, mode, client, session, alive, fed, unread, winsize, todo, payload, handled, lost>>
    BY <1>9 DEF WriteReturns, shell, work
  <2>. QED BY <1>1, <2>a, AtMessageTypes
<1>10. CASE WriteFails
  <2>a. /\ pc = "write" /\ pc' = "apply" /\ payload' = <<>> /\ lost' = TRUE
        /\ UNCHANGED <<net, mode, client, session, alive, fed, unread, winsize, todo, handled>>
    BY <1>10 DEF WriteFails, shell
  <2>b. payload' \in Seq(Nat)
    BY <2>a, EmptySeq
  <2>. QED BY <1>1, <2>a, <2>b, AtMessageTypes
<1>. QED BY <1>2, <1>4, <1>5, <1>6, <1>7, <1>8, <1>9, <1>10 DEF Working

(* After it, the WRTE is dropped and counted as handled. *)
LEMMA DoneTypes ==
  ASSUME TypeInv, WrteDone
  PROVE  /\ TypeInv' /\ pc = "apply" /\ pc' = "peek" /\ buf' = <<>> /\ todo' = <<>>
         /\ handled' = handled + data_length /\ data_length \in Nat
         /\ UNCHANGED <<peer, stream, shell, payload, client, lost>>
<1>1. /\ pc = "apply" /\ pc' = "peek" /\ buf' = <<>> /\ todo' = <<>>
      /\ handled' = handled + data_length
      /\ UNCHANGED <<peer, stream, shell, payload, client, lost>>
  BY DEF WrteDone, NextMessage
<1>2. data_length \in Nat
  BY <1>1, DataType
<1>3. ScriptInv' /\ PendingInv'
  BY <1>1, ScriptKept DEF shell, client
<1>4. buf' \in Seq(Nat) /\ todo' \in Seq(Nat) /\ handled' \in Nat
  BY <1>1, <1>2, EmptySeq DEF TypeInv, InputOK
<1>5. TransportOK'
  BY <1>1, <1>4 DEF TypeInv, InputOK, TransportOK
<1>6. InputOK' /\ PcInv'
  BY <1>1, <1>4, <1>5 DEF TypeInv, InputOK, PcInv, shell, client
<1>. QED BY <1>1, <1>2, <1>3, <1>6 DEF TypeInv

(* The shell, and the poll. *)
Apart == ShellReads \/ ShellExits \/ PollDrops \/ Cleared

(* The shell and the table change nothing of the input. *)
LEMMA ApartTypes ==
  ASSUME TypeInv, Apart
  PROVE  /\ TypeInv' /\ UNCHANGED <<net, pc, mode, fed, winsize, work, client, handled, lost>>
         /\ session' => session
<1>1. /\ UNCHANGED <<net, pc, mode, fed, winsize, work, client, handled, lost>>
      /\ session' => session
  BY DEF Apart, ShellReads, ShellExits, PollDrops, Cleared
<1>2. ScriptInv' /\ PendingInv'
  BY <1>1, ScriptKept DEF client
<1>3. session' \in BOOLEAN /\ alive' \in BOOLEAN
  BY DEF TypeInv, InputOK, Apart, ShellReads, ShellExits, PollDrops, Cleared
<1>4. unread' \in 0 .. StdinCap
  BY StdinCapAssumption DEF TypeInv, InputOK, Apart, ShellReads, ShellExits, PollDrops, Cleared
<1>5. TransportOK'
  BY <1>1 DEF TypeInv, InputOK, TransportOK, data_length, net
<1>6. InputOK' /\ PcInv'
  BY <1>1, <1>3, <1>4, <1>5 DEF TypeInv, InputOK, PcInv, work, client, net
<1>. QED BY <1>1, <1>2, <1>6 DEF TypeInv

--------------------------------
(* The handler keeps its place in the stream. *)

(* A frame ends here. *)
Boundary(n) == \E k \in 0 .. Len(script) : Mark(mode, script, k) = n

(* The places of the messages in what was read of the current one and what follows. *)
Located(off) ==
    /\ InPlace(off, buf \o stream, said)
    /\ off[1] = handled
    /\ mode.v2 /\ whole => \A p \in DOMAIN off : Boundary(off[p])
    /\ peer = "open" /\ pc # "done" => Ends(off, Len(buf \o stream), carried)

(* The handler and the stream have not lost each other. *)
PlaceInv == \E off : Located(off)

(* Nothing moved in the stream. *)
LEMMA PlaceKept ==
  ASSUME TypeInv, PlaceInv, UNCHANGED <<buf, stream, handled, whole, mode, script, pending>>,
         peer' = "open" => peer = "open", pc' # "done" => pc # "done"
  PROVE  PlaceInv'
<1>1. PICK off : Located(off)
  BY DEF PlaceInv
<1>2. said' = said /\ carried' = carried
  BY DEF said, carried
<1>3. \A n : Boundary(n)' <=> Boundary(n)
  BY DEF Boundary
<1>4. Located(off)'
  BY <1>1, <1>2, <1>3 DEF Located
<1>. QED BY <1>4 DEF PlaceInv

(* Words went from the stream to the buffer. *)
LEMMA PlaceRead ==
  ASSUME TypeInv, PlaceInv, UNCHANGED <<peer, pc, handled, whole, mode, script, pending>>,
         buf' \o stream' = buf \o stream
  PROVE  PlaceInv'
<1>1. PICK off : Located(off)
  BY DEF PlaceInv
<1>2. said' = said /\ carried' = carried
  BY DEF said, carried
<1>3. \A n : Boundary(n)' <=> Boundary(n)
  BY DEF Boundary
<1>4. Located(off)'
  BY <1>1, <1>2, <1>3 DEF Located
<1>. QED BY <1>4 DEF PlaceInv

(* Words are lost behind the first n; nothing follows these any more. *)
LEMMA PlaceCut ==
  ASSUME TypeInv, PlaceInv, UNCHANGED <<handled, whole, mode, script, pending>>,
         NEW w \in Seq(Nat), buf' \o stream' = w,
         Begins(w, buf \o stream),
         peer' # "open" \/ pc' = "done"
  PROVE  PlaceInv'
<1>1. PICK off : Located(off)
  BY DEF PlaceInv
<1>2. said' = said
  BY DEF said
<1>3. \A n : Boundary(n)' <=> Boundary(n)
  BY DEF Boundary
<1>4. buf \o stream \in Seq(Nat)
  BY Joined DEF TypeInv, InputOK, TransportOK
<1>5. InPlace(off, w, said)
  BY <1>1, <1>4, InPlaceCut DEF Located
<1>6. Located(off)'
  BY <1>1, <1>2, <1>3, <1>5 DEF Located
<1>. QED BY <1>6 DEF PlaceInv

(* The connection ended. *)
LEMMA PlaceStopped ==
  ASSUME TypeInv, PlaceInv, Stop, UNCHANGED <<handled, whole, mode, script, pending>>
  PROVE  PlaceInv'
<1>1. buf' = <<>> /\ stream' = <<>> /\ pc' = "done"
  BY DEF Stop
<1>2. buf' \o stream' = <<>> /\ <<>> \in Seq(Nat) /\ Len(<<>>) = 0
  BY <1>1
<1>3. buf \o stream \in Seq(Nat)
  BY Joined DEF TypeInv, InputOK, TransportOK
<1>4. Begins(<<>>, buf \o stream)
  BY <1>3 DEF Begins
<1>. QED BY <1>1, <1>2, <1>4, PlaceCut

(* The client went, or fell silent and lost what had not arrived. *)
LEMMA PlaceSilent ==
  ASSUME TypeInv, PlaceInv, SilentStep, UNCHANGED <<shell, work, client, handled, lost>>
  PROVE  PlaceInv'
<1>0. UNCHANGED <<handled, whole, mode, script, pending>>
  BY DEF shell, client
<1>1. CASE ClientHangsUp
  <2>a. peer' = "closed" /\ UNCHANGED <<stream, buf, pc>>
    BY <1>1 DEF ClientHangsUp
  <2>. QED BY <1>0, <2>a, PlaceKept
<1>2. ASSUME NEW n \in 0 .. Len(stream) - 1, ClientFallsSilent(n)
      PROVE  PlaceInv'
  <2>a. peer' = "silent" /\ stream' = SubSeq(stream, 1, n) /\ UNCHANGED <<buf, pc>>
    BY <1>2 DEF ClientFallsSilent
  <2>b. buf \in Seq(Nat) /\ stream \in Seq(Nat) /\ n \in 0 .. Len(stream)
    BY DEF TypeInv, InputOK, TransportOK
  <2> DEFINE a == SubSeq(stream, 1, n)
             b == SubSeq(stream, n + 1, Len(stream))
  <2>c. a \in Seq(Nat) /\ b \in Seq(Nat) /\ stream = a \o b
    BY <2>b, CutType
  <2>d. stream' = a /\ buf' = buf
    BY <2>a
  <2> HIDE DEF a, b
  <2> DEFINE w == buf \o a
  <2>e. w \in Seq(Nat) /\ buf \o stream = w \o b
    <3>1. w \in Seq(Nat)
      BY <2>b, <2>c, ConcatProperties, Zenon
    <3>2. buf \o (a \o b) = (buf \o a) \o b
      <4>1. buf \in Seq(Nat) /\ a \in Seq(Nat) /\ b \in Seq(Nat)
        BY <2>b, <2>c
      <4>. QED BY <4>1, Assoc, ZenonT(30)
    <3>. QED BY <2>c, <3>1, <3>2
  <2> HIDE DEF w
  <2>f. Begins(w, w \o b)
    BY <2>c, <2>e, BeginsJoined
  <2>g. buf' \o stream' = w
    BY <2>d DEF w
  <2>. QED BY <1>0, <2>a, <2>e, <2>f, <2>g, PlaceCut
<1>. QED BY <1>1, <1>2 DEF SilentStep

(* A message was added behind the others. *)
LEMMA PlaceMore ==
  ASSUME TypeInv, PlaceInv, TypeInv', UNCHANGED <<peer, buf, pc, handled, mode, script>>,
         NEW msg \in Seq(Nat), Written(msg), whole' => whole,
         NEW n \in Nat, n <= Len(pending), carried' = carried + n,
         mode.v2 /\ whole' => Boundary(carried + n),
         Len(msg) >= 2, msg[1] \in {HEADER, GARBLED}, Carries(msg, said, carried, n)
  PROVE  PlaceInv'
<1>1. PICK off : Located(off)
  BY DEF PlaceInv
<1>2. said' = said
  BY DEF said
<1>3. \A i : Boundary(i)' <=> Boundary(i)
  BY DEF Boundary
<1>4. /\ peer = "open" /\ pc # "done" /\ stream' = stream \o msg
      /\ buf \in Seq(Nat) /\ stream \in Seq(Nat)
  BY DEF Written, TypeInv, InputOK, TransportOK
<1> DEFINE w == buf \o stream
<1>5. w \in Seq(Nat) /\ buf' \o stream' = w \o msg
  <2>a. w \in Seq(Nat)
    BY <1>4, ConcatProperties, Zenon
  <2>b. buf \o (stream \o msg) = w \o msg
    BY <1>4, Assoc, ZenonT(30)
  <2>. QED BY <1>4, <2>a, <2>b
<1>6. Len(said) \in Nat /\ carried \in Nat /\ carried + n <= Len(said)
  BY SaidType DEF TypeInv, PendingInv, carried
<1>7. InPlace(off, w, said) /\ Ends(off, Len(w), carried)
  BY <1>1, <1>4 DEF Located
<1> HIDE DEF w
<1>8. PICK off2 : MorePlaces(off, off2, w, msg, said, carried, n)
  BY <1>5, <1>6, <1>7, InPlaceMore
<1>9. off2[1] = handled'
  BY <1>1, <1>8 DEF Located, MorePlaces
<1>10. mode'.v2 /\ whole' => \A p \in DOMAIN off2 : Boundary(off2[p])
  BY <1>1, <1>8 DEF Located, MorePlaces
<1>11. Located(off2)'
  BY <1>2, <1>3, <1>5, <1>8, <1>9, <1>10 DEF Located, MorePlaces
<1>. QED BY <1>11 DEF PlaceInv

(* A WRTE carries the next words of what is to be said. *)
LEMMA PlaceWrites ==
  ASSUME TypeInv, PlaceInv, NEW n \in 0 .. Len(pending), ClientWrites(n)
  PROVE  PlaceInv'
<1>1. TypeInv'
  BY WriteTypes
<1> DEFINE data == SubSeq(pending, 1, n)
           rest == SubSeq(pending, n + 1, Len(pending))
           h == <<HEADER, n>>
           msg == h \o data
<1>2. /\ pending \in Seq(Nat) /\ Len(pending) \in Nat /\ n \in Nat /\ n <= Len(pending)
      /\ Len(pending) <= Len(said) /\ Len(said) \in Nat /\ carried \in Nat
      /\ \A i \in 1 .. Len(pending) : pending[i] = said[carried + i]
  BY SaidType DEF TypeInv, PendingInv, carried
<1>3. /\ data \in Seq(Nat) /\ Len(data) = n /\ \A i \in 1 .. n : data[i] = pending[i]
      /\ rest \in Seq(Nat) /\ Len(rest) = Len(pending) - n
  BY <1>2, CutType
<1>4. h \in Seq(Nat) /\ Len(h) = 2 /\ h[1] = HEADER /\ h[2] = n
  BY <1>2 DEF HEADER
<1>5. Message(HEADER, data) = msg
  BY <1>3 DEF Message
<1> HIDE DEF h, data, rest
<1>6. /\ msg \in Seq(Nat) /\ Len(msg) = 2 + n
      /\ \A i \in 1 .. 2 : msg[i] = h[i]
      /\ \A i \in 1 .. n : msg[2 + i] = data[i]
  <2>a. /\ h \o data \in Seq(Nat) /\ Len(h \o data) = Len(h) + Len(data)
        /\ \A i \in 1 .. Len(h) : (h \o data)[i] = h[i]
        /\ \A i \in 1 .. Len(data) : (h \o data)[Len(h) + i] = data[i]
    BY <1>3, <1>4, Joined
  <2>. QED BY <1>3, <1>4, <2>a
<1>7. msg[1] = HEADER /\ msg[2] = n
  <2>a. 1 \in 1 .. 2 /\ 2 \in 1 .. 2
    OBVIOUS
  <2>. QED BY <2>a, <1>4, <1>6
<1>8. Carries(msg, said, carried, n)
  <2>a. \A j \in 1 .. n : msg[2 + j] = said[carried + j]
    <3> SUFFICES ASSUME NEW j \in 1 .. n PROVE msg[2 + j] = said[carried + j]
      OBVIOUS
    <3>1. j \in 1 .. Len(pending)
      BY <1>2
    <3>. QED BY <3>1, <1>2, <1>3, <1>6
  <2>. QED BY <2>a, <1>6, <1>7 DEF Carries
<1>9. /\ Written(Message(HEADER, data)) /\ pending' = rest
      /\ whole' = (whole /\ EndsFrame(n))
      /\ UNCHANGED <<shell, work, script, handled, lost>>
  BY DEF ClientWrites, data, rest
<1>10. UNCHANGED <<peer, buf, pc, handled, mode, script>> /\ (whole' => whole)
  BY <1>9 DEF Written, shell
<1> HIDE DEF msg
<1>11. carried' = carried + n
  <2>a. said' = said
    BY <1>10 DEF said
  <2>b. Len(pending') = Len(pending) - n
    BY <1>3, <1>9
  <2>c. carried' = Len(said) - (Len(pending) - n)
    BY <2>a, <2>b DEF carried
  <2>d. carried = Len(said) - Len(pending)
    BY DEF carried
  <2>. QED BY <2>c, <2>d, <1>2
<1>12. ASSUME mode.v2, whole' PROVE Boundary(carried + n)
  <2>a. PICK k \in 0 .. Len(script) : Len(WordsOf(SubSeq(script, k + 1, Len(script)))) = Len(pending) - n
    BY <1>9, <1>12 DEF EndsFrame
  <2>b. Len(WordsOf(SubSeq(script, k + 1, Len(script)))) = Len(said) - Mark(mode, script, k)
    BY WordsOfFirst DEF TypeInv, ScriptInv, said
  <2>c. Mark(mode, script, k) \in Nat
    BY PiecesType DEF TypeInv, ScriptInv
  <2>d. carried = Len(said) - Len(pending)
    BY DEF carried
  <2>e. Mark(mode, script, k) = carried + n
    <3>1. Len(said) - Mark(mode, script, k) = Len(pending) - n
      BY <2>a, <2>b
    <3>2. Len(said) \in Nat /\ Len(pending) \in Nat /\ n \in Nat
      BY <1>2
    <3>. QED BY <2>c, <2>d, <3>1, <3>2
  <2>. QED BY <2>e DEF Boundary
<1>13. Written(msg)
  BY <1>5, <1>9
<1>14. Len(msg) >= 2 /\ msg[1] \in {HEADER, GARBLED}
  BY <1>2, <1>6, <1>7
<1>. QED BY <1>1, <1>2, <1>6, <1>8, <1>10, <1>11, <1>12, <1>13, <1>14, PlaceMore

(* A garbled header carries none, and nothing is found behind it. *)
LEMMA PlaceGarbles ==
  ASSUME TypeInv, PlaceInv, ClientGarbles
  PROVE  PlaceInv'
<1>0. MaxPayload \in Nat
  BY MaxPayloadAssumption
<1>1. TypeInv'
  BY GarbleTypes
<1>2. PICK msg \in {<<GARBLED, 0>>, <<HEADER, MaxPayload + 1>>} : Written(msg)
  BY DEF ClientGarbles
<1>3. msg \in Seq(Nat) /\ Len(msg) = 2 /\ msg[1] \in {HEADER, GARBLED}
      /\ ~(msg[1] = HEADER /\ msg[2] <= MaxPayload)
  <2>a. <<GARBLED, 0>> \in Seq(Nat) /\ <<HEADER, MaxPayload + 1>> \in Seq(Nat)
    BY <1>0 DEF GARBLED, HEADER
  <2>b. CASE msg = <<GARBLED, 0>>
    BY <2>a, <2>b DEF GARBLED, HEADER
  <2>c. CASE msg = <<HEADER, MaxPayload + 1>>
    BY <1>0, <2>a, <2>c
  <2>. QED BY <2>b, <2>c
<1>4. Carries(msg, said, carried, 0)
  BY <1>3 DEF Carries
<1>5. /\ UNCHANGED <<peer, buf, pc, handled, mode, script, pending, whole>>
  BY <1>2 DEF ClientGarbles, Written, shell, client
<1>6. carried \in Nat /\ Len(pending) \in Nat /\ carried' = carried
  BY <1>5, SaidType DEF TypeInv, PendingInv, carried, said
<1>7. ASSUME mode.v2, whole' PROVE Boundary(carried + 0)
  <2>a. PICK off : Located(off)
    BY DEF PlaceInv
  <2>b. peer = "open" /\ pc # "done"
    BY <1>2 DEF Written
  <2>c. Ends(off, Len(buf \o stream), carried) /\ \A p \in DOMAIN off : Boundary(off[p])
    BY <1>5, <1>7, <2>a, <2>b DEF Located
  <2>d. Boundary(carried)
    BY <2>c DEF Ends
  <2>. QED BY <1>6, <2>d
<1>8. carried' = carried + 0 /\ 0 <= Len(pending) /\ 0 \in Nat /\ Len(msg) >= 2
  BY <1>3, <1>6
<1>. QED BY <1>1, <1>2, <1>3, <1>4, <1>5, <1>7, <1>8, PlaceMore

(* A WRTE that was handled is gone, with its words. *)
LEMMA PlaceDone ==
  ASSUME TypeInv, PlaceInv, WrteDone
  PROVE  PlaceInv'
<1>1. /\ pc = "apply" /\ pc' = "peek" /\ buf' = <<>>
      /\ handled' = handled + data_length /\ data_length \in Nat
      /\ UNCHANGED <<peer, stream, mode, script, pending, whole>>
  BY DoneTypes DEF shell, client
<1>2. PICK off : Located(off)
  BY DEF PlaceInv
<1>3. said' = said /\ carried' = carried
  BY <1>1 DEF said, carried
<1>4. \A i : Boundary(i)' <=> Boundary(i)
  BY <1>1 DEF Boundary
<1>5. /\ buf \in Seq(Nat) /\ stream \in Seq(Nat) /\ Len(said) \in Nat
      /\ Len(buf) >= 2 /\ buf[1] = HEADER /\ buf[2] <= MaxPayload /\ Len(buf) = 2 + buf[2]
  BY <1>1, SaidType DEF TypeInv, InputOK, TransportOK, PcInv
<1>6. PICK off2 : NextPlaces(off, off2, buf, stream, said)
  BY <1>2, <1>5, InPlaceNext DEF Located
<1>7. buf' \o stream' = stream
  BY <1>1, <1>5
<1>8. off2[1] = handled'
  BY <1>1, <1>2, <1>6 DEF NextPlaces, Located, data_length
<1>9. mode'.v2 /\ whole' => \A p \in DOMAIN off2 : Boundary(off2[p])
  BY <1>1, <1>2, <1>6 DEF NextPlaces, Located
<1>10. peer' = "open" /\ pc' # "done" => Ends(off2, Len(stream), carried)
  BY <1>1, <1>2, <1>6 DEF NextPlaces, Located
<1>11. InPlace(off2, stream, said)
  BY <1>6 DEF NextPlaces
<1>12. Located(off2)'
  BY <1>3, <1>4, <1>7, <1>8, <1>9, <1>10, <1>11 DEF Located
<1>. QED BY <1>12 DEF PlaceInv

(* What holds of the message that is there, when all of it is. *)
LEMMA DataInPlace ==
  ASSUME TypeInv, PlaceInv, pc \in {"handle", "apply", "write"}
  PROVE  /\ handled + data_length <= Len(said)
         /\ \A i \in 1 .. data_length : buf[2 + i] = said[handled + i]
         /\ mode.v2 /\ whole => Boundary(handled + data_length)
<1>1. PICK off : Located(off)
  BY DEF PlaceInv
<1>2. /\ data_length \in Nat /\ buf \in Seq(Nat) /\ Len(buf) = 2 + data_length
      /\ buf[1] = HEADER /\ data_length <= MaxPayload
  BY DataType
<1>3. stream \in Seq(Nat)
  BY DEF TypeInv, InputOK, TransportOK
<1> DEFINE w == buf \o stream
<1>4. /\ Len(w) = Len(buf) + Len(stream) /\ \A i \in 1 .. Len(buf) : w[i] = buf[i]
      /\ Len(stream) \in Nat
  <2>a. /\ Len(buf \o stream) = Len(buf) + Len(stream)
        /\ \A i \in 1 .. Len(buf) : (buf \o stream)[i] = buf[i]
    BY <1>2, <1>3, Joined
  <2>b. Len(stream) \in Nat
    BY <1>3
  <2>. QED BY <2>a, <2>b
<1>5. InPlace(off, w, said) /\ off[1] = handled
  BY <1>1 DEF Located
<1> HIDE DEF w
<1>6. w[1] = HEADER /\ w[2] = data_length
  <2>a. 1 \in 1 .. Len(buf) /\ 2 \in 1 .. Len(buf)
    BY <1>2
  <2>. QED BY <1>2, <1>4, <2>a DEF data_length
<1>7. Valid(w, 1)
  BY <1>2, <1>4, <1>6 DEF Valid
<1>8. /\ 1 + 2 + w[1 + 1] \in DOMAIN off
      /\ off[1 + 2 + w[1 + 1]] = off[1] + w[1 + 1]
      /\ off[1 + 2 + w[1 + 1]] \in 0 .. Len(said)
      /\ \A j \in 1 .. w[1 + 1] : 1 + 1 + j <= Len(w) => w[1 + 1 + j] = said[off[1] + j]
  BY <1>5, <1>7 DEF InPlace
<1>9. w[1 + 1] = data_length
  BY <1>6
<1>10. handled + data_length <= Len(said)
  BY <1>5, <1>8, <1>9, SaidType DEF TypeInv
<1>11. ASSUME NEW i \in 1 .. data_length PROVE buf[2 + i] = said[handled + i]
  <2>a. 2 + i \in 1 .. Len(buf) /\ 1 + 1 + i = 2 + i /\ 2 + i <= Len(w)
    BY <1>2, <1>4
  <2>b. w[1 + 1 + i] = said[handled + i]
    BY <1>5, <1>8, <1>9, <2>a
  <2>. QED BY <1>4, <2>a, <2>b
<1>12. mode.v2 /\ whole => Boundary(handled + data_length)
  BY <1>1, <1>5, <1>8, <1>9 DEF Located
<1>. QED BY <1>10, <1>11, <1>12

--------------------------------
(* What the shell was given. *)

(* How many words of what is said the handler has taken from WRTEs. *)
Taken == IF pc \in {"apply", "write"} THEN handled + data_length - Len(todo) ELSE handled

(* The rest of a WRTE are the words that come next. *)
TodoInv ==
    /\ pc \in {"apply", "write"} =>
          Len(todo) <= data_length /\ \A i \in 1 .. Len(todo) : todo[i] = said[Taken + i]
    /\ pc # "write" => payload = <<>>

(* What the shell got, and what write_stdin holds of the frame it got last. *)
given == fed \o payload

(* The shell was given what the first k frames mean. *)
FramesGiven(k) ==
    /\ session => Mark(mode, script, k) = Taken
    /\ session /\ ~lost => MeantFirst(mode, script, k) = [fed |-> given, winsize |-> winsize]
    /\ Embeds(given, MeantFirst(mode, script, k).fed)

(* A v1 shell was given the first n words. *)
WordsGiven(n) ==
    /\ session => n = Taken
    /\ session /\ ~lost => given = SubSeq(said, 1, n)
    /\ Embeds(given, SubSeq(said, 1, n))

(* One of these holds, of a k or n that the handler has come to. *)
GivenInv ==
    /\ mode.v2 /\ whole => \E k \in 0 .. Len(script) : FramesGiven(k)
    /\ ~mode.v2 => \E n \in 0 .. Len(said) : WordsGiven(n)

(* The inductive invariant. *)
IInv == TypeInv /\ PlaceInv /\ TodoInv /\ GivenInv

(* How far the handler has come in what the client says. *)
LEMMA TakenType ==
  ASSUME TypeInv, TodoInv
  PROVE  /\ Taken \in Nat /\ todo \in Seq(Nat) /\ Len(todo) \in Nat
         /\ pc \in {"apply", "write"} =>
               data_length \in Nat /\ Taken + Len(todo) = handled + data_length
<1>1. todo \in Seq(Nat) /\ Len(todo) \in Nat /\ handled \in Nat
  BY DEF TypeInv, InputOK
<1>2. CASE pc \in {"apply", "write"}
  <2>a. data_length \in Nat
    BY <1>2, DataType
  <2>b. Len(todo) <= data_length /\ Taken = handled + data_length - Len(todo)
    BY <1>2 DEF TodoInv, Taken
  <2>. QED BY <1>1, <1>2, <2>a, <2>b
<1>3. CASE pc \notin {"apply", "write"}
  BY <1>1, <1>3 DEF Taken
<1>. QED BY <1>2, <1>3

(* Nothing was given, and nothing taken from a WRTE. *)
LEMMA GivenKept ==
  ASSUME GivenInv, UNCHANGED <<mode, script, winsize, lost>>, Taken' = Taken,
         given' = given, session' => session, whole' => whole
  PROVE  GivenInv'
<1>1. said' = said
  BY DEF said
<1>2. \A k : FramesGiven(k) => FramesGiven(k)'
  BY DEF FramesGiven
<1>3. \A n : WordsGiven(n) => WordsGiven(n)'
  BY <1>1 DEF WordsGiven
<1>. QED BY <1>1, <1>2, <1>3 DEF GivenInv

(* A step that is not of the handler at a WRTE. *)
LEMMA Elsewhere ==
  ASSUME IInv, UNCHANGED <<mode, script, winsize, lost, handled, todo, payload, fed>>,
         pc' \in {"apply", "write"} \/ pc \in {"apply", "write"} => UNCHANGED <<pc, buf>>,
         session' => session, whole' => whole
  PROVE  TodoInv' /\ GivenInv'
<1>1. Taken' = Taken /\ said' = said /\ given' = given
  BY DEF Taken, said, given, data_length
<1>2. TodoInv'
  BY <1>1 DEF IInv, TodoInv, data_length
<1>3. GivenInv'
  BY <1>1, GivenKept DEF IInv
<1>. QED BY <1>2, <1>3

(* A WRTE of whole frames, when k of them are behind the handler. *)
LEMMA AtFrame ==
  ASSUME IInv, pc = "apply", mode.v2, whole, todo # <<>>,
         NEW k \in 0 .. Len(script), Mark(mode, script, k) = Taken
  PROVE  /\ k \in 0 .. Len(script) - 1 /\ k + 1 \in 0 .. Len(script)
         /\ TypedFrame(mode, script[k + 1])
         /\ Parses
         /\ frame_id = script[k + 1].id
         /\ frame_length = Len(script[k + 1].data)
         /\ frame_data = script[k + 1].data
         /\ Mark(mode, script, k + 1) = Taken + 2 + frame_length
<1>0. TypeInv /\ PlaceInv /\ TodoInv /\ TypedScript(mode, script) /\ Len(script) \in Nat
  BY SaidType DEF IInv, TypeInv, ScriptInv
<1>1. /\ Taken \in Nat /\ todo \in Seq(Nat) /\ Len(todo) \in Nat
      /\ Taken + Len(todo) = handled + data_length
  BY <1>0, TakenType
<1>2. Len(todo) > 0
  BY <1>1
<1>3. PICK k2 \in 0 .. Len(script) : Mark(mode, script, k2) = handled + data_length
  BY <1>0, DataInPlace DEF Boundary
<1>4. Mark(mode, script, k) < Mark(mode, script, k2)
  BY <1>1, <1>2, <1>3
<1>5. k < k2
  BY <1>0, <1>4, MarksGrow
<1>6. k \in 0 .. Len(script) - 1 /\ k + 1 \in 0 .. Len(script) /\ k + 1 \in 1 .. Len(script) /\ k + 1 <= k2
  BY <1>0, <1>5
<1> DEFINE f == script[k + 1]
           word == WordIn(mode, f)
<1>7. TypedFrame(mode, f)
  BY <1>0, <1>6 DEF TypedScript
<1>8. /\ word \in Seq(Nat) /\ Len(f.data) \in Nat /\ f.data \in Seq(Nat)
      /\ Len(word) = 2 + Len(f.data) /\ word[1] = f.id /\ word[2] = Len(f.data)
      /\ \A i \in 1 .. Len(f.data) : word[2 + i] = f.data[i]
  <2>a. f.data \in Seq(Nat)
    BY <1>7 DEF TypedFrame
  <2> HIDE DEF f
  <2>b. /\ word \in Seq(Nat) /\ Len(f.data) \in Nat
        /\ Len(word) = 2 + Len(f.data) /\ word[1] = f.id /\ word[2] = Len(f.data)
        /\ \A i \in 1 .. Len(f.data) : word[2 + i] = f.data[i]
    BY <1>7, WordType
  <2>. QED BY <2>a, <2>b
<1>9. /\ Mark(mode, script, k + 1) = Taken + Len(word)
      /\ \A i \in 1 .. Len(word) : said[Taken + i] = word[i]
  BY <1>0, <1>6, NextFrame DEF said
<1> HIDE DEF f, word
<1>10. Mark(mode, script, k + 1) <= Mark(mode, script, k2)
  <2>a. Mark(mode, script, k + 1) \in Nat /\ Mark(mode, script, k2) \in Nat
    BY <1>0, <1>6, PiecesType
  <2>b. ~(Mark(mode, script, k2) < Mark(mode, script, k + 1))
    <3>1. ~(k2 < k + 1)
      BY <1>6
    <3>. QED BY <1>0, <1>6, <3>1, MarksGrow
  <2>. QED BY <2>a, <2>b
<1>11. Len(word) <= Len(todo)
  <2>a. Len(word) \in Nat
    BY <1>8
  <2>b. Taken + Len(word) <= Taken + Len(todo)
    BY <1>1, <1>3, <1>9, <1>10
  <2>. QED BY <1>1, <2>a, <2>b
<1>12. \A i \in 1 .. Len(word) : todo[i] = word[i]
  <2> SUFFICES ASSUME NEW i \in 1 .. Len(word) PROVE todo[i] = word[i]
    OBVIOUS
  <2>a. i \in 1 .. Len(todo)
    BY <1>1, <1>8, <1>11
  <2>b. todo[i] = said[Taken + i]
    BY <1>0, <2>a DEF TodoInv
  <2>. QED BY <1>9, <2>b
<1>13. todo[1] = f.id /\ todo[2] = Len(f.data)
  <2>a. 1 \in 1 .. Len(word) /\ 2 \in 1 .. Len(word)
    BY <1>8
  <2>. QED BY <1>8, <1>12, <2>a
<1>14. f.id \in KnownIds
  BY <1>7 DEF TypedFrame, KnownIds, Stdin, CloseStdin, WindowSizeChange
<1>15. Parses
  BY <1>1, <1>8, <1>11, <1>13, <1>14 DEF Parses, frame_id, frame_length
<1>16. frame_data = f.data
  <2>a. /\ frame_data \in Seq(Nat) /\ Len(frame_data) = frame_length
        /\ \A i \in 1 .. frame_length : frame_data[i] = todo[2 + i]
    BY <1>0, <1>15, ParsedType
  <2>b. frame_length = Len(f.data)
    BY <1>13 DEF frame_length
  <2>c. \A i \in 1 .. Len(f.data) : frame_data[i] = f.data[i]
    <3> SUFFICES ASSUME NEW i \in 1 .. Len(f.data) PROVE frame_data[i] = f.data[i]
      OBVIOUS
    <3>1. 2 + i \in 1 .. Len(word)
      BY <1>8
    <3>. QED BY <1>8, <1>12, <2>a, <2>b, <3>1
  <2>. QED BY <1>8, <2>a, <2>b, <2>c, SeqEqual
<1>17. frame_id = f.id /\ frame_length = Len(f.data)
  BY <1>13 DEF frame_id, frame_length
<1>18. Mark(mode, script, k + 1) = Taken + 2 + frame_length
  <2>a. Len(word) = 2 + frame_length /\ frame_length \in Nat
    BY <1>8, <1>17
  <2>b. Mark(mode, script, k + 1) = Taken + Len(word) /\ Taken \in Nat
    BY <1>1, <1>9
  <2>. QED BY <2>a, <2>b
<1>. QED BY <1>6, <1>7, <1>15, <1>16, <1>17, <1>18 DEF f

(* What the shell was given are words. *)
LEMMA FedType ==
  ASSUME TypeInv
  PROVE  fed \in Seq(Nat) /\ payload \in Seq(Nat) /\ given \in Seq(Nat)
<1>1. fed \in Seq(Nat) /\ payload \in Seq(Nat)
  BY DEF TypeInv, InputOK
<1>. QED BY <1>1, Joined DEF given

(* The data of a WRTE is where the handler has come to in what the client says. *)
LEMMA AcknowledgeKeeps ==
  ASSUME IInv, Acknowledge
  PROVE  TodoInv' /\ GivenInv'
<1>1. /\ pc = "handle" /\ pc' = "apply" /\ todo' = SubSeq(buf, 3, Len(buf))
      /\ UNCHANGED <<buf, mode, session, fed, winsize, payload, script, whole, handled, lost>>
  BY DEF Acknowledge, net, shell, client
<1>2. /\ data_length \in Nat /\ buf \in Seq(Nat) /\ Len(buf) = 2 + data_length
  BY <1>1, DataType DEF IInv
<1>3. handled \in Nat /\ \A i \in 1 .. data_length : buf[2 + i] = said[handled + i]
  BY <1>1, DataInPlace DEF IInv, TypeInv, InputOK
<1>4. Len(todo') = data_length /\ \A i \in 1 .. data_length : todo'[i] = buf[2 + i]
  <2>a. 2 \in 0 .. Len(buf) /\ 2 + 1 = 3 /\ Len(buf) - 2 = data_length
    BY <1>2
  <2>b. /\ Len(SubSeq(buf, 2 + 1, Len(buf))) = Len(buf) - 2
        /\ \A i \in 1 .. Len(buf) - 2 : SubSeq(buf, 2 + 1, Len(buf))[i] = buf[2 + i]
    BY <1>2, <2>a, CutType
  <2>. QED BY <1>1, <2>a, <2>b
<1>5. Taken = handled /\ data_length' = data_length
  BY <1>1 DEF Taken, data_length
<1>6. Taken' = handled
  <2>a. Taken' = handled + data_length - Len(todo')
    BY <1>1, <1>5 DEF Taken
  <2>. QED BY <1>2, <1>3, <1>4, <2>a
<1>7. said' = said /\ given' = given
  BY <1>1 DEF said, given
<1>8. TodoInv'
  BY <1>1, <1>2, <1>3, <1>4, <1>5, <1>6, <1>7 DEF IInv, TodoInv
<1>9. GivenInv'
  BY <1>1, <1>5, <1>6, <1>7, GivenKept DEF IInv
<1>. QED BY <1>8, <1>9

(* A frame that is parsed, as far as the place in the WRTE goes. *)
LEMMA ParsedMoves ==
  ASSUME IInv, NEW id, Parsed(id)
  PROVE  /\ Taken' = Taken + 2 + frame_length \/ pc' \notin {"apply", "write"}
         /\ pc' \in {"apply", "write"} =>
               Len(todo') <= data_length' /\ \A i \in 1 .. Len(todo') : todo'[i] = said'[Taken' + i]
         /\ pc = "apply" /\ session /\ mode.v2 /\ Parses /\ frame_id = id
         /\ frame_length \in Nat
         /\ payload = <<>> /\ said' = said
         /\ UNCHANGED <<mode, session, alive, fed, script, whole, handled, lost>>
<1>1. /\ pc = "apply" /\ session /\ mode.v2 /\ Parses /\ frame_id = id
      /\ todo' = SubSeq(todo, (2 + frame_length) + 1, Len(todo))
      /\ UNCHANGED <<buf, mode, session, alive, fed, script, whole, handled, lost>>
  BY DEF Parsed, Consume, net, client
<1>2. /\ todo \in Seq(Nat) /\ frame_length \in Nat /\ 2 + frame_length <= Len(todo)
  BY <1>1, ParsedType DEF IInv
<1>3. /\ Taken \in Nat /\ Len(todo) \in Nat /\ data_length \in Nat /\ handled \in Nat
      /\ Taken + Len(todo) = handled + data_length
      /\ Len(todo) <= data_length /\ \A i \in 1 .. Len(todo) : todo[i] = said[Taken + i]
  BY <1>1, TakenType DEF IInv, TodoInv, TypeInv, InputOK
<1> DEFINE m == 2 + frame_length
<1>4. m \in 0 .. Len(todo) /\ m \in Nat
  BY <1>2, <1>3
<1>5. todo' = SubSeq(todo, m + 1, Len(todo))
  BY <1>1
<1> HIDE DEF m
<1>6. Len(todo') = Len(todo) - m /\ \A i \in 1 .. Len(todo) - m : todo'[i] = todo[m + i]
  BY <1>2, <1>4, <1>5, CutType
<1>7. said' = said /\ data_length' = data_length /\ handled' = handled
  BY <1>1 DEF said, data_length
<1>8. ASSUME pc' \in {"apply", "write"} PROVE Taken' = Taken + m
  <2>a. Taken' = handled + data_length - (Len(todo) - m)
    BY <1>6, <1>7, <1>8 DEF Taken
  <2>b. Taken = handled + data_length - Len(todo)
    BY <1>1 DEF Taken
  <2>c. handled \in Nat /\ data_length \in Nat /\ Len(todo) \in Nat
    BY <1>3
  <2>. QED BY <2>a, <2>b, <2>c, <1>4
<1>9. ASSUME pc' \in {"apply", "write"}, NEW i \in 1 .. Len(todo') PROVE todo'[i] = said'[Taken' + i]
  <2>a. i \in 1 .. Len(todo) - m /\ m + i \in 1 .. Len(todo)
    BY <1>3, <1>4, <1>6
  <2>b. Taken' + i = Taken + (m + i)
    <3>1. Taken \in Nat
      BY <1>3
    <3>. QED BY <1>4, <1>8, <1>9, <2>a, <3>1
  <2>. QED BY <1>3, <1>6, <1>7, <2>a, <2>b
<1>10. Len(todo') <= data_length'
  <2>a. Len(todo) <= data_length /\ data_length \in Nat /\ Len(todo) \in Nat
    BY <1>3
  <2>. QED BY <1>4, <1>6, <1>7, <2>a
<1>11. payload = <<>>
  BY <1>1 DEF IInv, TodoInv
<1>12. Taken + m = Taken + 2 + frame_length
  <2>a. Taken \in Nat /\ frame_length \in Nat
    BY <1>2, <1>3
  <2>. QED BY <2>a DEF m
<1>. QED BY <1>1, <1>2, <1>7, <1>8, <1>9, <1>10, <1>11, <1>12

(* What a frame adds to what is given is what the client meant by it. *)
LEMMA ParsedKeeps ==
  ASSUME IInv, NEW id, Parsed(id), pc' \in {"apply", "write"},
         NEW data \in Seq(Nat), given' = given \o data,
         data = IF id = Stdin THEN frame_data ELSE <<>>,
         winsize' = IF id = WindowSizeChange /\ mode.pty /\ frame_length >= 2
                    THEN SubSeq(frame_data, 1, 2) ELSE winsize
  PROVE  GivenInv'
<1>1. /\ Taken' = Taken + 2 + frame_length
      /\ pc = "apply" /\ session /\ mode.v2 /\ Parses /\ frame_id = id
      /\ UNCHANGED <<mode, session, alive, fed, script, whole, handled, lost>>
  BY ParsedMoves
<1>2. SUFFICES ASSUME whole PROVE (\E k \in 0 .. Len(script) : FramesGiven(k))'
  BY <1>1 DEF GivenInv
<1>3. PICK k \in 0 .. Len(script) : FramesGiven(k)
  BY <1>1, <1>2 DEF IInv, GivenInv
<1>4. Mark(mode, script, k) = Taken
  BY <1>1, <1>3 DEF FramesGiven
<1>5. todo # <<>>
  BY <1>1 DEF Parses
<1> DEFINE f == script[k + 1]
<1>6. /\ k \in 0 .. Len(script) - 1 /\ k + 1 \in 0 .. Len(script)
      /\ TypedFrame(mode, f) /\ id = f.id
      /\ frame_length = Len(f.data) /\ frame_data = f.data
      /\ Mark(mode, script, k + 1) = Taken'
  BY <1>1, <1>2, <1>4, <1>5, AtFrame
<1> DEFINE M == MeantFirst(mode, script, k)
           M2 == MeantFirst(mode, script, k + 1)
<1>7. M \in Meanings /\ M2 = TakingIn(mode, M, f)
  BY <1>3, <1>6, MeantType, MeantFirstGrows DEF IInv, TypeInv, ScriptInv
<1>8. session /\ ~lost => M = [fed |-> given, winsize |-> winsize]
  BY <1>3 DEF FramesGiven
<1>9. Embeds(given, M.fed)
  BY <1>3 DEF FramesGiven
<1>10. k + 1 \in 0 .. Len(script')
  BY <1>1, <1>6
<1>11. SUFFICES /\ session /\ ~lost => M2 = [fed |-> given', winsize |-> winsize']
                /\ Embeds(given', M2.fed)
  <2> HIDE DEF f
  <2>a. M2' = M2
    BY <1>1
  <2>. QED BY <1>1, <1>6, <1>10, <2>a DEF FramesGiven
<1>12. /\ M.fed \in Seq(Nat) /\ M.winsize \in Seq(Nat) /\ given \in Seq(Nat)
       /\ M = [fed |-> M.fed, winsize |-> M.winsize]
  BY <1>7, FedType DEF Meanings, IInv
<1> HIDE DEF M, M2, f
<1>20. session /\ ~lost => M.fed = given /\ M.winsize = winsize
  BY <1>8
<1>13. CASE id = Stdin
  <2>a. M2 = [M EXCEPT !.fed = @ \o f.data] /\ data = f.data /\ winsize' = winsize
    BY <1>6, <1>7, <1>13 DEF TakingIn, Stdin, WindowSizeChange
  <2>b. M2 = [fed |-> M.fed \o data, winsize |-> M.winsize]
    BY <2>a, <1>12
  <2>c. Embeds(given \o data, M.fed \o data)
    BY <1>9, <1>12, EmbedsBoth
  <2>d. session /\ ~lost => M2 = [fed |-> given', winsize |-> winsize']
    BY <1>20, <2>a, <2>b
  <2>e. M2.fed = M.fed \o data
    BY <2>b
  <2>. QED BY <2>c, <2>d, <2>e
<1>14. CASE id # Stdin
  <2>a. data = <<>> /\ given' = given
    BY <1>12, <1>14
  <2>b. CASE id = WindowSizeChange /\ mode.pty /\ frame_length >= 2
    <3>1. M2 = [M EXCEPT !.winsize = f.data]
      BY <1>6, <1>7, <1>14, <2>b DEF TakingIn
    <3>2. M2 = [fed |-> M.fed, winsize |-> f.data]
      BY <3>1, <1>12
    <3>3. Len(f.data) = 2 /\ f.data \in Seq(Nat)
      BY <1>6, <2>b DEF TypedFrame
    <3>4. SubSeq(f.data, 1, 2) = f.data
      BY <3>3
    <3>5. winsize' = f.data
      BY <1>6, <2>b, <3>4
    <3>6. session /\ ~lost => M2 = [fed |-> given', winsize |-> winsize']
      BY <1>20, <2>a, <3>2, <3>5
    <3>7. M2.fed = M.fed
      BY <3>2
    <3>. QED BY <1>9, <2>a, <3>6, <3>7
  <2>c. CASE ~(id = WindowSizeChange /\ mode.pty /\ frame_length >= 2)
    <3>1. M2 = M /\ winsize' = winsize
      BY <1>6, <1>7, <1>14, <2>c DEF TakingIn
    <3>. QED BY <1>8, <1>9, <2>a, <3>1
  <2>. QED BY <2>b, <2>c
<1>. QED BY <1>13, <1>14

(* A frame was taken off a WRTE: stdin, a window size, or one that is ignored. *)
LEMMA FrameKeeps ==
  ASSUME IInv, StdinFrame \/ WindowFrame \/ IgnoredFrame
  PROVE  TodoInv' /\ GivenInv'
<1>0. fed \in Seq(Nat) /\ payload \in Seq(Nat) /\ given \in Seq(Nat) /\ TypeInv
  BY FedType DEF IInv
<1>1. CASE StdinFrame
  <2>a. Parsed(Stdin) /\ payload' = frame_data /\ pc' = "write" /\ winsize' = winsize
    BY <1>1 DEF StdinFrame
  <2>b. /\ Parses /\ payload = <<>> /\ fed' = fed
        /\ Len(todo') <= data_length' /\ \A i \in 1 .. Len(todo') : todo'[i] = said'[Taken' + i]
    BY <2>a, ParsedMoves
  <2>c. frame_data \in Seq(Nat)
    BY <1>0, <2>b, ParsedType
  <2>d. given = fed
    BY <1>0, <2>b DEF given
  <2>e. given' = given \o frame_data
    BY <2>a, <2>b, <2>d DEF given
  <2>f. GivenInv'
    BY <2>a, <2>c, <2>e, ParsedKeeps DEF Stdin, WindowSizeChange
  <2>g. TodoInv'
    BY <2>a, <2>b DEF TodoInv
  <2>. QED BY <2>f, <2>g
<1>2. ASSUME NEW id, Parsed(id), id # Stdin, UNCHANGED <<payload, pc>>,
             winsize' = IF id = WindowSizeChange /\ mode.pty /\ frame_length >= 2
                        THEN SubSeq(frame_data, 1, 2) ELSE winsize
      PROVE  TodoInv' /\ GivenInv'
  <2>a. /\ pc = "apply" /\ pc' = "apply" /\ payload = <<>> /\ payload' = <<>> /\ fed' = fed
    BY <1>2, ParsedMoves
  <2>b. Len(todo') <= data_length' /\ \A i \in 1 .. Len(todo') : todo'[i] = said'[Taken' + i]
    BY <1>2, <2>a, ParsedMoves
  <2>c. given' = given /\ given \o <<>> = given /\ <<>> \in Seq(Nat)
    BY <1>0, <2>a, EmptySeq DEF given
  <2>d. GivenInv'
    BY <1>2, <2>a, <2>c, ParsedKeeps
  <2>e. TodoInv'
    BY <2>a, <2>b DEF TodoInv
  <2>. QED BY <2>d, <2>e
<1>3. CASE WindowFrame
  BY <1>2, <1>3 DEF WindowFrame, Stdin, WindowSizeChange
<1>4. CASE IgnoredFrame
  <2>a. PICK id \in KnownIds \ {Stdin, WindowSizeChange} : Parsed(id)
    BY <1>4 DEF IgnoredFrame
  <2>. QED BY <1>2, <1>4, <2>a DEF IgnoredFrame
<1>. QED BY <1>1, <1>3, <1>4

(* The data of a WRTE goes to a v1 shell as it is. *)
LEMMA RawKeeps ==
  ASSUME IInv, RawInput
  PROVE  TodoInv' /\ GivenInv'
<1>1. /\ pc = "apply" /\ pc' = "write" /\ session /\ ~mode.v2 /\ payload' = todo /\ todo' = <<>>
      /\ UNCHANGED <<buf, mode, session, fed, winsize, script, whole, handled, lost>>
  BY DEF RawInput, net, shell, client
<1>2. /\ Taken \in Nat /\ todo \in Seq(Nat) /\ Len(todo) \in Nat /\ data_length \in Nat
      /\ Taken + Len(todo) = handled + data_length
      /\ \A i \in 1 .. Len(todo) : todo[i] = said[Taken + i]
      /\ payload = <<>> /\ handled \in Nat
  BY <1>1, TakenType DEF IInv, TodoInv, TypeInv, InputOK
<1>3. said' = said /\ data_length' = data_length
  BY <1>1 DEF said, data_length
<1>4. Taken' = handled + data_length /\ Len(todo') = 0
  <2>a. Taken' = handled + data_length - Len(todo') /\ Len(todo') = 0
    BY <1>1, <1>3 DEF Taken
  <2>b. handled \in Nat /\ data_length \in Nat
    BY <1>2
  <2>. QED BY <2>a, <2>b
<1>5. TodoInv'
  <2>a. data_length' \in Nat
    BY <1>2, <1>3
  <2>. QED BY <1>1, <1>4, <2>a DEF TodoInv
<1>6. said \in Seq(Nat) /\ Len(said) \in Nat /\ fed \in Seq(Nat) /\ given \in Seq(Nat)
  BY SaidType, FedType DEF IInv, TypeInv
<1>7. given = fed /\ given' = fed \o todo
  BY <1>1, <1>2, <1>6 DEF given
<1>8. PICK n \in 0 .. Len(said) : WordsGiven(n)
  BY <1>1 DEF IInv, GivenInv
<1>9. n = Taken /\ (~lost => given = SubSeq(said, 1, n)) /\ Embeds(given, SubSeq(said, 1, n))
  BY <1>1, <1>8 DEF WordsGiven
<1>10. handled + data_length <= Len(said)
  BY <1>1, DataInPlace DEF IInv
<1>11. PICK n2 \in 0 .. Len(said) : n2 = n + Len(todo)
  <2>a. n + Len(todo) \in 0 .. Len(said)
    BY <1>2, <1>6, <1>9, <1>10
  <2>. QED BY <2>a
<1>12. n2 = Taken' /\ n \in Nat /\ n2 \in Nat
  BY <1>2, <1>4, <1>6, <1>9, <1>11
<1> DEFINE a == SubSeq(said, 1, n)
           b == SubSeq(said, 1, n2)
<1>13. b = a \o todo /\ a \in Seq(Nat)
  <2>a. a \in Seq(Nat) /\ Len(a) = n /\ \A i \in 1 .. n : a[i] = said[i]
    BY <1>6, CutType
  <2>b. b \in Seq(Nat) /\ Len(b) = n2 /\ \A i \in 1 .. n2 : b[i] = said[i]
    BY <1>6, <1>12, CutType
  <2> HIDE DEF a, b
  <2>c. /\ a \o todo \in Seq(Nat) /\ Len(a \o todo) = n2
        /\ \A i \in 1 .. n : (a \o todo)[i] = a[i]
        /\ \A i \in 1 .. Len(todo) : (a \o todo)[n + i] = todo[i]
    BY <1>2, <1>11, <1>12, <2>a, Joined
  <2>d. ASSUME NEW i \in 1 .. n2 PROVE b[i] = (a \o todo)[i]
    <3>1. CASE i <= n
      <4>1. i \in 1 .. n
        BY <3>1, <1>11, <1>12
      <4>. QED BY <4>1, <2>a, <2>b, <2>c
    <3>2. CASE ~(i <= n)
      <4> DEFINE d == i - n
      <4>0. Len(todo) \in Nat
        BY <1>2
      <4>1. d \in 1 .. Len(todo) /\ i = n + d
        BY <3>2, <1>11, <1>12, <4>0
      <4> HIDE DEF d
      <4>2. (a \o todo)[n + d] = todo[d]
        BY <2>c, <4>1
      <4>3. todo[d] = said[n + d]
        BY <1>2, <1>9, <4>1
      <4>. QED BY <4>1, <4>2, <4>3, <2>b
    <3>. QED BY <3>1, <3>2
  <2>. QED BY <2>a, <2>b, <2>c, <2>d, SeqEqual
<1> HIDE DEF a, b
<1>14. Embeds(given', b) /\ (~lost => given' = b)
  BY <1>2, <1>6, <1>7, <1>9, <1>13, EmbedsBoth DEF a
<1>15. WordsGiven(n2)'
  <2>a. SubSeq(said', 1, n2) = b
    BY <1>3 DEF b
  <2>. QED BY <1>1, <1>14, <1>12, <2>a DEF WordsGiven
<1>16. GivenInv'
  BY <1>1, <1>3, <1>11, <1>15 DEF GivenInv
<1>. QED BY <1>5, <1>16

(* write_stdin: a part goes from payload to the shell; or the rest is lost. *)
LEMMA WriteKeeps ==
  ASSUME IInv, WriteSome \/ WriteReturns \/ WriteFails
  PROVE  TodoInv' /\ GivenInv'
<1>0. fed \in Seq(Nat) /\ payload \in Seq(Nat) /\ given \in Seq(Nat)
  BY FedType DEF IInv
<1>1. /\ pc = "write" /\ pc' \in {"apply", "write"}
      /\ pc' = "write" \/ payload' = <<>>
      /\ UNCHANGED <<buf, mode, session, winsize, todo, script, whole, handled>>
  BY DEF WriteSome, WriteReturns, WriteFails, net, shell, work, client
<1>2. Taken' = Taken /\ said' = said /\ data_length' = data_length
  BY <1>1 DEF Taken, said, data_length
<1>3. TodoInv'
  BY <1>1, <1>2 DEF IInv, TodoInv
<1>4. CASE WriteSome
  <2>a. PICK n \in 1 .. Len(payload) :
           /\ fed' = fed \o SubSeq(payload, 1, n)
           /\ payload' = SubSeq(payload, n + 1, Len(payload))
    BY <1>4 DEF WriteSome
  <2>b. lost' = lost
    BY <1>4 DEF WriteSome
  <2> DEFINE a == SubSeq(payload, 1, n)
             b == SubSeq(payload, n + 1, Len(payload))
  <2>c. n \in 0 .. Len(payload)
    BY <1>0
  <2>d. a \in Seq(Nat) /\ b \in Seq(Nat) /\ payload = a \o b
    BY <1>0, <2>c, CutType
  <2>e. fed' = fed \o a /\ payload' = b
    BY <2>a
  <2> HIDE DEF a, b
  <2>f. (fed \o a) \o b = fed \o (a \o b)
    <3>1. fed \in Seq(Nat) /\ a \in Seq(Nat) /\ b \in Seq(Nat)
      BY <1>0, <2>d
    <3>. QED BY <3>1, Assoc, ZenonT(30)
  <2>g. given' = given
    BY <2>d, <2>e, <2>f DEF given
  <2>. QED BY <1>1, <1>2, <1>3, <2>b, <2>g, GivenKept DEF IInv
<1>5. CASE WriteReturns
  <2>a. UNCHANGED <<fed, payload, lost>>
    BY <1>5 DEF WriteReturns, shell, work
  <2>b. given' = given
    BY <2>a DEF given
  <2>. QED BY <1>1, <1>2, <1>3, <2>a, <2>b, GivenKept DEF IInv
<1>6. CASE WriteFails
  <2>a. lost' = TRUE /\ fed' = fed /\ payload' = <<>>
    BY <1>6 DEF WriteFails, shell
  <2>b. given' = fed /\ given = fed \o payload
    BY <1>0, <2>a DEF given
  <2>c. ASSUME NEW w \in Seq(Nat), Embeds(given, w) PROVE Embeds(given', w)
    BY <1>0, <2>b, <2>c, EmbedsPart
  <2>d. ASSUME mode.v2, whole PROVE \E k \in 0 .. Len(script) : FramesGiven(k)'
    <3>1. PICK k \in 0 .. Len(script) : FramesGiven(k)
      BY <2>d DEF IInv, GivenInv
    <3>2. MeantFirst(mode, script, k).fed \in Seq(Nat)
      BY MeantType DEF IInv, TypeInv, ScriptInv, Meanings
    <3>3. FramesGiven(k)'
      BY <1>1, <1>2, <2>a, <2>c, <3>1, <3>2 DEF FramesGiven
    <3>. QED BY <3>3
  <2>e. ASSUME ~mode.v2 PROVE \E n \in 0 .. Len(said) : WordsGiven(n)'
    <3>1. PICK n \in 0 .. Len(said) : WordsGiven(n)
      BY <2>e DEF IInv, GivenInv
    <3>2. SubSeq(said, 1, n) \in Seq(Nat)
      BY SaidType, CutType DEF IInv, TypeInv
    <3>3. WordsGiven(n)'
      BY <1>1, <1>2, <2>a, <2>c, <3>1, <3>2 DEF WordsGiven
    <3>. QED BY <3>3
  <2>f. GivenInv'
    BY <1>1, <1>2, <2>d, <2>e DEF GivenInv
  <2>. QED BY <1>3, <2>f
<1>. QED BY <1>4, <1>5, <1>6

(* The arm is over: with whole frames, nothing of the WRTE was left. *)
LEMMA DoneKeeps ==
  ASSUME IInv, WrteDone
  PROVE  TodoInv' /\ GivenInv'
<1>1. /\ pc = "apply" /\ pc' = "peek" /\ todo' = <<>>
      /\ handled' = handled + data_length /\ data_length \in Nat
      /\ UNCHANGED <<mode, session, fed, winsize, payload, script, whole, lost>>
  BY DoneTypes DEF IInv, shell, client
<1>2. ~session \/ todo = <<>> \/ (mode.v2 /\ ~Parses)
  BY DEF WrteDone
<1>3. payload = <<>> /\ said' = said /\ given' = given /\ Taken' = handled + data_length
  BY <1>1 DEF IInv, TodoInv, said, given, Taken
<1>4. TodoInv'
  BY <1>1, <1>3 DEF TodoInv
<1>5. /\ Taken \in Nat /\ todo \in Seq(Nat) /\ Taken + Len(todo) = handled + data_length
  BY <1>1, TakenType DEF IInv
<1>6. todo = <<>> => Taken' = Taken
  <2>a. todo = <<>> => Len(todo) = 0
    OBVIOUS
  <2>. QED BY <1>3, <1>5, <2>a
<1>7. ASSUME mode.v2, whole PROVE \E k \in 0 .. Len(script) : FramesGiven(k)'
  <2>a. PICK k \in 0 .. Len(script) : FramesGiven(k)
    BY <1>7 DEF IInv, GivenInv
  <2>b. ASSUME session PROVE Taken' = Taken
    <3>1. Mark(mode, script, k) = Taken
      BY <2>a, <2>b DEF FramesGiven
    <3>2. todo # <<>> => Parses
      BY <1>1, <1>7, <3>1, AtFrame
    <3>. QED BY <1>2, <1>6, <2>b, <3>2
  <2>c. FramesGiven(k)'
    BY <1>1, <1>3, <2>a, <2>b DEF FramesGiven
  <2>. QED BY <2>c
<1>8. ASSUME ~mode.v2 PROVE \E n \in 0 .. Len(said) : WordsGiven(n)'
  <2>a. PICK n \in 0 .. Len(said) : WordsGiven(n)
    BY <1>8 DEF IInv, GivenInv
  <2>b. session => Taken' = Taken
    BY <1>2, <1>6, <1>8
  <2>c. WordsGiven(n)'
    BY <1>1, <1>3, <2>a, <2>b DEF WordsGiven
  <2>. QED BY <2>c
<1>9. GivenInv'
  BY <1>1, <1>3, <1>7, <1>8 DEF GivenInv
<1>. QED BY <1>4, <1>9

--------------------------------
(* Every step keeps the invariant. *)

(* The invariant holds at the start. *)
LEMMA InitIInv == Init => IInv
<1> SUFFICES ASSUME Init PROVE IInv
  OBVIOUS
<1>1. TypeInv
  BY InitTypes
<1>2. /\ pc = "peek" /\ stream = <<>> /\ buf = <<>> /\ payload = <<>> /\ fed = <<>> /\ winsize = <<>>
      /\ handled = 0 /\ pending = WordsOf(script)
  BY DEF Init, TransportInit
<1>3. said \in Seq(Nat) /\ Len(said) \in Nat /\ Len(script) \in Nat /\ TypedScript(mode, script)
  BY <1>1, SaidType DEF TypeInv, ScriptInv
<1>4. 0 \in 0 .. Len(script) /\ 0 \in 0 .. Len(said)
  BY <1>3
<1>5. Mark(mode, script, 0) = 0
  BY <1>3, Marks
<1>6. carried = 0
  <2>a. pending = said
    BY <1>2, <1>3, <1>4, WordsOfFirst DEF said
  <2>. QED BY <1>3, <2>a DEF carried
<1>7. PlaceInv
  <2>a. PICK off : off = [p \in {1} |-> 0]
    OBVIOUS
  <2>b. buf \o stream = <<>> /\ Len(<<>>) = 0
    BY <1>2
  <2>c. DOMAIN off = {1} /\ off[1] = 0
    BY <2>a
  <2>d. InPlace(off, <<>>, said)
    BY <1>4, <2>b, <2>c DEF InPlace, Valid
  <2>e. Ends(off, 0, 0)
    BY <2>c DEF Ends
  <2>f. Boundary(0)
    BY <1>4, <1>5 DEF Boundary
  <2>g. Located(off)
    BY <1>2, <1>6, <2>b, <2>c, <2>d, <2>e, <2>f DEF Located
  <2>. QED BY <2>g DEF PlaceInv
<1>8. TodoInv
  BY <1>2 DEF TodoInv
<1>9. Taken = 0 /\ given = <<>>
  BY <1>2 DEF Taken, given
<1>10. FramesGiven(0)
  <2>a. MeantFirst(mode, script, 0) = [fed |-> <<>>, winsize |-> <<>>]
    BY MeantFirstNone DEF Nothing
  <2>b. Embeds(<<>>, <<>>)
    BY EmbedsNone, EmptySeq
  <2>. QED BY <1>2, <1>5, <1>9, <2>a, <2>b DEF FramesGiven
<1>11. WordsGiven(0)
  <2>a. SubSeq(said, 1, 0) = <<>>
    BY <1>3
  <2>b. Embeds(<<>>, <<>>)
    BY EmbedsNone, EmptySeq
  <2>. QED BY <1>9, <2>a, <2>b DEF WordsGiven
<1>12. GivenInv
  BY <1>4, <1>10, <1>11 DEF GivenInv
<1>. QED BY <1>1, <1>7, <1>8, <1>12 DEF IInv

(* The client keeps it, whatever it writes or however it goes, *)
LEMMA ClientIInv == IInv /\ Client => IInv'
<1> SUFFICES ASSUME IInv, Client PROVE IInv'
  OBVIOUS
<1>0. TypeInv /\ PlaceInv
  BY DEF IInv
<1>1. ASSUME NEW n \in 0 .. Len(pending), ClientWrites(n) PROVE IInv'
  <2>a. TypeInv' /\ PlaceInv'
    BY <1>0, <1>1, WriteTypes, PlaceWrites
  <2>b. UNCHANGED <<mode, script, winsize, lost, handled, todo, payload, fed, session, pc, buf>> /\ (whole' => whole)
    BY <1>1 DEF ClientWrites, Written, shell, work
  <2>c. TodoInv' /\ GivenInv'
    BY <2>b, Elsewhere
  <2>. QED BY <2>a, <2>c DEF IInv
<1>2. CASE ClientGarbles
  <2>a. TypeInv' /\ PlaceInv'
    BY <1>0, <1>2, GarbleTypes, PlaceGarbles
  <2>b. UNCHANGED <<mode, script, winsize, lost, handled, todo, payload, fed, session, pc, buf, whole>>
    BY <1>2 DEF ClientGarbles, Written, shell, work, client
  <2>c. TodoInv' /\ GivenInv'
    BY <2>b, Elsewhere
  <2>. QED BY <2>a, <2>c DEF IInv
<1>3. CASE SilentStep /\ UNCHANGED <<shell, work, client, handled, lost>>
  <2>a. TypeInv' /\ PlaceInv'
    BY <1>0, <1>3, SilentTypes, PlaceSilent
  <2>b. UNCHANGED <<mode, script, winsize, lost, handled, todo, payload, fed, session, pc, buf, whole>>
    BY <1>3 DEF SilentStep, ClientHangsUp, ClientFallsSilent, shell, work, client
  <2>c. TodoInv' /\ GivenInv'
    BY <2>b, Elsewhere
  <2>. QED BY <2>a, <2>c DEF IInv
<1>. QED BY <1>1, <1>2, <1>3 DEF Client, SilentStep

(* every read keeps it, however the bytes arrive, *)
LEMMA ReceiveIInv == IInv /\ Receive /\ UNCHANGED <<shell, work, client, handled, lost>> => IInv'
<1> SUFFICES ASSUME IInv, Receive, UNCHANGED <<shell, work, client, handled, lost>> PROVE IInv'
  OBVIOUS
<1>0. TypeInv /\ PlaceInv
  BY DEF IInv
<1>1. UNCHANGED <<mode, script, pending, winsize, lost, handled, todo, payload, fed, session, whole>>
  BY DEF shell, work, client
<1>2. ASSUME NEW n \in 1 .. Len(stream), ReadSome(n) PROVE IInv'
  <2>a. TypeInv' /\ buf' \o stream' = buf \o stream
    BY <1>0, <1>2, ReadTypes
  <2>b. UNCHANGED <<peer, pc>> /\ pc \notin {"apply", "write"}
    BY <1>2 DEF ReadSome, Reading
  <2>c. PlaceInv'
    BY <1>0, <1>1, <2>a, <2>b, PlaceRead
  <2>d. TodoInv' /\ GivenInv'
    BY <1>1, <2>b, Elsewhere
  <2>. QED BY <2>a, <2>c, <2>d DEF IInv
<1>3. CASE Onward
  <2>a. TypeInv' /\ pc # "done" /\ pc' # "done" /\ UNCHANGED net
    BY <1>0, <1>3, OnwardTypes
  <2>b. pc \notin {"apply", "write"} /\ pc' \notin {"apply", "write"} /\ UNCHANGED <<peer, buf, stream>>
    BY <1>3, <2>a DEF Onward, PeekData, HeaderOnly, HeaderThenData, HasData, HasHeader, net
  <2>c. PlaceInv'
    BY <1>0, <1>1, <2>a, <2>b, PlaceKept
  <2>d. TodoInv' /\ GivenInv'
    BY <1>1, <2>b, Elsewhere
  <2>. QED BY <2>a, <2>c, <2>d DEF IInv
<1>4. CASE Ending
  <2>a. TypeInv' /\ pc \notin {"handle", "apply", "write"} /\ Stop
    BY <1>0, <1>4, EndingTypes
  <2>b. PlaceInv'
    BY <1>0, <1>1, <2>a, PlaceStopped
  <2>c. pc' = "done"
    BY <2>a DEF Stop
  <2>d. TodoInv' /\ GivenInv'
    BY <1>1, <2>a, <2>c, Elsewhere
  <2>. QED BY <2>a, <2>b, <2>d DEF IInv
<1>. QED BY <1>2, <1>3, <1>4 DEF Receive, Onward, Ending

(* every step of the handler within a WRTE keeps it, *)
LEMMA HandleIInv == IInv /\ Handle => IInv'
<1> SUFFICES ASSUME IInv, Handle PROVE IInv'
  OBVIOUS
<1>0. TypeInv /\ PlaceInv
  BY DEF IInv
<1>1. CASE WrteDone
  <2>a. TypeInv' /\ PlaceInv'
    BY <1>0, <1>1, DoneTypes, PlaceDone
  <2>. QED BY <1>1, <2>a, DoneKeeps DEF IInv
<1>2. CASE Working
  <2>a. /\ TypeInv' /\ UNCHANGED <<net, client, handled>>
        /\ pc \in {"handle", "apply", "write"} /\ pc' \in {"handle", "apply", "write"}
    BY <1>0, <1>2, WorkingTypes
  <2>b. UNCHANGED <<peer, buf, stream, script, pending, whole, mode>>
    <3>1. UNCHANGED mode
      BY <1>0, <1>2, WorkingTypes
    <3>. QED BY <2>a, <3>1 DEF net, client
  <2>c. PlaceInv'
    BY <1>0, <2>a, <2>b, PlaceKept
  <2>d. TodoInv' /\ GivenInv'
    BY <1>2, AcknowledgeKeeps, FrameKeeps, RawKeeps, WriteKeeps DEF Working
  <2>. QED BY <2>a, <2>c, <2>d DEF IInv
<1>. QED BY <1>1, <1>2 DEF Handle, Working

(* and what the shell and the poll of its exit do. *)
LEMMA ApartIInv == IInv /\ Apart => IInv'
<1> SUFFICES ASSUME IInv, Apart PROVE IInv'
  OBVIOUS
<1>0. TypeInv /\ PlaceInv
  BY DEF IInv
<1>1. /\ TypeInv' /\ UNCHANGED <<net, pc, mode, fed, winsize, work, client, handled, lost>>
      /\ session' => session
  BY <1>0, ApartTypes
<1>2. UNCHANGED <<peer, buf, stream, script, pending, whole, todo, payload>>
  BY <1>1 DEF net, client, work
<1>3. PlaceInv'
  BY <1>0, <1>1, <1>2, PlaceKept
<1>4. TodoInv' /\ GivenInv'
  BY <1>1, <1>2, Elsewhere
<1>. QED BY <1>1, <1>3, <1>4 DEF IInv

(* It is about these variables alone. *)
LEMMA StutterIInv == IInv /\ UNCHANGED vars => IInv'
<1> SUFFICES ASSUME IInv, UNCHANGED vars PROVE IInv'
  OBVIOUS
<1>1. UNCHANGED <<peer, stream, buf, pc, mode, session, alive, fed, unread, winsize>>
      /\ UNCHANGED <<todo, payload, script, pending, whole, handled, lost>>
  BY DEF vars, net, shell, work, client
<1>2. TypeInv'
  <2>a. InputOK'
    BY <1>1 DEF IInv, TypeInv, InputOK, TransportOK, data_length
  <2>b. ScriptInv' /\ PendingInv'
    BY <1>1, ScriptKept DEF IInv
  <2>c. PcInv'
    BY <1>1 DEF IInv, TypeInv, PcInv
  <2>. QED BY <2>a, <2>b, <2>c DEF TypeInv
<1>3. PlaceInv'
  BY <1>1, PlaceKept DEF IInv
<1>4. TodoInv' /\ GivenInv'
  BY <1>1, Elsewhere
<1>. QED BY <1>2, <1>3, <1>4 DEF IInv

(* So it is inductive. *)
LEMMA NextIInv == IInv /\ [Next]_vars => IInv'
<1>1. IInv /\ Next => IInv'
  BY ClientIInv, ReceiveIInv, HandleIInv, ApartIInv DEF Next, Handler, Apart
<1>. QED BY <1>1, StutterIInv

(* The inductive invariant: the types; where in the stream messages start, and *)
(* how much of what the client says lies before each; how far the handler has  *)
(* come in that; and that what it gave the shell so far is what this far was   *)
(* meant.                                                                      *)
THEOREM InputInvariant == Spec => []IInv
<1>. QED BY InitIInv, NextIInv, PTL DEF Spec

--------------------------------
(* What follows from it. *)

(* The place of the handler, when it peeks, is a place where a message starts. *)
LEMMA AtStart == IInv => AtMessageStart
<1> SUFFICES ASSUME IInv, pc = "peek", stream # <<>>
             PROVE  stream[1] \in {HEADER, GARBLED}
  BY DEF AtMessageStart
<1>1. PICK off : Located(off)
  BY DEF IInv, PlaceInv
<1>2. buf = <<>> /\ stream \in Seq(Nat)
  BY DEF IInv, TypeInv, PcInv, InputOK, TransportOK
<1>3. buf \o stream = stream /\ 1 <= Len(stream)
  BY <1>2
<1>. QED BY <1>1, <1>3 DEF Located, InPlace

(* Between two messages nothing is under way: what was given is what was typed. *)
LEMMA AsTyped == IInv => InputAsTyped
<1> SUFFICES ASSUME IInv, Between, session, ~lost
             PROVE  IF mode.v2
                    THEN whole => \E k \in 0 .. Len(script) :
                                     /\ Len(WordsOf(SubSeq(script, 1, k))) = handled
                                     /\ Meant(SubSeq(script, 1, k)) = [fed |-> fed, winsize |-> winsize]
                    ELSE fed = SubSeq(WordsOf(script), 1, handled)
  BY DEF InputAsTyped
<1>1. TypedScript(mode, script) /\ Len(script) \in Nat /\ fed \in Seq(Nat)
  BY SaidType, FedType DEF IInv, TypeInv, ScriptInv
<1>2. pc \notin {"apply", "write"}
  BY DEF Between, Reading
<1>3. Taken = handled /\ given = fed
  BY <1>1, <1>2 DEF Taken, IInv, TodoInv, given
<1>4. ASSUME mode.v2, whole
      PROVE  \E k \in 0 .. Len(script) :
                /\ Len(WordsOf(SubSeq(script, 1, k))) = handled
                /\ Meant(SubSeq(script, 1, k)) = [fed |-> fed, winsize |-> winsize]
  <2>a. PICK k \in 0 .. Len(script) : FramesGiven(k)
    BY <1>4 DEF IInv, GivenInv
  <2>b. Len(WordsOf(SubSeq(script, 1, k))) = Mark(mode, script, k)
    BY <1>1, WordsOfFirst DEF Mark
  <2>c. Meant(SubSeq(script, 1, k)) = MeantFirst(mode, script, k)
    BY MeantIsIn DEF MeantFirst
  <2>. QED BY <1>3, <2>a, <2>b, <2>c DEF FramesGiven
<1>5. ASSUME ~mode.v2 PROVE fed = SubSeq(WordsOf(script), 1, handled)
  <2>a. PICK n \in 0 .. Len(said) : WordsGiven(n)
    BY <1>5 DEF IInv, GivenInv
  <2>b. WordsOf(script) = said
    BY <1>1, WordsOfFirst, 0 \in 0 .. Len(script) DEF said
  <2>. QED BY <1>3, <2>a, <2>b DEF WordsGiven
<1>. QED BY <1>4, <1>5

(* Only a stdin frame gives the shell anything. *)
LEMMA TakingFed ==
  ASSUME NEW m, NEW f, f.data \in Seq(Nat), NEW before \in Meanings
  PROVE  TakingIn(m, before, f).fed = IF f.id = Stdin THEN before.fed \o f.data ELSE before.fed
<1> DEFINE longer == before.fed \o f.data
<1>0. "fed" \in DOMAIN before
  BY DEF Meanings
<1>1. [before EXCEPT !.fed = longer].fed = longer
  <2> HIDE DEF longer
  <2>. QED BY <1>0
<1>2. [before EXCEPT !.winsize = f.data].fed = before.fed
  BY <1>0
<1> HIDE DEF longer
<1>3. CASE f.id = Stdin
  <2>a. TakingIn(m, before, f) = [before EXCEPT !.fed = longer]
    <3>1. TakingIn(m, before, f) = [before EXCEPT !.fed = before.fed \o f.data]
      BY <1>3 DEF TakingIn, Stdin, WindowSizeChange
    <3>. QED BY <3>1 DEF longer
  <2>. QED BY <1>1, <1>3, <2>a DEF longer
<1>4. CASE f.id # Stdin
  <2>a. TakingIn(m, before, f) \in {before, [before EXCEPT !.winsize = f.data]}
    BY <1>4 DEF TakingIn
  <2>. QED BY <1>2, <1>4, <2>a
<1>. QED BY <1>3, <1>4

(* What b gives the shell begins with what a does. *)
Continues(b, a) == \E c \in Seq(Nat) : b.fed = a.fed \o c

(* What the first frames mean is where what more of them mean begins. *)
LEMMA MeantBegins ==
  ASSUME NEW m, NEW s, TypedScript(m, s), NEW j \in 0 .. Len(s)
  PROVE  \A d \in Nat : j + d <= Len(s) =>
            Continues(MeantFirst(m, s, j + d), MeantFirst(m, s, j))
<1> DEFINE P == {d \in Nat : j + d <= Len(s) => Continues(MeantFirst(m, s, j + d), MeantFirst(m, s, j))}
<1>0. Len(s) \in Nat /\ j \in Nat
  BY PiecesType
<1>1. 0 \in P
  <2>a. MeantFirst(m, s, j).fed \in Seq(Nat) /\ j + 0 = j
    BY <1>0, MeantType DEF Meanings
  <2>b. MeantFirst(m, s, j).fed = MeantFirst(m, s, j).fed \o <<>>
    BY <2>a
  <2>. QED BY <2>a, <2>b, EmptySeq DEF Continues
<1>2. ASSUME NEW d \in Nat, d \in P
      PROVE  d + 1 \in P
  <2> SUFFICES ASSUME j + (d + 1) <= Len(s)
               PROVE  Continues(MeantFirst(m, s, j + (d + 1)), MeantFirst(m, s, j))
    OBVIOUS
  <2>a. /\ j + d \in 0 .. Len(s) - 1 /\ j + d \in 0 .. Len(s) /\ j + d + 1 \in 1 .. Len(s)
        /\ j + (d + 1) = (j + d) + 1 /\ j + d <= Len(s)
    BY <1>0
  <2>b. PICK c \in Seq(Nat) : MeantFirst(m, s, j + d).fed = MeantFirst(m, s, j).fed \o c
    BY <1>2, <2>a DEF Continues
  <2> DEFINE f == s[(j + d) + 1]
             a == MeantFirst(m, s, j).fed
             b == MeantFirst(m, s, j + d)
  <2>c. f.data \in Seq(Nat) /\ a \in Seq(Nat) /\ b \in Meanings
    <3>1. TypedFrame(m, f)
      BY <2>a DEF TypedScript
    <3>2. MeantFirst(m, s, j) \in Meanings /\ b \in Meanings
      BY <2>a, MeantType
    <3>. QED BY <3>1, <3>2 DEF TypedFrame, Meanings
  <2>d. MeantFirst(m, s, (j + d) + 1) = TakingIn(m, b, f)
    BY <2>a, MeantFirstGrows
  <2>e. TakingIn(m, b, f).fed = b.fed \o f.data \/ TakingIn(m, b, f).fed = b.fed
    <3> HIDE DEF b, f
    <3>. QED BY <2>c, TakingFed
  <2>f. b.fed = a \o c
    BY <2>b
  <2>g. MeantFirst(m, s, j + (d + 1)) = TakingIn(m, b, f)
    BY <2>a, <2>d
  <2> HIDE DEF a, b, f
  <2>h. (a \o c) \o f.data = a \o (c \o f.data) /\ c \o f.data \in Seq(Nat)
    <3>1. c \in Seq(Nat) /\ a \in Seq(Nat) /\ f.data \in Seq(Nat)
      BY <2>b, <2>c
    <3>2. (a \o c) \o f.data = a \o (c \o f.data)
      BY <3>1, Assoc, ZenonT(30)
    <3>3. c \o f.data \in Seq(Nat)
      BY <3>1, ConcatProperties, Zenon
    <3>. QED BY <3>2, <3>3
  <2>i. \E c2 \in Seq(Nat) : TakingIn(m, b, f).fed = a \o c2
    <3>1. CASE TakingIn(m, b, f).fed = b.fed \o f.data
      BY <2>f, <2>h, <3>1
    <3>2. CASE TakingIn(m, b, f).fed = b.fed
      BY <2>b, <2>f, <3>2
    <3>. QED BY <2>e, <3>1, <3>2
  <2>. QED BY <2>g, <2>i DEF a, Continues
<1>3. \A d \in Nat : d \in P
  <2> HIDE DEF P
  <2>. QED BY <1>1, <1>2, AllNat
<1>. QED BY <1>3

(* A client of v1 means what it says. *)
LEMMA MeantSays ==
  ASSUME NEW m, NEW s, TypedScript(m, s), ~m.v2
  PROVE  MeantFirst(m, s, Len(s)).fed = Said(m, s)
<1> DEFINE P == {k \in Nat : k <= Len(s) => MeantFirst(m, s, k).fed = First(m, s, k)}
<1>0. Len(s) \in Nat
  BY PiecesType
<1>1. 0 \in P
  BY MeantFirstNone, Marks DEF Nothing
<1>2. ASSUME NEW k \in Nat, k \in P
      PROVE  k + 1 \in P
  <2> SUFFICES ASSUME k + 1 <= Len(s)
               PROVE  MeantFirst(m, s, k + 1).fed = First(m, s, k + 1)
    OBVIOUS
  <2>a. k \in 0 .. Len(s) - 1 /\ k \in 0 .. Len(s) /\ k + 1 \in 1 .. Len(s)
    BY <1>0
  <2> DEFINE f == s[k + 1]
             b == MeantFirst(m, s, k)
  <2>b. f.id = Stdin
    BY <2>a DEF TypedScript, TypedFrame
  <2>c. MeantFirst(m, s, k + 1) = TakingIn(m, b, f)
    BY <2>a, MeantFirstGrows
  <2>d. First(m, s, k + 1) = First(m, s, k) \o f.data
    BY <2>a, FirstGrows DEF WordIn
  <2>e. b \in Meanings /\ b.fed = First(m, s, k)
    BY <1>2, <2>a, MeantType
  <2>g. f.data \in Seq(Nat)
    BY <2>a DEF TypedScript, TypedFrame
  <2> HIDE DEF b, f
  <2>f. TakingIn(m, b, f).fed = b.fed \o f.data
    BY <2>b, <2>e, <2>g, TakingFed
  <2>. QED BY <2>c, <2>d, <2>e, <2>f
<1>3. \A k \in Nat : k \in P
  <2> HIDE DEF P
  <2>. QED BY <1>1, <1>2, AllNat
<1>. QED BY <1>0, <1>3 DEF Said

(* What was given is found, in order, in what was typed. *)
LEMMA NotInvented == IInv => NothingInvented
<1> SUFFICES ASSUME IInv, whole \/ ~mode.v2
             PROVE  Embeds(fed, Meant(script).fed)
  BY DEF NothingInvented, Embeds
<1>1. /\ TypedScript(mode, script) /\ Len(script) \in Nat /\ said \in Seq(Nat) /\ Len(said) \in Nat
      /\ fed \in Seq(Nat) /\ payload \in Seq(Nat)
  BY SaidType, FedType DEF IInv, TypeInv, ScriptInv
<1> DEFINE all == MeantFirst(mode, script, Len(script)).fed
<1>2. Meant(script).fed = all
  <2>a. PICK S : script \in Seq(S)
    BY <1>1 DEF TypedScript
  <2>b. SubSeq(script, 1, Len(script)) = script
    BY <2>a
  <2>. QED BY <2>b, MeantIsIn DEF MeantFirst
<1>3. \E b \in Seq(Nat), c \in Seq(Nat) : Embeds(given, b) /\ all = b \o c
  <2>a. CASE mode.v2
    <3>1. PICK k \in 0 .. Len(script) : FramesGiven(k)
      BY <2>a DEF IInv, GivenInv
    <3>2. Len(script) - k \in Nat /\ k + (Len(script) - k) = Len(script)
      BY <1>1
    <3>3. MeantFirst(mode, script, k).fed \in Seq(Nat)
      BY <1>1, MeantType DEF Meanings
    <3>4. PICK c \in Seq(Nat) : all = MeantFirst(mode, script, k).fed \o c
      <4>1. \A d \in Nat : k + d <= Len(script) =>
               Continues(MeantFirst(mode, script, k + d), MeantFirst(mode, script, k))
        BY <1>1, MeantBegins
      <4> DEFINE d == Len(script) - k
      <4>2. d \in Nat /\ k + d = Len(script) /\ k + d <= Len(script)
        BY <1>1, <3>2
      <4> HIDE DEF d
      <4>3. Continues(MeantFirst(mode, script, k + d), MeantFirst(mode, script, k))
        BY <4>1, <4>2
      <4>. QED BY <4>2, <4>3 DEF Continues
    <3>. QED BY <3>1, <3>3, <3>4 DEF FramesGiven
  <2>b. CASE ~mode.v2
    <3>1. PICK n \in 0 .. Len(said) : WordsGiven(n)
      BY <2>b DEF IInv, GivenInv
    <3>2. all = said
      BY <1>1, <2>b, MeantSays DEF said
    <3> DEFINE b == SubSeq(said, 1, n)
               c == SubSeq(said, n + 1, Len(said))
    <3>3. b \in Seq(Nat) /\ c \in Seq(Nat) /\ said = b \o c
      BY <1>1, CutType
    <3>4. Embeds(given, b)
      BY <3>1 DEF WordsGiven
    <3> HIDE DEF b, c, all
    <3>. QED BY <3>2, <3>3, <3>4
  <2>. QED BY <2>a, <2>b
<1> HIDE DEF all
<1>4. PICK b \in Seq(Nat), c \in Seq(Nat) : Embeds(given, b) /\ all = b \o c
  BY <1>3
<1>5. Embeds(fed, b)
  BY <1>1, <1>4, EmbedsPart DEF given
<1>. QED BY <1>1, <1>2, <1>4, <1>5, EmbedsInMore

(* Every variable keeps its type, for any session, any keys, any pipe: what  *)
(* read_message has in its buffer, and the rest of a WRTE behind offset, are *)
(* words that were sent.                                                     *)
THEOREM InputTypes == Spec => []InputOK
<1>1. IInv => InputOK
  BY DEF IInv, TypeInv
<1>. QED BY <1>1, InputInvariant, PTL

(* However the network cuts the stream, handle_connection peeks only where a    *)
(* message starts: no read takes a word of the next message, and a message that *)
(* breaks off, or has a bad header, ends the connection.                        *)
THEOREM AlwaysAtMessageStart == Spec => []AtMessageStart
  BY AtStart, InputInvariant, PTL

(* Between two messages the shell has been given exactly what the frames handled *)
(* so far mean (for v1, the words), as long as no write to stdin failed and, for *)
(* v2, no frame was cut by a WRTE: for any number of frames of any length, any   *)
(* cutting into WRTEs and pieces and any capacity of the pipe.                   *)
THEOREM TypedIsGiven == Spec => []InputAsTyped
  BY AsTyped, InputInvariant, PTL

(* What write_stdin gave the shell is, at any time, found in order in what was *)
(* typed, whatever was lost to a full pipe, a shell that ended or a connection *)
(* that broke: no word twice, none out of order, none that nobody typed.       *)
THEOREM NothingElseGiven == Spec => []NothingInvented
  BY NotInvented, InputInvariant, PTL

================================
