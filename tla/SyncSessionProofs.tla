-------- MODULE SyncSessionProofs --------
(***************************************************************************)
(* SyncTypeOK, AnswersAsAsked and FilesAsPushed of SyncSession, for any    *)
(* paths, contents and time stamps and any number of requests.             *)
(*                                                                         *)
(* The invariant behind them says where the session is in the words that   *)
(* the client's script is sent in: after so many whole requests (Between), *)
(* inside a push whose file is empty (PushStarted) or written              *)
(* (PushWritten), or inside one that is refused (Refusing).  What is in    *)
(* the buffer and on its way is then a part of the script's words, and     *)
(* answers and files are those of the requests that are done with.         *)
(***************************************************************************)
EXTENDS SyncSession, SequenceLemmas, FiniteSetTheorems

--------------------------------
(* What a script means.  FoldLeft is a fold over sets of indices; here it is *)
(* shown to take the requests one by one.                                    *)

(* What there is before the first request. *)
Start == [replies |-> <<>>, files |-> [p \in {} |-> <<>>]]

(* What a sequence of requests means, and what the first n of a script do. *)
MeantBy(seq) == FoldLeft(Serving, Start, seq)
MeantIn(s, n) == MeantBy(SubSeq(s, 1, n))

(* Meant of the module is MeantIn of the script. *)
LEMMA MeantIsIn == ASSUME NEW n PROVE Meant(n) = MeantIn(script, n)
  BY DEF Meant, MeantIn, MeantBy, Start

(* One step of the fold that FoldLeft is defined by, over sets of indices. *)
Step(seq, it, s) ==
    IF s = {} THEN Start ELSE Serving(it[s \ {Max(s)}], seq[Max(s)])

(* The function MapThenFoldSet chooses, for the sets of the first n indices. *)
IsFold(it, seq, n) == it = [s \in SUBSET (1 .. n) |-> Step(seq, it, s)]

(* What the fold chooses is there, for as many requests as you like. *)
LEMMA FoldExists ==
  ASSUME NEW seq
  PROVE  \A n \in Nat : \E it : IsFold(it, seq, n)
<1> DEFINE P == {n \in Nat : \E it : IsFold(it, seq, n)}
<1>1. 0 \in P
  <2> DEFINE it == [s \in SUBSET (1 .. 0) |-> Start]
  <2>a. \A s \in SUBSET (1 .. 0) : s = {}
    OBVIOUS
  <2>b. it = [s \in SUBSET (1 .. 0) |-> Step(seq, it, s)]
    BY <2>a DEF Step
  <2>c. IsFold(it, seq, 0)
    BY <2>b DEF IsFold
  <2>. QED BY <2>c
<1>2. ASSUME NEW n \in Nat, NEW g, IsFold(g, seq, n)
      PROVE  \E it : IsFold(it, seq, n + 1)
  <2> DEFINE top(s) == Serving(g[s \ {n + 1}], seq[n + 1])
             it == [s \in SUBSET (1 .. n + 1) |-> IF n + 1 \in s THEN top(s) ELSE g[s]]
  <2>a. \A s \in SUBSET (1 .. n) : g[s] = Step(seq, g, s)
    BY <1>2, Zenon DEF IsFold
  <2>b. \A s \in SUBSET (1 .. n) : it[s] = g[s]
    OBVIOUS
  <2>c. ASSUME NEW s \in SUBSET (1 .. n + 1)
        PROVE  it[s] = Step(seq, it, s)
    <3>1. CASE n + 1 \in s
      <4>1. Max(s) = n + 1 /\ s \ {n + 1} \in SUBSET (1 .. n)
        BY <3>1, MaxTop
      <4>2. it[s] = top(s)
        BY <3>1
      <4>3. it[s \ {n + 1}] = g[s \ {n + 1}]
        BY <4>1, <2>b
      <4> HIDE DEF it
      <4>. QED BY <3>1, <4>1, <4>2, <4>3 DEF Step
    <3>2. CASE n + 1 \notin s
      <4>1. s \in SUBSET (1 .. n)
        BY <3>2
      <4>2. s # {} => s \ {Max(s)} \in SUBSET (1 .. n)
        BY <4>1
      <4>3. s # {} => it[s \ {Max(s)}] = g[s \ {Max(s)}]
        BY <4>2, <2>b
      <4>4. it[s] = Step(seq, g, s)
        BY <2>a, <2>b, <4>1
      <4> HIDE DEF it
      <4>. QED BY <4>3, <4>4 DEF Step
    <3>. QED BY <3>1, <3>2
  <2>d. it = [s \in SUBSET (1 .. n + 1) |-> Step(seq, it, s)]
    <3> DEFINE k == [s \in SUBSET (1 .. n + 1) |-> Step(seq, it, s)]
    <3>1. \A s \in SUBSET (1 .. n + 1) : it[s] = k[s]
      <4>1. \A s \in SUBSET (1 .. n + 1) : k[s] = Step(seq, it, s)
        <5> HIDE DEF it
        <5>. QED OBVIOUS
      <4> HIDE DEF it, k
      <4>. QED BY <2>c, <4>1
    <3>2. it = k
      BY <3>1
    <3>. QED BY <3>2
  <2>e. IsFold(it, seq, n + 1)
    <3> HIDE DEF it
    <3>. QED BY <2>d DEF IsFold
  <2>. QED BY <2>e
<1>3. \A n \in Nat : n \in P
  <2>a. ASSUME NEW n \in Nat, n \in P
        PROVE  n + 1 \in P
    <3>1. PICK g : IsFold(g, seq, n)
      BY <2>a
    <3>2. \E it : IsFold(it, seq, n + 1)
      BY <1>2, <3>1
    <3>. QED BY <3>2
  <2> HIDE DEF P
  <2>. QED BY <1>1, <2>a, AllNat
<1>. QED BY <1>3

(* And FoldLeft is that function at all the indices. *)
LEMMA MeantDef ==
  ASSUME NEW n \in Nat, NEW seq, DOMAIN seq = 1 .. n
  PROVE  \E it : IsFold(it, seq, n) /\ MeantBy(seq) = it[1 .. n]
<1>1. PICK it : it = CHOOSE x : IsFold(x, seq, n)
  OBVIOUS
<1>2. IsFold(it, seq, n)
  BY <1>1, FoldExists
<1>3. MeantBy(seq) = it[1 .. n]
  BY <1>1 DEF MeantBy, FoldLeft, MapThenFoldSet, IsFold, Step
<1>. QED BY <1>2, <1>3

(* The fold takes the requests in their order, one after the other. *)
LEMMA FoldStep ==
  ASSUME NEW seq, NEW n \in Nat, NEW it, IsFold(it, seq, n),
         NEW j \in 0 .. n - 1
  PROVE  it[1 .. j + 1] = Serving(it[1 .. j], seq[j + 1])
<1> DEFINE s == 1 .. j + 1
<1>1. Max(s) = j + 1
  BY MaxTop, j \in Nat, j + 1 \in s, s \in SUBSET s
<1>2. s # {} /\ s \ {j + 1} = 1 .. j
  OBVIOUS
<1>3. s \in SUBSET (1 .. n)
  OBVIOUS
<1>4. it[s] = Step(seq, it, s)
  <2> HIDE DEF s
  <2>. QED BY <1>3, Zenon DEF IsFold
<1> HIDE DEF s
<1>5. it[s] = Serving(it[1 .. j], seq[j + 1])
  BY <1>1, <1>2, <1>4 DEF Step
<1>. QED BY <1>5 DEF s

(* It starts with nothing. *)
LEMMA FoldNone ==
  ASSUME NEW seq, NEW n \in Nat, NEW it, IsFold(it, seq, n)
  PROVE  it[1 .. 0] = Start
<1>1. 1 .. 0 = {} /\ {} \in SUBSET (1 .. n)
  OBVIOUS
<1>2. it[{}] = Step(seq, it, {})
  BY <1>1, Zenon DEF IsFold
<1>. QED BY <1>1, <1>2 DEF Step

(* No requests leave things as they were. *)
LEMMA MeantByNone ==
  ASSUME NEW seq, DOMAIN seq = 1 .. 0
  PROVE  MeantBy(seq) = Start
<1>1. PICK it : IsFold(it, seq, 0) /\ MeantBy(seq) = it[1 .. 0]
  BY MeantDef, 0 \in Nat
<1>. QED BY <1>1, FoldNone, 0 \in Nat

(* What a longer script means is what the shorter one does and then its last request. *)
LEMMA MeantByMore ==
  ASSUME NEW k \in Nat, NEW seq, NEW seq2,
         DOMAIN seq = 1 .. k, DOMAIN seq2 = 1 .. k + 1, \A i \in 1 .. k : seq2[i] = seq[i]
  PROVE  MeantBy(seq2) = Serving(MeantBy(seq), seq2[k + 1])
<1>1. PICK g : IsFold(g, seq, k) /\ MeantBy(seq) = g[1 .. k]
  BY MeantDef
<1>2. k + 1 \in Nat
  OBVIOUS
<1>3. PICK h : IsFold(h, seq2, k + 1) /\ MeantBy(seq2) = h[1 .. k + 1]
  BY <1>2, MeantDef
<1> DEFINE P == {j \in Nat : j <= k => h[1 .. j] = g[1 .. j]}
<1>4. 0 \in P
  <2>a. h[1 .. 0] = g[1 .. 0]
    BY <1>1, <1>2, <1>3, FoldNone
  <2>. QED BY <2>a
<1>5. ASSUME NEW j \in Nat, j \in P
      PROVE  j + 1 \in P
  <2> SUFFICES ASSUME j + 1 <= k
               PROVE  h[1 .. j + 1] = g[1 .. j + 1]
    OBVIOUS
  <2>a. h[1 .. j + 1] = Serving(h[1 .. j], seq2[j + 1])
    <3>1. PICK n \in Nat : n = k + 1
      BY <1>2
    <3>2. IsFold(h, seq2, n) /\ j \in 0 .. n - 1
      BY <1>3, <3>1
    <3>. QED BY <3>2, FoldStep
  <2>b. g[1 .. j + 1] = Serving(g[1 .. j], seq[j + 1])
    BY <1>1, FoldStep, j \in 0 .. k - 1
  <2>c. h[1 .. j] = g[1 .. j] /\ seq2[j + 1] = seq[j + 1]
    BY <1>5
  <2>. QED BY <2>a, <2>b, <2>c
<1>6. \A j \in Nat : j \in P
  <2> HIDE DEF P
  <2>. QED BY <1>4, <1>5, AllNat
<1>7. h[1 .. k] = g[1 .. k]
  BY <1>6
<1>8. h[1 .. k + 1] = Serving(h[1 .. k], seq2[k + 1])
  BY <1>2, <1>3, FoldStep, k \in 0 .. (k + 1) - 1
<1>. QED BY <1>1, <1>3, <1>7, <1>8

(* The first k of a script. *)
LEMMA FirstRequests ==
  ASSUME NEW S, NEW s \in Seq(S), NEW k \in 0 .. Len(s)
  PROVE  DOMAIN SubSeq(s, 1, k) = 1 .. k /\ \A i \in 1 .. k : SubSeq(s, 1, k)[i] = s[i]
  OBVIOUS

(* No requests leave things as they were. *)
LEMMA MeantNone ==
  ASSUME NEW S, NEW s \in Seq(S)
  PROVE  MeantIn(s, 0) = Start
<1>1. DOMAIN SubSeq(s, 1, 0) = 1 .. 0
  BY FirstRequests, 0 \in 0 .. Len(s)
<1>. QED BY <1>1, MeantByNone DEF MeantIn

(* One request more. *)
LEMMA MeantGrows ==
  ASSUME NEW S, NEW s \in Seq(S), NEW k \in 0 .. Len(s) - 1
  PROVE  MeantIn(s, k + 1) = Serving(MeantIn(s, k), s[k + 1])
<1> DEFINE a == SubSeq(s, 1, k)
           b == SubSeq(s, 1, k + 1)
<1>1. k \in Nat /\ k \in 0 .. Len(s) /\ k + 1 \in 0 .. Len(s) /\ k + 1 \in 1 .. k + 1
  OBVIOUS
<1>2. DOMAIN a = 1 .. k /\ \A i \in 1 .. k : a[i] = s[i]
  BY <1>1, FirstRequests
<1>3. DOMAIN b = 1 .. k + 1 /\ \A i \in 1 .. k + 1 : b[i] = s[i]
  BY <1>1, FirstRequests
<1> HIDE DEF a, b
<1>4. \A i \in 1 .. k : b[i] = a[i]
  BY <1>1, <1>2, <1>3
<1>5. MeantBy(b) = Serving(MeantBy(a), b[k + 1])
  BY <1>1, <1>2, <1>3, <1>4, MeantByMore
<1>6. b[k + 1] = s[k + 1]
  BY <1>1, <1>3
<1>. QED BY <1>5, <1>6 DEF MeantIn, a, b

(* A request that is added does not change what those before it mean. *)
LEMMA MeantSame ==
  ASSUME NEW S, NEW s \in Seq(S), NEW q \in S, NEW k \in 0 .. Len(s)
  PROVE  MeantIn(Append(s, q), k) = MeantIn(s, k)
<1>1. SubSeq(Append(s, q), 1, k) = SubSeq(s, 1, k)
  OBVIOUS
<1>. QED BY <1>1 DEF MeantIn

--------------------------------
(* Requests, and the words they are sent in. *)

(* What is known of a request that a client sends. *)
Asked(q) ==
    /\ q.kind \in {"STAT", "RECV", "LIST", "QUIT", "NONE", "SEND", "HALF"}
    /\ q.path \in Nat /\ q.time \in Nat
    /\ q.data \in Seq(Nat)
    /\ q.kind \in {"SEND", "HALF"} => q.path \in Paths
    /\ q.kind = "HALF" => q.path \notin Refused

(* Each request is of one of the kinds, and its fields are of their types. *)
LEMMA RequestAsked ==
  ASSUME NEW q \in Requests PROVE Asked(q)
<1>1. ASSUME NEW p \in Paths, NEW k \in {"STAT", "RECV"}, q = Plain(k, p)
      PROVE  Asked(q)
  BY <1>1, PathsAssumption, EmptySeq DEF Asked, Plain, Request
<1>2. ASSUME NEW k \in {"QUIT", "NONE"}, q = Plain(k, 0)
      PROVE  Asked(q)
  BY <1>2, EmptySeq DEF Asked, Plain, Request
<1>3. ASSUME NEW p \in Paths \cup {Directory}, q = Plain("LIST", p)
      PROVE  Asked(q)
  BY <1>3, PathsAssumption, EmptySeq DEF Asked, Plain, Request, Directory
<1>4. ASSUME NEW p \in Paths, NEW c \in Contents, NEW t \in Times, q = Request("SEND", p, c, t)
      PROVE  Asked(q)
  BY <1>4, PathsAssumption, ContentsAssumption, TimesAssumption DEF Asked, Request
<1>5. ASSUME NEW p \in Paths \ Refused, NEW c \in Contents, q = Request("HALF", p, c, 0)
      PROVE  Asked(q)
  BY <1>5, PathsAssumption, ContentsAssumption DEF Asked, Request
<1>. QED BY <1>1, <1>2, <1>4, <1>5, <1>3 DEF Requests

(* A push in three parts: what opens it, what it carries, and what ends it. *)
HeadPart(q) == <<ID_SEND, 1, q.path>>
DataPart(q) == IF q.data = <<>> THEN <<>> ELSE <<ID_DATA, Len(q.data)>> \o q.data
EndPart(q) == IF q.kind = "SEND" THEN <<ID_DONE, q.time>> ELSE <<>>

IsPush(q) == q.kind \in {"SEND", "HALF"}

(* The three parts are words. *)
LEMMA PartsType ==
  ASSUME NEW q, Asked(q)
  PROVE  /\ HeadPart(q) \in Seq(Nat) /\ DataPart(q) \in Seq(Nat) /\ EndPart(q) \in Seq(Nat)
         /\ Len(HeadPart(q)) = 3 /\ Len(q.data) \in Nat
         /\ q.data = <<>> => DataPart(q) = <<>>
         /\ q.data # <<>> => /\ DataPart(q) = <<ID_DATA, Len(q.data)>> \o q.data
                             /\ Len(DataPart(q)) = 2 + Len(q.data)
                             /\ DataPart(q)[1] = ID_DATA /\ DataPart(q)[2] = Len(q.data)
<1>1. q.data \in Seq(Nat) /\ q.path \in Nat /\ q.time \in Nat /\ Len(q.data) \in Nat
  BY DEF Asked
<1>2. HeadPart(q) \in Seq(Nat) /\ Len(HeadPart(q)) = 3 /\ EndPart(q) \in Seq(Nat)
  BY <1>1, EmptySeq DEF HeadPart, EndPart, ID_SEND, ID_DONE
<1>3. CASE q.data = <<>>
  BY <1>1, <1>2, <1>3 DEF DataPart
<1>4. CASE q.data # <<>>
  <2> DEFINE h == <<ID_DATA, Len(q.data)>>
  <2>a. h \in Seq(Nat) /\ Len(h) = 2 /\ h[1] = ID_DATA /\ h[2] = Len(q.data)
    BY <1>1 DEF ID_DATA
  <2>b. DataPart(q) = h \o q.data
    BY <1>4 DEF DataPart
  <2> HIDE DEF h
  <2>c. /\ h \o q.data \in Seq(Nat) /\ Len(h \o q.data) = Len(h) + Len(q.data)
        /\ \A i \in 1 .. Len(h) : (h \o q.data)[i] = h[i]
    BY <1>1, <2>a, Joined
  <2>d. (h \o q.data)[1] = h[1] /\ (h \o q.data)[2] = h[2]
    BY <2>a, <2>c
  <2>. QED BY <1>1, <1>2, <1>4, <2>a, <2>b, <2>c, <2>d DEF h
<1>. QED BY <1>3, <1>4

(* A push on the wire is its three parts. *)
LEMMA PushWords ==
  ASSUME NEW q, Asked(q), IsPush(q)
  PROVE  Words(q) = HeadPart(q) \o (DataPart(q) \o EndPart(q))
<1>1. HeadPart(q) \in Seq(Nat) /\ DataPart(q) \in Seq(Nat) /\ EndPart(q) \in Seq(Nat)
  BY PartsType
<1>2. CASE q.kind = "SEND"
  <2>a. Words(q) = (HeadPart(q) \o DataPart(q)) \o EndPart(q)
    BY <1>2 DEF Words, HeadPart, DataPart, EndPart
  <2>b. (HeadPart(q) \o DataPart(q)) \o EndPart(q) = HeadPart(q) \o (DataPart(q) \o EndPart(q))
    BY <1>1, Assoc, ZenonT(30)
  <2>. QED BY <2>a, <2>b
<1>3. CASE q.kind = "HALF"
  <2>a. Words(q) = HeadPart(q) \o DataPart(q)
    BY <1>3 DEF Words, HeadPart, DataPart
  <2>b. DataPart(q) \o EndPart(q) = DataPart(q)
    BY <1>1, <1>3 DEF EndPart
  <2>. QED BY <2>a, <2>b
<1>. QED BY <1>2, <1>3 DEF IsPush

(* The word a request opens with. *)
IdOf(kind) ==
    CASE kind = "STAT" -> ID_STAT
      [] kind = "RECV" -> ID_RECV
      [] kind = "LIST" -> ID_LIST
      [] kind = "NONE" -> ID_NONE
      [] kind = "QUIT" -> ID_QUIT
      [] OTHER -> ID_SEND

(* The shortest request is a header; what the others ask for is a path of one word. *)
LEMMA WordsType ==
  ASSUME NEW q, Asked(q)
  PROVE  /\ Words(q) \in Seq(Nat) /\ Len(Words(q)) \in Nat /\ Len(Words(q)) >= 2
         /\ Words(q)[1] = IdOf(q.kind)
         /\ q.kind \in {"NONE", "QUIT"} => Len(Words(q)) = 2 /\ Words(q)[2] = 0
         /\ q.kind \in {"STAT", "RECV", "LIST"} => Len(Words(q)) = 3
         /\ q.kind \notin {"NONE", "QUIT"} =>
                Len(Words(q)) >= 3 /\ Words(q)[2] = 1 /\ Words(q)[3] = q.path
<1>1. q.path \in Nat
  BY DEF Asked
<1>2. CASE q.kind \in {"NONE", "QUIT"}
  <2>a. Words(q) = <<IdOf(q.kind), 0>> /\ IdOf(q.kind) \in Nat
    BY <1>2 DEF Words, IdOf, ID_NONE, ID_QUIT
  <2>. QED BY <1>2, <2>a
<1>3. CASE q.kind \in {"STAT", "RECV", "LIST"}
  <2>a. Words(q) = <<IdOf(q.kind), 1, q.path>> /\ IdOf(q.kind) \in Nat
    BY <1>3 DEF Words, IdOf, ID_STAT, ID_RECV, ID_LIST
  <2>. QED BY <1>1, <1>3, <2>a
<1>4. CASE IsPush(q)
  <2> DEFINE h == HeadPart(q)
             t == DataPart(q) \o EndPart(q)
  <2>a. Words(q) = h \o t
    BY <1>4, PushWords
  <2>b. DataPart(q) \in Seq(Nat) /\ EndPart(q) \in Seq(Nat)
    BY PartsType
  <2>c. t \in Seq(Nat)
    BY <2>b, Joined
  <2>d. h \in Seq(Nat) /\ Len(h) = 3 /\ h[1] = ID_SEND /\ h[2] = 1 /\ h[3] = q.path
    BY <1>1 DEF HeadPart, ID_SEND
  <2>e. IdOf(q.kind) = ID_SEND
    BY <1>4 DEF IdOf, IsPush
  <2> HIDE DEF h, t
  <2>f. h \o t \in Seq(Nat) /\ Len(h \o t) = Len(h) + Len(t) /\ \A i \in 1 .. Len(h) : (h \o t)[i] = h[i]
    BY <2>c, <2>d, Joined
  <2>g. Len(t) \in Nat /\ 1 \in 1 .. Len(h) /\ 2 \in 1 .. Len(h) /\ 3 \in 1 .. Len(h)
    BY <2>c, <2>d
  <2>h. (h \o t)[1] = h[1] /\ (h \o t)[2] = h[2] /\ (h \o t)[3] = h[3]
    BY <2>f, <2>g
  <2>i. Len(Words(q)) \in Nat /\ Len(Words(q)) >= 3
    BY <2>a, <2>d, <2>f, <2>g
  <2>. QED BY <1>4, <2>a, <2>d, <2>e, <2>f, <2>h, <2>i DEF IsPush
<1>. QED BY <1>2, <1>3, <1>4 DEF Asked, IsPush

(* No two kinds of request that the session tells apart open with the same word. *)
LEMMA KindById ==
  ASSUME NEW q, Asked(q)
  PROVE  /\ IdOf(q.kind) = ID_STAT => q.kind = "STAT"
         /\ IdOf(q.kind) = ID_RECV => q.kind = "RECV"
         /\ IdOf(q.kind) = ID_LIST => q.kind = "LIST"
         /\ IdOf(q.kind) = ID_QUIT => q.kind = "QUIT"
         /\ IdOf(q.kind) = ID_SEND => IsPush(q)
         /\ IdOf(q.kind) \notin {ID_DATA, ID_DONE}
         /\ IdOf(q.kind) \notin {ID_QUIT, ID_STAT, ID_LIST, ID_SEND, ID_RECV} => q.kind = "NONE"
  BY DEF Asked, IsPush, IdOf, ID_STAT, ID_RECV, ID_LIST, ID_QUIT, ID_SEND, ID_DATA, ID_DONE, ID_NONE

--------------------------------
(* The script on the wire. *)

(* A script of such requests. *)
AskedAll(s) == s \in Seq(Requests)

(* The script on the wire, request by request; the words of the first k requests, and of the others. *)
Pieces(s) == [i \in 1 .. Len(s) |-> Words(s[i])]
First(s, k) == Flat(Pieces(s), 0, k)
Later(s, k) == Flat(Pieces(s), k, Len(s) - k)

(* Requests are words on the wire. *)
LEMMA PiecesType ==
  ASSUME NEW s, AskedAll(s)
  PROVE  /\ Len(s) \in Nat
         /\ Pieces(s) \in [1 .. Len(s) -> Seq(Nat)]
         /\ \A i \in 1 .. Len(s) : s[i] \in Requests /\ Asked(s[i])
         /\ \A k \in 0 .. Len(s) : First(s, k) \in Seq(Nat) /\ Later(s, k) \in Seq(Nat)
<1>1. Len(s) \in Nat /\ \A i \in 1 .. Len(s) : s[i] \in Requests /\ Asked(s[i])
  BY RequestAsked DEF AskedAll
<1>2. Pieces(s) \in [1 .. Len(s) -> Seq(Nat)]
  BY <1>1, WordsType DEF Pieces
<1>3. ASSUME NEW k \in 0 .. Len(s)
      PROVE  First(s, k) \in Seq(Nat) /\ Later(s, k) \in Seq(Nat)
  <2>a. k \in Nat /\ 0 \in Nat /\ 0 + k <= Len(s) /\ Len(s) - k \in Nat /\ k + (Len(s) - k) <= Len(s)
    BY <1>1
  <2>. QED BY <1>1, <1>2, <2>a, FlatType DEF First, Later
<1>. QED BY <1>1, <1>2, <1>3

(* The words of one request more. *)
LEMMA FirstGrows ==
  ASSUME NEW s, AskedAll(s), NEW k \in 0 .. Len(s) - 1
  PROVE  First(s, k + 1) = First(s, k) \o Words(s[k + 1])
<1>1. Len(s) \in Nat /\ Pieces(s) \in [1 .. Len(s) -> Seq(Nat)]
  BY PiecesType
<1>2. k \in Nat /\ 0 \in Nat /\ 0 + 1 = 1 /\ 1 \in 1 .. Len(s) /\ 0 + (k + 1) = k + 1 /\ k + 1 \in 1 .. Len(s)
  BY <1>1
<1>3. Pieces(s)[0 + 1] \in Seq(Nat) /\ Pieces(s)[k + 1] = Words(s[k + 1])
  BY <1>1, <1>2 DEF Pieces
<1>. QED BY <1>2, <1>3, FlatOneMore DEF First

(* What is left behind k requests opens with the next. *)
LEMMA LaterHead ==
  ASSUME NEW s, AskedAll(s), NEW k \in 0 .. Len(s) - 1
  PROVE  Later(s, k) = Words(s[k + 1]) \o Later(s, k + 1)
<1>1. Len(s) \in Nat /\ Pieces(s) \in [1 .. Len(s) -> Seq(Nat)]
  BY PiecesType
<1> DEFINE j == Len(s) - (k + 1)
<1>2. k \in Nat /\ j \in Nat /\ k + (j + 1) <= Len(s) /\ Len(s) - k = j + 1 /\ k + 1 \in 1 .. Len(s)
  BY <1>1
<1>3. Pieces(s)[k + 1] = Words(s[k + 1])
  BY <1>2 DEF Pieces
<1> HIDE DEF j
<1>4. Flat(Pieces(s), k, j + 1) = Pieces(s)[k + 1] \o Flat(Pieces(s), k + 1, j)
  BY <1>1, <1>2, FlatHead
<1>. QED BY <1>2, <1>3, <1>4 DEF Later, j

(* Behind the last request nothing is left. *)
LEMMA LaterNone ==
  ASSUME NEW s, AskedAll(s)
  PROVE  Later(s, Len(s)) = <<>>
<1>1. Len(s) - Len(s) = 0
  BY PiecesType
<1>. QED BY <1>1, FlatNone DEF Later

(* All words are those of the first k requests and of the others. *)
LEMMA LaterLength ==
  ASSUME NEW s, AskedAll(s), NEW k \in 0 .. Len(s)
  PROVE  /\ Len(First(s, k)) \in Nat /\ Len(Later(s, k)) \in Nat
         /\ Len(First(s, Len(s))) = Len(First(s, k)) + Len(Later(s, k))
<1>1. Len(s) \in Nat /\ Pieces(s) \in [1 .. Len(s) -> Seq(Nat)]
  BY PiecesType
<1>2. First(s, k) \in Seq(Nat) /\ Later(s, k) \in Seq(Nat)
  BY PiecesType
<1> DEFINE j == Len(s) - k
<1>3. k \in Nat /\ j \in Nat /\ k + j = Len(s) /\ k + j <= Len(s)
  BY <1>1
<1> HIDE DEF j
<1>4. Flat(Pieces(s), 0, k + j) = Flat(Pieces(s), 0, k) \o Flat(Pieces(s), k, j)
  BY <1>1, <1>3, FlatSplit
<1>5. First(s, Len(s)) = First(s, k) \o Later(s, k)
  BY <1>3, <1>4 DEF First, Later, j
<1>. QED BY <1>2, <1>5, Joined

(* A request that is added comes last on the wire, and leaves the rest as it is. *)
LEMMA LaterAppend ==
  ASSUME NEW s, AskedAll(s), NEW q \in Requests, NEW k \in 0 .. Len(s)
  PROVE  /\ AskedAll(Append(s, q)) /\ Len(Append(s, q)) = Len(s) + 1
         /\ Append(s, q)[Len(s) + 1] = q
         /\ \A i \in 1 .. Len(s) : Append(s, q)[i] = s[i]
         /\ First(Append(s, q), k) = First(s, k)
         /\ Later(Append(s, q), k) = Later(s, k) \o Words(q)
<1> DEFINE t == Append(s, q)
<1>1. /\ AskedAll(t) /\ Len(t) = Len(s) + 1 /\ Len(s) \in Nat
      /\ t[Len(s) + 1] = q /\ \A i \in 1 .. Len(s) : t[i] = s[i]
  BY DEF AskedAll
<1> HIDE DEF t
<1>2. \A i \in 1 .. Len(s) : Pieces(t)[i] = Pieces(s)[i]
  <2>a. \A i \in 1 .. Len(s) : i \in 1 .. Len(t)
    BY <1>1
  <2>. QED BY <1>1, <2>a DEF Pieces
<1>3. Pieces(t)[Len(s) + 1] = Words(q)
  <2>a. Len(s) + 1 \in 1 .. Len(t)
    BY <1>1
  <2>. QED BY <1>1, <2>a DEF Pieces
<1>4. First(t, k) = First(s, k)
  <2>a. \A i \in 1 .. k : Pieces(t)[0 + i] = Pieces(s)[0 + i]
    BY <1>1, <1>2
  <2>. QED BY <2>a, FlatSame DEF First
<1>5. Later(t, k) = Later(s, k) \o Words(q)
  <2> DEFINE j == Len(s) - k
  <2>a. j \in Nat /\ k \in Nat /\ Len(t) - k = j + 1 /\ k + (j + 1) = Len(s) + 1 /\ k + 1 \in 1 .. Len(t)
    BY <1>1
  <2>b. \A i \in 1 .. j : k + i \in 1 .. Len(s)
    BY <1>1
  <2>c. Flat(Pieces(t), k, j) = Flat(Pieces(s), k, j)
    BY <1>2, <2>b, FlatSame
  <2> HIDE DEF j
  <2>d. Pieces(t)[k + 1] \in Seq(Nat)
    BY <1>1, <2>a, PiecesType
  <2>e. Flat(Pieces(t), k, j + 1) = Flat(Pieces(t), k, j) \o Pieces(t)[k + (j + 1)]
    BY <2>a, <2>d, FlatOneMore
  <2>. QED BY <1>3, <2>a, <2>c, <2>e DEF Later, j
<1>. QED BY <1>1, <1>4, <1>5 DEF t

--------------------------------
(* How much has been received. *)

(* Where the k-th request ends. *)
Mark(s, k) == Len(First(s, k))

(* Each request takes at least the two words of a header. *)
LEMMA MarkNext ==
  ASSUME NEW s, AskedAll(s), NEW k \in 0 .. Len(s) - 1
  PROVE  /\ Mark(s, k) \in Nat /\ Mark(s, k + 1) \in Nat
         /\ Mark(s, k + 1) = Mark(s, k) + Len(Words(s[k + 1]))
         /\ Mark(s, k + 1) >= Mark(s, k) + 2
<1>1. Len(s) \in Nat /\ k \in 0 .. Len(s) /\ k + 1 \in 0 .. Len(s) /\ k + 1 \in 1 .. Len(s)
  BY PiecesType
<1>2. First(s, k) \in Seq(Nat) /\ Asked(s[k + 1])
  BY <1>1, PiecesType
<1>3. Words(s[k + 1]) \in Seq(Nat) /\ Len(Words(s[k + 1])) \in Nat /\ Len(Words(s[k + 1])) >= 2
  BY <1>2, WordsType
<1>4. First(s, k + 1) = First(s, k) \o Words(s[k + 1])
  BY FirstGrows
<1> DEFINE a == First(s, k)
           b == Words(s[k + 1])
<1> HIDE DEF a, b
<1>5. Len(a \o b) = Len(a) + Len(b) /\ Len(a) \in Nat
  BY <1>2, <1>3, Joined DEF a, b
<1>. QED BY <1>3, <1>4, <1>5 DEF Mark, a, b

(* Later requests end later. *)
LEMMA MarksGrow ==
  ASSUME NEW s, AskedAll(s), NEW j \in 0 .. Len(s), NEW k \in 0 .. Len(s), j < k
  PROVE  Mark(s, j) < Mark(s, k)
<1>0. Len(s) \in Nat
  BY PiecesType
<1> DEFINE Q(d) == \A i \in 0 .. Len(s) : i + (d + 1) <= Len(s) => Mark(s, i) < Mark(s, i + (d + 1))
           P == {d \in Nat : Q(d)}
<1>1. Q(0)
  <2> SUFFICES ASSUME NEW i \in 0 .. Len(s), i + (0 + 1) <= Len(s)
               PROVE  Mark(s, i) < Mark(s, i + (0 + 1))
    OBVIOUS
  <2>a. i \in 0 .. Len(s) - 1 /\ i + (0 + 1) = i + 1
    BY <1>0
  <2>b. Mark(s, i) \in Nat /\ Mark(s, i + 1) \in Nat /\ Mark(s, i + 1) >= Mark(s, i) + 2
    BY <2>a, MarkNext
  <2>. QED BY <2>a, <2>b
<1>2. ASSUME NEW d \in Nat, Q(d)
      PROVE  Q(d + 1)
  <2> SUFFICES ASSUME NEW i \in 0 .. Len(s), i + ((d + 1) + 1) <= Len(s)
               PROVE  Mark(s, i) < Mark(s, i + ((d + 1) + 1))
    OBVIOUS
  <2> DEFINE n == i + (d + 1)
  <2>a. n \in 0 .. Len(s) - 1 /\ i + ((d + 1) + 1) = n + 1 /\ n <= Len(s) /\ i \in 0 .. Len(s) - 1
    BY <1>0
  <2>b. Mark(s, i) < Mark(s, n)
    BY <1>2, <2>a
  <2> HIDE DEF n
  <2>c. Mark(s, n) \in Nat /\ Mark(s, n + 1) \in Nat /\ Mark(s, n + 1) >= Mark(s, n) + 2
    BY <2>a, MarkNext
  <2>d. Mark(s, i) \in Nat
    BY <2>a, MarkNext
  <2>. QED BY <2>a, <2>b, <2>c, <2>d
<1> HIDE DEF Q
<1>3. \A d \in Nat : d \in P
  <2>a. 0 \in P /\ \A d \in Nat : d \in P => d + 1 \in P
    BY <1>1, <1>2
  <2> HIDE DEF P
  <2>. QED BY <2>a, AllNat
<1>4. (k - j) - 1 \in Nat /\ j + (((k - j) - 1) + 1) = k
  BY <1>0
<1>5. Q((k - j) - 1)
  BY <1>3, <1>4
<1>. QED BY <1>0, <1>4, <1>5 DEF Q

(* Where a request ends is what the module counts. *)
LEMMA MarkIsLen ==
  ASSUME NEW s, AskedAll(s), NEW k \in 0 .. Len(s)
  PROVE  Len(FlattenSeq([i \in 1 .. k |-> Words(s[i])])) = Mark(s, k) /\ Mark(s, k) \in Nat
<1>1. \A i \in 1 .. k : i \in 1 .. Len(s) /\ 0 + i = i
  BY PiecesType
<1>2. [i \in 1 .. k |-> Words(s[i])] = [i \in 1 .. k |-> Pieces(s)[0 + i]]
  BY <1>1 DEF Pieces
<1>3. First(s, k) \in Seq(Nat)
  BY PiecesType
<1>4. Len(FlattenSeq([i \in 1 .. k |-> Words(s[i])])) = Mark(s, k)
  BY <1>2, Zenon DEF Mark, First, Flat
<1>5. Mark(s, k) \in Nat
  <2> DEFINE a == First(s, k)
  <2>a. a \in Seq(Nat)
    BY <1>3
  <2> HIDE DEF a
  <2>b. Len(a) \in Nat
    BY <2>a
  <2>. QED BY <2>b DEF Mark, a
<1>. QED BY <1>4, <1>5

(* WordsOf of the module, for the script. *)
LEMMA WordsOfMark ==
  ASSUME AskedAll(script), NEW k \in 0 .. Len(script)
  PROVE  WordsOf(k) = Mark(script, k) /\ Mark(script, k) \in Nat
  BY MarkIsLen DEF WordsOf

(* n is how many requests there are all the words of, among the first w words. *)
IsDelivered(s, w, n) == Mark(s, n) <= w /\ (n < Len(s) => Mark(s, n + 1) > w)

(* There is one such number at most. *)
LEMMA DeliveredOnce ==
  ASSUME NEW s, AskedAll(s), NEW w \in Int, NEW m \in 0 .. Len(s), NEW n \in 0 .. Len(s),
         IsDelivered(s, w, m), IsDelivered(s, w, n), m < n
  PROVE  FALSE
<1>1. m \in 0 .. Len(s) - 1 /\ m + 1 \in 0 .. Len(s) /\ m < Len(s)
  BY PiecesType
<1>2. Mark(s, m + 1) \in Nat /\ Mark(s, m + 1) > w /\ Mark(s, n) <= w
  BY <1>1, MarkNext DEF IsDelivered
<1>3. CASE m + 1 = n
  BY <1>2, <1>3
<1>4. CASE m + 1 < n
  <2>a. Mark(s, m + 1) < Mark(s, n)
    BY <1>1, <1>4, MarksGrow
  <2>b. Mark(s, n) \in Nat
    BY LaterLength DEF Mark
  <2>. QED BY <1>2, <2>a, <2>b
<1>. QED BY <1>1, <1>3, <1>4

(* There is one when the first i requests are there, and it is i at least. *)
LEMMA DeliveredThere ==
  ASSUME NEW s, AskedAll(s), NEW w \in Int, NEW i \in 0 .. Len(s), Mark(s, i) <= w
  PROVE  \E n \in 0 .. Len(s) : i <= n /\ IsDelivered(s, w, n)
<1>0. Len(s) \in Nat
  BY PiecesType
<1> DEFINE T == {d \in Nat : d <= Len(s) - i /\ Mark(s, Len(s) - d) <= w}
<1>1. Len(s) - i \in T
  <2>a. Len(s) - i \in Nat /\ Len(s) - (Len(s) - i) = i
    BY <1>0
  <2>. QED BY <2>a
<1>2. PICK d \in T : \A y \in T : ~ (y < d)
  <2>a. T \subseteq Nat /\ T # {}
    BY <1>1
  <2> HIDE DEF T
  <2>. QED BY <2>a, Least
<1> DEFINE n == Len(s) - d
<1>3. n \in 0 .. Len(s) /\ i <= n /\ Mark(s, n) <= w
  BY <1>0, <1>2
<1>4. n < Len(s) => Mark(s, n + 1) > w
  <2> SUFFICES ASSUME n < Len(s), ~ (Mark(s, n + 1) > w) PROVE FALSE
    OBVIOUS
  <2>a. d - 1 \in Nat /\ d - 1 < d /\ d - 1 <= Len(s) - i /\ Len(s) - (d - 1) = n + 1 /\ n \in 0 .. Len(s) - 1
    BY <1>0, <1>2
  <2>b. Mark(s, n + 1) \in Nat
    <3> HIDE DEF n
    <3>. QED BY <2>a, MarkNext
  <2>c. d - 1 \in T
    BY <2>a, <2>b
  <2>. QED BY <1>2, <2>a, <2>c
<1>. QED BY <1>3, <1>4 DEF IsDelivered

(* What the operator Delivered of the module chooses. *)
LEMMA DeliveredIs ==
  ASSUME AskedAll(script), received \in Int, NEW n \in 0 .. Len(script),
         IsDelivered(script, received, n)
  PROVE  Delivered = n
<1> DEFINE Fits(m) == /\ WordsOf(m) <= received
                      /\ m < Len(script) => WordsOf(m + 1) > received
<1>1. \A m \in 0 .. Len(script) : Fits(m) <=> IsDelivered(script, received, m)
  <2> SUFFICES ASSUME NEW m \in 0 .. Len(script)
               PROVE  Fits(m) <=> IsDelivered(script, received, m)
    OBVIOUS
  <2>a. WordsOf(m) = Mark(script, m)
    BY WordsOfMark
  <2>b. m < Len(script) => WordsOf(m + 1) = Mark(script, m + 1)
    <3>1. m < Len(script) => m + 1 \in 0 .. Len(script)
      BY PiecesType
    <3>. QED BY <3>1, WordsOfMark
  <2>. QED BY <2>a, <2>b DEF IsDelivered
<1>2. Delivered = CHOOSE m \in 0 .. Len(script) : Fits(m)
  BY DEF Delivered
<1> HIDE DEF Fits
<1>3. Delivered \in 0 .. Len(script) /\ IsDelivered(script, received, Delivered)
  BY <1>1, <1>2
<1>4. ~ (Delivered < n) /\ ~ (n < Delivered)
  BY <1>3, DeliveredOnce
<1>5. Len(script) \in Nat
  BY PiecesType
<1>. QED BY <1>3, <1>4, <1>5

(* What has been received, when the words that are left are some of the    *)
(* k-th request and all later ones.                                        *)
LEMMA Received ==
  ASSUME AskedAll(script), buffer \in Seq(Nat), unsent \in Seq(Nat),
         NEW k \in 0 .. Len(script), NEW a \in Seq(Nat), buffer \o unsent = a \o Later(script, k)
  PROVE  received \in Int /\ received = (Mark(script, k) - Len(a)) + Len(buffer)
<1>1. Len(script) \in 0 .. Len(script)
  BY PiecesType
<1>2. WordsOf(Len(script)) = Mark(script, Len(script)) /\ Mark(script, Len(script)) \in Nat
  BY <1>1, WordsOfMark
<1>3. /\ Mark(script, k) \in Nat /\ Len(Later(script, k)) \in Nat
      /\ Mark(script, Len(script)) = Mark(script, k) + Len(Later(script, k))
  BY LaterLength DEF Mark
<1>4. Later(script, k) \in Seq(Nat)
  BY PiecesType
<1>5. Len(buffer \o unsent) = Len(buffer) + Len(unsent) /\ Len(a \o Later(script, k)) = Len(a) + Len(Later(script, k))
  BY <1>4, Joined
<1>6. Len(buffer) \in Nat /\ Len(unsent) \in Nat /\ Len(a) \in Nat
  OBVIOUS
<1>7. Len(buffer) + Len(unsent) = Len(a) + Len(Later(script, k))
  BY <1>5
<1>8. received = Mark(script, Len(script)) - Len(unsent)
  BY <1>2 DEF received
<1> DEFINE m == Mark(script, k)
           n == Mark(script, Len(script))
           y == Len(Later(script, k))
<1>9. m \in Nat /\ n \in Nat /\ y \in Nat /\ n = m + y /\ Len(buffer) + Len(unsent) = Len(a) + y
  BY <1>2, <1>3, <1>7
<1> HIDE DEF m, n, y
<1>10. received = n - Len(unsent)
  BY <1>8 DEF n
<1> DEFINE b == Len(buffer)
           u == Len(unsent)
           l == Len(a)
<1>11. b \in Nat /\ u \in Nat /\ l \in Nat /\ b + u = l + y /\ received = n - u
  BY <1>6, <1>9, <1>10
<1> HIDE DEF b, u, l
<1>12. received \in Int /\ received = (m - l) + b
  BY <1>9, <1>11
<1>. QED BY <1>12 DEF m, b, l

--------------------------------
(* Types. *)

(* What a session answers with. *)
Messages == [id : {"STAT", "DENT", "DATA", "DONE", "FAIL", "OKAY"}, data : Seq(Nat)]

(* The client says nothing after a QUIT; and what is typed besides SyncTypeOK. *)
QuitLast(s) == \A i \in 1 .. Len(s) - 1 : s[i].kind # "QUIT"

TypeInv ==
    /\ SyncTypeOK
    /\ AskedAll(script)
    /\ QuitLast(script)
    /\ IsFiniteSet(DOMAIN files)
    /\ replies \in Seq(Messages)

(* What a write leaves in the directory. *)
LEMMA PutFile ==
  ASSUME NEW fs, NEW p, NEW c
  PROVE  /\ DOMAIN put(fs, p, c) = DOMAIN fs \cup {p}
         /\ put(fs, p, c)[p] = c
         /\ \A x \in DOMAIN fs : x # p => put(fs, p, c)[x] = fs[x]
         /\ IsFiniteSet(DOMAIN fs) => IsFiniteSet(DOMAIN put(fs, p, c))
<1>1. /\ DOMAIN put(fs, p, c) = DOMAIN fs \cup {p}
      /\ put(fs, p, c)[p] = c
      /\ \A x \in DOMAIN fs : x # p => put(fs, p, c)[x] = fs[x]
  BY DEF put
<1>2. IsFiniteSet(DOMAIN fs) => IsFiniteSet(DOMAIN fs \cup {p})
  BY FS_AddElement
<1>. QED BY <1>1, <1>2

(* A directory of files of words keeps to its type. *)
LEMMA PutType ==
  ASSUME NEW fs, NEW X, DOMAIN fs \subseteq X, \A x \in DOMAIN fs : fs[x] \in Seq(Nat),
         NEW p \in X, NEW c \in Seq(Nat)
  PROVE  /\ DOMAIN put(fs, p, c) \subseteq X
         /\ \A x \in DOMAIN put(fs, p, c) : put(fs, p, c)[x] \in Seq(Nat)
<1> DEFINE g == put(fs, p, c)
<1>1. /\ DOMAIN g = DOMAIN fs \cup {p} /\ g[p] = c
      /\ \A x \in DOMAIN fs : x # p => g[x] = fs[x]
  BY DEF put
<1> HIDE DEF g
<1>2. \A x \in DOMAIN g : g[x] \in Seq(Nat)
  BY <1>1
<1>. QED BY <1>1, <1>2 DEF g

(* The second of two writes to a file is what counts. *)
LEMMA PutTwice ==
  ASSUME NEW fs, NEW p, NEW c, NEW d
  PROVE  put(put(fs, p, c), p, d) = put(fs, p, d)
<1> DEFINE f == put(fs, p, c)
           D == DOMAIN fs \cup {p}
<1>1. DOMAIN f = D
  BY DEF put
<1>2. \A x \in D : x # p => f[x] = fs[x]
  BY DEF put
<1> HIDE DEF f
<1>3. put(f, p, d) = [x \in D |-> IF x = p THEN d ELSE f[x]]
  BY <1>1 DEF put
<1>4. put(fs, p, d) = [x \in D |-> IF x = p THEN d ELSE fs[x]]
  BY DEF put
<1> HIDE DEF D
<1>. QED BY <1>2, <1>3, <1>4 DEF f

(* What is answered to each request. *)
LEMMA MessagesType ==
  /\ Reply("OKAY", <<>>) \in Messages /\ DONE \in Messages /\ FAIL \in Messages
  /\ \A c \in Seq(Nat) : Reply("DATA", c) \in Messages
  /\ \A fs, p : (\A x \in DOMAIN fs : fs[x] \in Seq(Nat)) => Reply("STAT", Metadata(fs, p)) \in Messages
<1>1. <<>> \in Seq(Nat)
  BY EmptySeq
<1>2. ASSUME NEW fs, NEW p, \A x \in DOMAIN fs : fs[x] \in Seq(Nat)
      PROVE  Metadata(fs, p) \in Seq(Nat)
  <2>a. CASE p \in DOMAIN fs
    <3>1. Len(fs[p]) \in Nat
      BY <1>2, <2>a
    <3>2. Metadata(fs, p) = <<1, Len(fs[p])>>
      BY <2>a DEF Metadata
    <3>. QED BY <3>1, <3>2
  <2>b. CASE p \notin DOMAIN fs
    <3>1. Metadata(fs, p) = <<0, 0>>
      BY <2>b DEF Metadata
    <3>. QED BY <3>1
  <2>. QED BY <2>a, <2>b
<1>. QED BY <1>1, <1>2 DEF Messages, Reply, DONE, FAIL

(* What is answered to each kind of request, in sequence. *)
LEMMA AnswersType ==
  ASSUME NEW fs, IsFiniteSet(DOMAIN fs), \A x \in DOMAIN fs : fs[x] \in Seq(Nat)
  PROVE  /\ \A p : Append(Listing(fs, p), DONE) \in Seq(Messages)
         /\ \A p \in DOMAIN fs : Append(Blocks(fs[p]), DONE) \in Seq(Messages)
         /\ \A p : <<Reply("STAT", Metadata(fs, p))>> \in Seq(Messages)
         /\ <<FAIL>> \in Seq(Messages) /\ <<DONE>> \in Seq(Messages) /\ <<FAIL, DONE>> \in Seq(Messages)
         /\ <<Reply("OKAY", <<>>)>> \in Seq(Messages)
<1>1. /\ DONE \in Messages /\ FAIL \in Messages /\ Reply("OKAY", <<>>) \in Messages
      /\ \A p : Reply("STAT", Metadata(fs, p)) \in Messages
  BY MessagesType
<1>2. \A p : Listing(fs, p) \in Seq(Messages)
  <2>a. Cardinality(DOMAIN fs) \in Nat
    BY FS_CardinalityType
  <2>b. Reply("DENT", <<>>) \in Messages
    BY EmptySeq DEF Messages, Reply
  <2>c. [i \in 1 .. Cardinality(DOMAIN fs) |-> Reply("DENT", <<>>)] \in Seq(Messages)
    BY <2>a, <2>b, IsASeq
  <2>. QED BY <2>c, EmptySeq DEF Listing
<1>3. \A p \in DOMAIN fs : Blocks(fs[p]) \in Seq(Messages)
  <2> SUFFICES ASSUME NEW p \in DOMAIN fs PROVE Blocks(fs[p]) \in Seq(Messages)
    OBVIOUS
  <2>a. Reply("DATA", fs[p]) \in Messages
    BY MessagesType
  <2>b. CASE fs[p] = <<>>
    BY <2>b, EmptySeq DEF Blocks
  <2>c. CASE fs[p] # <<>>
    BY <2>a, <2>c DEF Blocks
  <2>. QED BY <2>b, <2>c
<1> HIDE DEF Reply
<1>4. /\ <<FAIL>> \in Seq(Messages) /\ <<DONE>> \in Seq(Messages) /\ <<FAIL, DONE>> \in Seq(Messages)
      /\ <<Reply("OKAY", <<>>)>> \in Seq(Messages)
      /\ \A p : <<Reply("STAT", Metadata(fs, p))>> \in Seq(Messages)
  BY <1>1
<1>5. \A w \in Seq(Messages) : Append(w, DONE) \in Seq(Messages)
  BY <1>1
<1>. QED BY <1>2, <1>3, <1>4, <1>5

(* One more answer keeps the type. *)
LEMMA AnswerType ==
  ASSUME replies \in Seq(Messages), NEW m \in Seq(Messages), Answer(m)
  PROVE  replies' \in Seq(Messages)
  BY ConcatProperties, Zenon DEF Answer

(* What the handler reads of the buffer is of its type, and what it leaves too. *)
LEMMA HeaderType ==
  ASSUME TypeInv, HasHeader
  PROVE  /\ buffer \in Seq(Nat) /\ Len(buffer) \in Nat /\ id \in Nat /\ length \in Nat
         /\ Len(buffer) >= 2
         /\ Drain(2) => buffer' \in Seq(Nat)
         /\ HasPayload => /\ Len(buffer) >= 2 + length
                          /\ Drain(2 + length) => buffer' \in Seq(Nat)
<1>1. buffer \in Seq(Nat) /\ Len(buffer) \in Nat /\ Len(buffer) >= 2
  BY DEF TypeInv, SyncTypeOK, HasHeader
<1>2. id \in Nat /\ length \in Nat
  BY <1>1 DEF id, length
<1>3. Drain(2) => buffer' \in Seq(Nat)
  <2>a. SubSeq(buffer, 2 + 1, Len(buffer)) \in Seq(Nat)
    BY <1>1, CutType, 2 \in 0 .. Len(buffer)
  <2>. QED BY <2>a DEF Drain
<1>4. ASSUME HasPayload
      PROVE  /\ Len(buffer) >= 2 + length
             /\ Drain(2 + length) => buffer' \in Seq(Nat)
  <2>a. Len(buffer) >= 2 + length
    BY <1>4 DEF HasPayload
  <2>b. SubSeq(buffer, (2 + length) + 1, Len(buffer)) \in Seq(Nat)
    <3> DEFINE n == 2 + length
    <3>1. n \in 0 .. Len(buffer)
      BY <1>1, <1>2, <2>a
    <3> HIDE DEF n
    <3>2. SubSeq(buffer, n + 1, Len(buffer)) \in Seq(Nat)
      BY <1>1, <3>1, CutType
    <3>. QED BY <3>2 DEF n
  <2>. QED BY <2>a, <2>b DEF Drain
<1>. QED BY <1>1, <1>2, <1>3, <1>4

(* Paths that can be written to are numbers, and not the 0 that stands for no file. *)
LEMMA PathsType == Paths \ Refused \subseteq Nat /\ 0 \notin Paths
  BY PathsAssumption

(* Initially there is nothing. *)
LEMMA InitTypes == Init => TypeInv
<1> SUFFICES ASSUME Init PROVE TypeInv
  OBVIOUS
<1>1. DOMAIN files = {} /\ <<>> \in Seq(Nat) /\ <<>> \in Seq(Messages)
  BY EmptySeq DEF Init
<1>2. SyncTypeOK
  BY <1>1 DEF Init, SyncTypeOK
<1>3. AskedAll(script) /\ QuitLast(script)
  BY EmptySeq DEF Init, AskedAll, QuitLast
<1>4. IsFiniteSet(DOMAIN files)
  BY <1>1, FS_EmptySet
<1>. QED BY <1>1, <1>2, <1>3, <1>4 DEF Init, TypeInv

(* What the client adds is a request. *)
LEMMA AskTypes ==
  ASSUME TypeInv, NEW q \in Requests, ClientAsks(q)
  PROVE  TypeInv'
<1>1. AskedAll(script) /\ Asked(q) /\ Len(script) \in Nat /\ unsent \in Seq(Nat)
  BY RequestAsked, PiecesType DEF TypeInv, SyncTypeOK
<1>2. /\ AskedAll(script') /\ Len(script') = Len(script) + 1
      /\ \A i \in 1 .. Len(script) : script'[i] = script[i]
  BY <1>1, LaterAppend, 0 \in 0 .. Len(script) DEF ClientAsks
<1>3. unsent' \in Seq(Nat)
  <2>a. Words(q) \in Seq(Nat)
    BY <1>1, WordsType
  <2>b. unsent \o Words(q) \in Seq(Nat)
    BY <1>1, <2>a, Joined
  <2>. QED BY <2>b DEF ClientAsks
<1>4. QuitLast(script')
  BY <1>1, <1>2 DEF QuitLast, ClientAsks
<1>5. UNCHANGED <<buffer, state, current_file, pc, files, replies, faulty>>
  BY DEF ClientAsks, session
<1>6. SyncTypeOK'
  BY <1>3, <1>5 DEF TypeInv, SyncTypeOK
<1>. QED BY <1>2, <1>4, <1>5, <1>6 DEF TypeInv

(* A WRTE moves words. *)
LEMMA WrteTypes ==
  ASSUME TypeInv, NEW n \in 1 .. Len(unsent), handle_data(n)
  PROVE  /\ TypeInv'
         /\ buffer' \o unsent' = buffer \o unsent
         /\ Len(buffer') = Len(buffer) + n /\ Len(unsent') = Len(unsent) - n
<1>1. buffer \in Seq(Nat) /\ unsent \in Seq(Nat) /\ n \in 0 .. Len(unsent)
  BY DEF TypeInv, SyncTypeOK
<1>2. buffer' = buffer \o SubSeq(unsent, 1, n) /\ unsent' = SubSeq(unsent, n + 1, Len(unsent))
  BY DEF handle_data
<1>3. /\ buffer' \in Seq(Nat) /\ unsent' \in Seq(Nat)
      /\ buffer' \o unsent' = buffer \o unsent
      /\ Len(buffer') = Len(buffer) + n /\ Len(unsent') = Len(unsent) - n
  BY <1>1, <1>2, Carried
<1>4. SyncTypeOK'
  BY <1>3 DEF TypeInv, SyncTypeOK, handle_data
<1>. QED BY <1>3, <1>4 DEF TypeInv, handle_data

(* A turn that leaves the files alone. *)
LEMMA TurnTypes ==
  ASSUME TypeInv, UNCHANGED <<script, unsent, files, faulty>>, buffer' \in Seq(Nat), replies' \in Seq(Messages),
         pc' \in {"ready", "loop", "closed"},
         state' \in {"Idle", "ReceivingFile"}, current_file' \in DOMAIN files \cup {0},
         current_file' # 0 <=> state' = "ReceivingFile"
  PROVE  TypeInv'
<1>1. SyncTypeOK'
  BY DEF TypeInv, SyncTypeOK
<1>. QED BY <1>1 DEF TypeInv

(* A request that is answered from the files as they are. *)
LEMMA ServeTypes ==
  ASSUME TypeInv, Stat \/ List \/ SendFails \/ Recv \/ RecvFails
  PROVE  TypeInv'
<1>1. HasHeader /\ HasPayload /\ Drain(2 + length) /\ pc = "loop" /\ UNCHANGED <<script, unsent, pc>>
  BY DEF Stat, List, SendFails, Recv, RecvFails, Serve, Turn
<1>2. buffer' \in Seq(Nat)
  BY <1>1, HeaderType
<1>3. UNCHANGED <<state, current_file, files, faulty>>
  BY DEF Stat, List, SendFails, Recv, RecvFails
<1>4. /\ \A p : Append(Listing(files, p), DONE) \in Seq(Messages)
      /\ \A p \in DOMAIN files : Append(Blocks(files[p]), DONE) \in Seq(Messages)
      /\ \A p : <<Reply("STAT", Metadata(files, p))>> \in Seq(Messages)
      /\ <<FAIL>> \in Seq(Messages) /\ <<DONE>> \in Seq(Messages) /\ <<FAIL, DONE>> \in Seq(Messages)
  <2>a. IsFiniteSet(DOMAIN files) /\ \A x \in DOMAIN files : files[x] \in Seq(Nat)
    BY DEF TypeInv, SyncTypeOK
  <2>. QED BY <2>a, AnswersType
<1>5. \E m \in Seq(Messages) : Answer(m)
  <2>a. CASE Stat
    BY <1>4, <2>a DEF Stat
  <2>b. CASE List
    BY <1>4, <2>b DEF List
  <2>c. CASE SendFails
    BY <1>4, <2>c DEF SendFails
  <2>d. CASE Recv
    BY <1>4, <2>d DEF Recv
  <2>e. CASE RecvFails
    BY <1>4, <2>e DEF RecvFails
  <2>. QED BY <2>a, <2>b, <2>c, <2>d, <2>e
<1>6. replies' \in Seq(Messages)
  BY <1>5, AnswerType DEF TypeInv
<1>7. state \in {"Idle", "ReceivingFile"} /\ current_file \in DOMAIN files \cup {0} /\ (current_file # 0 <=> state = "ReceivingFile")
  BY DEF TypeInv, SyncTypeOK
<1>. QED BY <1>1, <1>2, <1>3, <1>6, <1>7, TurnTypes

(* A push begins: a file that can be created is there. *)
LEMMA SendTypes ==
  ASSUME TypeInv, Send
  PROVE  TypeInv'
<1>1. /\ HasHeader /\ HasPayload /\ Drain(2 + length) /\ pc = "loop" /\ UNCHANGED <<script, unsent, pc, replies, faulty>>
      /\ path \in Paths \ Refused /\ files' = put(files, path, <<>>) /\ current_file' = path
      /\ state' = "ReceivingFile"
  BY DEF Send, Serve, Turn
<1>2. buffer' \in Seq(Nat)
  BY <1>1, HeaderType
<1>3. DOMAIN files \subseteq Paths \ Refused /\ (\A x \in DOMAIN files : files[x] \in Seq(Nat)) /\ IsFiniteSet(DOMAIN files)
  BY DEF TypeInv, SyncTypeOK
<1>4. /\ DOMAIN files' \subseteq Paths \ Refused
      /\ \A x \in DOMAIN files' : files'[x] \in Seq(Nat)
  BY <1>1, <1>3, PutType, EmptySeq, Zenon
<1>5. DOMAIN files' = DOMAIN files \cup {path} /\ IsFiniteSet(DOMAIN files')
  BY <1>1, <1>3, PutFile
<1>6. path # 0
  BY <1>1, PathsType
<1>7. SyncTypeOK'
  BY <1>1, <1>2, <1>4, <1>5, <1>6 DEF TypeInv, SyncTypeOK
<1>. QED BY <1>1, <1>5, <1>7 DEF TypeInv

(* Words that are written to the file being received. *)
LEMMA ReceiveTypes ==
  ASSUME TypeInv, HasData, NEW n \in 0 .. length, Receive(SubSeq(buffer, 3, 2 + n)), faulty' \in BOOLEAN
  PROVE  TypeInv'
<1>1. /\ HasHeader /\ HasPayload /\ pc = "loop" /\ state = "ReceivingFile"
      /\ UNCHANGED <<script, unsent, pc, state, current_file, replies>> /\ Drain(2 + length)
      /\ files' = put(files, current_file, files[current_file] \o SubSeq(buffer, 3, 2 + n))
  BY DEF HasData, Turn, Receive
<1>2. /\ buffer' \in Seq(Nat) /\ buffer \in Seq(Nat) /\ Len(buffer) \in Nat
      /\ Len(buffer) >= 2 + length /\ length \in Nat
  BY <1>1, HeaderType
<1>3. /\ DOMAIN files \subseteq Paths \ Refused /\ (\A x \in DOMAIN files : files[x] \in Seq(Nat))
      /\ IsFiniteSet(DOMAIN files) /\ current_file \in DOMAIN files
  BY <1>1 DEF TypeInv, SyncTypeOK
<1>4. SubSeq(buffer, 3, 2 + n) \in Seq(Nat)
  <2>a. 3 \in Nat \ {0} /\ 2 + n \in Nat /\ 2 + n <= Len(buffer)
    BY <1>2
  <2>. QED BY <1>2, <2>a, SubSeqType
<1>5. files[current_file] \o SubSeq(buffer, 3, 2 + n) \in Seq(Nat)
  <2>a. files[current_file] \in Seq(Nat)
    BY <1>3
  <2>. QED BY <1>4, <2>a, Joined
<1>6. /\ DOMAIN files' \subseteq Paths \ Refused
      /\ \A x \in DOMAIN files' : files'[x] \in Seq(Nat)
  <2>a. current_file \in Paths \ Refused
    BY <1>3
  <2> DEFINE c == files[current_file] \o SubSeq(buffer, 3, 2 + n)
  <2>b. c \in Seq(Nat) /\ files' = put(files, current_file, c)
    BY <1>1, <1>5
  <2>c. DOMAIN files \subseteq Paths \ Refused /\ \A x \in DOMAIN files : files[x] \in Seq(Nat)
    BY <1>3
  <2> HIDE DEF c
  <2>d. /\ DOMAIN put(files, current_file, c) \subseteq Paths \ Refused
        /\ \A x \in DOMAIN put(files, current_file, c) : put(files, current_file, c)[x] \in Seq(Nat)
    BY <2>a, <2>b, <2>c, PutType
  <2>. QED BY <2>b, <2>d
<1>7. DOMAIN files' = DOMAIN files \cup {current_file} /\ IsFiniteSet(DOMAIN files')
  BY <1>1, <1>3, PutFile
<1>8. SyncTypeOK'
  BY <1>1, <1>2, <1>6, <1>7 DEF TypeInv, SyncTypeOK
<1>. QED BY <1>1, <1>7, <1>8 DEF TypeInv

(* Each turn of the loop keeps the types. *)
LEMMA LoopTypes ==
  ASSUME TypeInv, Loop
  PROVE  TypeInv'
<1>0. /\ buffer \in Seq(Nat) /\ replies \in Seq(Messages) /\ pc \in {"ready", "loop", "closed"}
      /\ state \in {"Idle", "ReceivingFile"} /\ current_file \in DOMAIN files \cup {0}
      /\ current_file # 0 <=> state = "ReceivingFile"
  BY DEF TypeInv, SyncTypeOK
<1>1. CASE Await
  BY <1>0, <1>1, TurnTypes DEF Await
<1>2. CASE Quit
  <2>a. buffer' \in Seq(Nat)
    BY <1>2, HeaderType DEF Quit
  <2>. QED BY <1>0, <1>2, <2>a, TurnTypes DEF Quit, Turn
<1>3. CASE Stat \/ List \/ SendFails \/ Recv \/ RecvFails
  BY <1>3, ServeTypes
<1>4. CASE Send
  BY <1>4, SendTypes
<1>5. CASE RecvReadFails
  <2>a. HasHeader /\ HasPayload /\ Drain(2 + length) /\ UNCHANGED <<script, unsent, pc>>
    BY <1>5 DEF RecvReadFails, Serve, Turn
  <2>b. buffer' \in Seq(Nat)
    BY <2>a, HeaderType
  <2>c. replies' \in Seq(Messages)
    <3>1. <<DONE>> \in Seq(Messages) /\ Answer(<<DONE>>)
      BY <1>5, MessagesType DEF RecvReadFails
    <3>. QED BY <1>0, <3>1, AnswerType
  <2>d. UNCHANGED <<state, current_file, files>> /\ faulty' \in BOOLEAN
    BY <1>5 DEF RecvReadFails
  <2>e. SyncTypeOK'
    BY <2>a, <2>b, <2>d DEF TypeInv, SyncTypeOK
  <2>. QED BY <2>a, <2>c, <2>d, <2>e DEF TypeInv
<1>6. CASE Unknown
  <2>a. HasHeader /\ HasPayload /\ Drain(2 + length)
    BY <1>6 DEF Unknown
  <2>b. buffer' \in Seq(Nat)
    BY <2>a, HeaderType
  <2>. QED BY <1>0, <1>6, <2>b, TurnTypes DEF Unknown, Turn
<1>7. CASE Done
  <2>a. HasHeader /\ Drain(2)
    BY <1>7 DEF Done
  <2>b. buffer' \in Seq(Nat)
    BY <2>a, HeaderType
  <2>c. replies' \in Seq(Messages)
    <3>1. <<Reply("OKAY", <<>>)>> \in Seq(Messages) /\ Answer(<<Reply("OKAY", <<>>)>>)
      <4>1. Reply("OKAY", <<>>) \in Messages
        BY MessagesType
      <4>. QED BY <1>7, <4>1 DEF Done
    <3>. QED BY <1>0, <3>1, AnswerType
  <2>d. UNCHANGED <<script, unsent, files, faulty, pc>> /\ state' = "Idle" /\ current_file' = 0
    BY <1>7 DEF Done, Turn
  <2>. QED BY <1>0, <2>b, <2>c, <2>d, TurnTypes
<1>8. CASE Data
  <2>a. length \in Nat
    BY <1>8, HeaderType DEF Data, HasData
  <2>b. length \in 0 .. length /\ faulty' \in BOOLEAN
    BY <1>8, <2>a DEF Data, TypeInv, SyncTypeOK
  <2>. QED BY <1>8, <2>b, ReceiveTypes DEF Data
<1>9. CASE DataWriteFails
  <2>a. length \in Nat
    BY <1>9, HeaderType DEF DataWriteFails, HasData
  <2>b. PICK n \in 0 .. length - 1 : Receive(SubSeq(buffer, 3, 2 + n))
    BY <1>9 DEF DataWriteFails
  <2>c. n \in 0 .. length /\ faulty' \in BOOLEAN /\ HasData
    BY <1>9, <2>a DEF DataWriteFails
  <2>. QED BY <2>b, <2>c, ReceiveTypes
<1>10. CASE Unexpected
  BY <1>0, <1>10, TurnTypes DEF Unexpected, Turn
<1>. QED BY <1>1, <1>2, <1>3, <1>4, <1>5, <1>6, <1>7, <1>8, <1>9, <1>10 DEF Loop

(* Each step keeps the types. *)
LEMMA NextTypes ==
  ASSUME TypeInv, [Next]_vars
  PROVE  TypeInv'
<1>1. ASSUME NEW q \in Requests, ClientAsks(q)
      PROVE  TypeInv'
  BY <1>1, AskTypes
<1>2. ASSUME NEW n \in 1 .. Len(unsent), handle_data(n)
      PROVE  TypeInv'
  BY <1>2, WrteTypes
<1>3. CASE Loop
  BY <1>3, LoopTypes
<1>4. CASE UNCHANGED vars
  BY <1>4 DEF vars, session, TypeInv, SyncTypeOK
<1>. QED BY <1>1, <1>2, <1>3, <1>4 DEF Next

(* The types hold in every state. *)
LEMMA TypesInvariance == Spec => []TypeInv
<1>1. TypeInv /\ [Next]_vars => TypeInv'
  BY NextTypes
<1>. QED BY <1>1, InitTypes, PTL DEF Spec

--------------------------------
(* Where the session is in the stream. *)

(* What is not consumed yet is the words a, and then the requests behind the k-th. *)
Ahead(a, k) == a \in Seq(Nat) /\ buffer \o unsent = a \o Later(script, k)

HalfBefore(k) == \E i \in 1 .. k : script[i].kind = "HALF"

(* k requests are done with: the answers and the files are as meant.  When *)
(* handle_data has returned, the next one is not all there, unless a push  *)
(* has broken off.                                                         *)
Between(k) ==
    /\ Ahead(<<>>, k)
    /\ state = "Idle"
    /\ replies = MeantIn(script, k).replies
    /\ files = MeantIn(script, k).files
    /\ pc # "loop" /\ k < Len(script) =>
           HalfBefore(k) \/ Len(buffer) < Len(Words(script[k + 1]))

(* The next one is a push that has begun. *)
Pushing(k) ==
    /\ k < Len(script)
    /\ IsPush(script[k + 1]) /\ script[k + 1].path \notin Refused
    /\ state = "ReceivingFile"
    /\ current_file = script[k + 1].path
    /\ replies = MeantIn(script, k).replies

(* Its file is there, and empty; the words of the file come next. *)
PushStarted(k) ==
    /\ Pushing(k)
    /\ script[k + 1].data # <<>>
    /\ Ahead(DataPart(script[k + 1]) \o EndPart(script[k + 1]), k + 1)
    /\ files = put(MeantIn(script, k).files, script[k + 1].path, <<>>)
    /\ pc # "loop" => Len(buffer) < 2 + Len(script[k + 1].data)

(* Its file is written; what ends it comes next, or another request. *)
PushWritten(k) ==
    /\ Pushing(k)
    /\ Ahead(EndPart(script[k + 1]), k + 1)
    /\ files = put(MeantIn(script, k).files, script[k + 1].path, script[k + 1].data)
    /\ pc # "loop" => Len(buffer) < 2

(* The next one is a push that has been refused; its words are still read. *)
Refusing(k) ==
    /\ k < Len(script)
    /\ Refuses(k + 1)
    /\ state = "Idle"
    /\ replies = MeantIn(script, k + 1).replies
    /\ files = MeantIn(script, k).files
    /\ \/ /\ script[k + 1].data # <<>>
          /\ Ahead(DataPart(script[k + 1]) \o EndPart(script[k + 1]), k + 1)
          /\ pc # "loop" => Len(buffer) < 2 + Len(script[k + 1].data)
       \/ /\ Ahead(EndPart(script[k + 1]), k + 1)
          /\ pc # "loop" /\ script[k + 1].time = 0 => Len(buffer) < 2

At(k) == Between(k) \/ PushStarted(k) \/ PushWritten(k) \/ Refusing(k)

(* There is a word behind a push that is refused and has a time stamp. *)
Astray ==
    \E i \in 1 .. Len(script) :
        Refuses(i) /\ script[i].time # 0 /\ received > Mark(script, i)

PlaceInv == faulty \/ Astray \/ \E k \in 0 .. Len(script) : At(k)

IInv == TypeInv /\ PlaceInv

(* What one request adds to the meaning. *)
LEMMA MeantNext ==
  ASSUME AskedAll(script), NEW k \in 0 .. Len(script) - 1
  PROVE  /\ MeantIn(script, k + 1).replies =
                MeantIn(script, k).replies \o Outcome(MeantIn(script, k).files, script[k + 1])
         /\ MeantIn(script, k + 1).files = Effect(MeantIn(script, k).files, script[k + 1])
<1>1. MeantIn(script, k + 1) = Serving(MeantIn(script, k), script[k + 1])
  BY MeantGrows DEF AskedAll
<1>2. \A b, q : /\ Serving(b, q).replies = b.replies \o Outcome(b.files, q)
               /\ Serving(b, q).files = Effect(b.files, q)
  BY DEF Serving
<1>. QED BY <1>1, <1>2

(* Initially no request is done with. *)
LEMMA InitPlace == Init => PlaceInv
<1> SUFFICES ASSUME Init PROVE PlaceInv
  OBVIOUS
<1>1. AskedAll(script) /\ Len(script) = 0
  BY EmptySeq DEF Init, AskedAll
<1>2. Later(script, 0) = <<>>
  BY <1>1, LaterNone
<1>3. Ahead(<<>>, 0)
  BY <1>2, EmptySeq DEF Ahead, Init
<1>4. MeantIn(script, 0) = Start
  BY <1>1, MeantNone DEF AskedAll
<1>5. Between(0)
  BY <1>1, <1>3, <1>4 DEF Between, Init, Start
<1>. QED BY <1>1, <1>5 DEF PlaceInv, At

(* A request that is added comes last. *)
LEMMA AskAhead ==
  ASSUME TypeInv, NEW q \in Requests, ClientAsks(q), NEW k \in 0 .. Len(script), NEW a, Ahead(a, k)
  PROVE  Ahead(a, k)'
<1> DEFINE w == Words(q)
           y == Later(script, k)
<1>1. AskedAll(script) /\ buffer \in Seq(Nat) /\ unsent \in Seq(Nat)
  BY DEF TypeInv, SyncTypeOK
<1>2. w \in Seq(Nat) /\ y \in Seq(Nat)
  BY <1>1, RequestAsked, WordsType, PiecesType
<1>3. script' = Append(script, q) /\ unsent' = unsent \o w /\ buffer' = buffer
  BY DEF ClientAsks, session
<1>4. Later(script', k) = y \o w
  BY <1>1, <1>3, LaterAppend
<1> HIDE DEF w, y
<1>5. a \in Seq(Nat) /\ buffer \o unsent = a \o y
  BY DEF Ahead, y
<1>6. (buffer \o unsent) \o w = buffer \o (unsent \o w)
  BY <1>1, <1>2, Assoc, ZenonT(30)
<1>7. (a \o y) \o w = a \o (y \o w)
  BY <1>2, <1>5, Assoc, ZenonT(30)
<1>8. buffer' \o unsent' = a \o Later(script', k)
  BY <1>3, <1>4, <1>5, <1>6, <1>7
<1>. QED BY <1>5, <1>8 DEF Ahead

(* The client may ask at any time. *)
LEMMA AskPlace ==
  ASSUME TypeInv, PlaceInv, NEW q \in Requests, ClientAsks(q)
  PROVE  PlaceInv'
<1>1. AskedAll(script) /\ buffer \in Seq(Nat) /\ unsent \in Seq(Nat) /\ Len(script) \in Nat
  BY PiecesType DEF TypeInv, SyncTypeOK
<1>2. /\ script' = Append(script, q) /\ unsent' = unsent \o Words(q)
      /\ UNCHANGED <<buffer, state, current_file, pc, files, replies, faulty>>
  BY DEF ClientAsks, session
<1>3. /\ AskedAll(script') /\ Len(script') = Len(script) + 1 /\ script'[Len(script) + 1] = q
      /\ \A i \in 1 .. Len(script) : script'[i] = script[i]
      /\ \A k \in 0 .. Len(script) : Mark(script', k) = Mark(script, k)
  <2>a. 0 \in 0 .. Len(script)
    BY <1>1
  <2>b. /\ AskedAll(script') /\ Len(script') = Len(script) + 1 /\ script'[Len(script) + 1] = q
        /\ \A i \in 1 .. Len(script) : script'[i] = script[i]
    BY <1>1, <1>2, <2>a, LaterAppend
  <2>c. \A k \in 0 .. Len(script) : First(script', k) = First(script, k)
    BY <1>1, <1>2, LaterAppend
  <2>. QED BY <2>b, <2>c DEF Mark
<1>4. \A k \in 0 .. Len(script) : MeantIn(script', k) = MeantIn(script, k)
  BY <1>1, <1>2, MeantSame DEF AskedAll
<1>5. CASE faulty
  BY <1>2, <1>5 DEF PlaceInv
<1>6. CASE Astray
  <2>a. PICK i \in 1 .. Len(script) : Refuses(i) /\ script[i].time # 0 /\ received > Mark(script, i)
    BY <1>6 DEF Astray
  <2>b. i \in 1 .. Len(script') /\ Refuses(i)' /\ script'[i].time # 0 /\ Mark(script', i) = Mark(script, i)
    BY <1>1, <1>3, <2>a DEF Refuses
  <2>c. received' = received
    <3> DEFINE n == Len(script)
               w == Words(q)
    <3>1. /\ WordsOf(n) = Mark(script, n) /\ Mark(script, n) \in Nat
      BY <1>1, WordsOfMark
    <3>2. Len(script') = n + 1 /\ n + 1 \in 0 .. Len(script') /\ n \in 0 .. Len(script') - 1
      BY <1>1, <1>3
    <3>3. WordsOf(Len(script))' = Mark(script', n + 1)
      <4>1. Len(script') \in 0 .. Len(script')
        BY <3>2
      <4>2. Len(FlattenSeq([j \in 1 .. Len(script') |-> Words(script'[j])])) = Mark(script', Len(script'))
        BY <1>3, <4>1, MarkIsLen
      <4>3. WordsOf(Len(script))' = Len(FlattenSeq([j \in 1 .. Len(script') |-> Words(script'[j])]))
        BY DEF WordsOf
      <4>. QED BY <3>2, <4>2, <4>3
    <3>4. Mark(script', n + 1) = Mark(script', n) + Len(w)
      BY <1>3, <3>2, MarkNext
    <3>5. Mark(script', n) = Mark(script, n)
      BY <1>1, <1>3
    <3>6. w \in Seq(Nat)
      BY RequestAsked, WordsType
    <3> HIDE DEF w
    <3>7. Len(unsent') = Len(unsent) + Len(w) /\ Len(unsent) \in Nat /\ Len(w) \in Nat
      BY <1>1, <1>2, <3>6, Joined DEF w
    <3>8. WordsOf(Len(script))' = Mark(script, n) + Len(w)
      BY <3>2, <3>3, <3>4, <3>5
    <3> DEFINE m == Mark(script, n)
               x == WordsOf(Len(script))'
    <3>9. received' = x - Len(unsent') /\ received = m - Len(unsent) /\ x = m + Len(w) /\ m \in Nat
      BY <3>1, <3>8 DEF received
    <3> HIDE DEF m, x
    <3>. QED BY <3>7, <3>9
  <2>. QED BY <2>a, <2>b, <2>c DEF Astray, PlaceInv
<1>7. ASSUME NEW k \in 0 .. Len(script), At(k)
      PROVE  At(k)'
  <2>a. k \in 0 .. Len(script') /\ k \in Nat
    BY <1>1, <1>3
  <2>b. k < Len(script) => k + 1 \in 0 .. Len(script) /\ script'[k + 1] = script[k + 1] /\ k < Len(script')
    BY <1>1, <1>3
  <2>c. CASE Between(k)
    <3>1. Ahead(<<>>, k)'
      BY <2>c, AskAhead DEF Between
    <3>2. HalfBefore(k) => HalfBefore(k)'
      <4> SUFFICES ASSUME HalfBefore(k) PROVE HalfBefore(k)'
        OBVIOUS
      <4>1. PICK i \in 1 .. k : script[i].kind = "HALF"
        BY DEF HalfBefore
      <4>2. i \in 1 .. Len(script)
        BY <1>1
      <4>3. script'[i] = script[i]
        BY <1>3, <4>2
      <4>. QED BY <4>1, <4>3 DEF HalfBefore
    <3>3. k = Len(script) => Len(buffer) < Len(Words(script'[k + 1]))
      <4> SUFFICES ASSUME k = Len(script) PROVE Len(buffer) < Len(Words(script'[k + 1]))
        OBVIOUS
      <4>1. Words(script'[k + 1]) = Words(q) /\ Len(Words(q)) \in Nat /\ Len(Words(q)) >= 2
        BY <1>3, RequestAsked, WordsType
      <4>2. buffer \o unsent = <<>> \o <<>>
        BY <1>1, <2>c, LaterNone DEF Between, Ahead
      <4>3. Len(buffer \o unsent) = Len(buffer) + Len(unsent) /\ Len(buffer) \in Nat /\ Len(unsent) \in Nat
        BY <1>1, Joined
      <4>4. Len(buffer \o unsent) = 0
        BY <4>2
      <4>. QED BY <4>1, <4>3, <4>4
    <3>4. k < Len(script) \/ k = Len(script)
      BY <1>1
    <3>. QED BY <1>2, <1>4, <2>b, <2>c, <3>1, <3>2, <3>3, <3>4 DEF At, Between
  <2>d. CASE PushStarted(k)
    <3>1. k + 1 \in 0 .. Len(script) /\ Ahead(DataPart(script[k + 1]) \o EndPart(script[k + 1]), k + 1)
      BY <2>b, <2>d DEF PushStarted, Pushing
    <3>2. Ahead(DataPart(script[k + 1]) \o EndPart(script[k + 1]), k + 1)'
      <4>1. PICK a : a = DataPart(script[k + 1]) \o EndPart(script[k + 1])
        OBVIOUS
      <4>2. Ahead(a, k + 1)'
        BY <3>1, <4>1, AskAhead
      <4>3. a = DataPart(script'[k + 1]) \o EndPart(script'[k + 1])
        BY <2>b, <2>d, <4>1 DEF PushStarted, Pushing
      <4>. QED BY <4>2, <4>3 DEF Ahead
    <3>. QED BY <1>2, <1>4, <2>b, <2>d, <3>2 DEF At, PushStarted, Pushing
  <2>e. CASE PushWritten(k)
    <3>1. k + 1 \in 0 .. Len(script) /\ Ahead(EndPart(script[k + 1]), k + 1)
      BY <2>b, <2>e DEF PushWritten, Pushing
    <3>2. Ahead(EndPart(script[k + 1]), k + 1)'
      <4>1. PICK a : a = EndPart(script[k + 1])
        OBVIOUS
      <4>2. Ahead(a, k + 1)'
        BY <3>1, <4>1, AskAhead
      <4>3. a = EndPart(script'[k + 1])
        BY <2>b, <2>e, <4>1 DEF PushWritten, Pushing
      <4>. QED BY <4>2, <4>3 DEF Ahead
    <3>. QED BY <1>2, <1>4, <2>b, <2>e, <3>2 DEF At, PushWritten, Pushing
  <2>f. CASE Refusing(k)
    <3>1. k + 1 \in 0 .. Len(script)
      BY <2>b, <2>f DEF Refusing
    <3>2. /\ Ahead(DataPart(script[k + 1]) \o EndPart(script[k + 1]), k + 1) =>
                Ahead(DataPart(script[k + 1]) \o EndPart(script[k + 1]), k + 1)'
          /\ Ahead(EndPart(script[k + 1]), k + 1) => Ahead(EndPart(script[k + 1]), k + 1)'
      <4>1. PICK a, b : a = DataPart(script[k + 1]) \o EndPart(script[k + 1]) /\ b = EndPart(script[k + 1])
        OBVIOUS
      <4>2. (Ahead(a, k + 1) => Ahead(a, k + 1)') /\ (Ahead(b, k + 1) => Ahead(b, k + 1)')
        BY <3>1, AskAhead
      <4>3. a = DataPart(script'[k + 1]) \o EndPart(script'[k + 1]) /\ b = EndPart(script'[k + 1])
        BY <2>b, <2>f, <4>1 DEF Refusing
      <4>. QED BY <4>1, <4>2, <4>3 DEF Ahead
    <3>. QED BY <1>2, <1>4, <2>b, <2>f, <3>1, <3>2 DEF At, Refusing, Refuses
  <2>. QED BY <1>7, <2>c, <2>d, <2>e, <2>f DEF At
<1>8. \A k \in 0 .. Len(script) : k \in 0 .. Len(script')
  BY <1>1, <1>3
<1>. QED BY <1>5, <1>6, <1>7, <1>8 DEF PlaceInv

(* A WRTE brings words, and loses none. *)
LEMMA WrtePlace ==
  ASSUME TypeInv, PlaceInv, NEW n \in 1 .. Len(unsent), handle_data(n)
  PROVE  PlaceInv'
<1>1. buffer' \o unsent' = buffer \o unsent /\ Len(unsent') = Len(unsent) - n
  BY WrteTypes
<1>2. UNCHANGED <<state, current_file, files, replies, faulty, script>> /\ pc' = "loop"
  BY DEF handle_data
<1>3. CASE Astray
  <2>a. PICK i \in 1 .. Len(script) : Refuses(i) /\ script[i].time # 0 /\ received > Mark(script, i)
    BY <1>3 DEF Astray
  <2>b. /\ WordsOf(Len(script)) = Mark(script, Len(script)) /\ Mark(script, Len(script)) \in Nat
        /\ Mark(script, i) \in Nat /\ Len(unsent) \in Nat
    <3>1. AskedAll(script) /\ unsent \in Seq(Nat) /\ Len(script) \in 0 .. Len(script) /\ i \in 0 .. Len(script)
      BY PiecesType DEF TypeInv, SyncTypeOK
    <3>. QED BY <3>1, WordsOfMark
  <2>c. WordsOf(Len(script))' = WordsOf(Len(script))
    BY <1>2 DEF WordsOf
  <2>d. received' = received + n /\ received \in Int
    <3> DEFINE m == WordsOf(Len(script))
    <3>1. m \in Nat /\ received = m - Len(unsent) /\ received' = m - Len(unsent')
      BY <2>b, <2>c DEF received
    <3> HIDE DEF m
    <3>. QED BY <1>1, <2>b, <3>1
  <2>e. received' > Mark(script, i)
    BY <2>a, <2>b, <2>d
  <2>. QED BY <1>2, <2>a, <2>e DEF Astray, PlaceInv, Refuses
<1>4. ASSUME NEW k \in 0 .. Len(script), At(k)
      PROVE  At(k)'
  <2>a. \A a : Ahead(a, k) => Ahead(a, k)'
    BY <1>1, <1>2 DEF Ahead
  <2>b. \A a : Ahead(a, k + 1) => Ahead(a, k + 1)'
    BY <1>1, <1>2 DEF Ahead
  <2>c. CASE Between(k)
    BY <1>2, <2>a, <2>c DEF At, Between
  <2>d. CASE PushStarted(k)
    <3>1. Ahead(DataPart(script[k + 1]) \o EndPart(script[k + 1]), k + 1)'
      BY <1>1, <1>2, <2>d DEF PushStarted, Ahead
    <3>. QED BY <1>2, <2>d, <3>1 DEF At, PushStarted, Pushing
  <2>e. CASE PushWritten(k)
    <3>1. Ahead(EndPart(script[k + 1]), k + 1)'
      BY <1>1, <1>2, <2>e DEF PushWritten, Ahead
    <3>. QED BY <1>2, <2>e, <3>1 DEF At, PushWritten, Pushing
  <2>f. CASE Refusing(k)
    <3>1. \/ /\ script[k + 1].data # <<>>
             /\ Ahead(DataPart(script[k + 1]) \o EndPart(script[k + 1]), k + 1)'
          \/ Ahead(EndPart(script[k + 1]), k + 1)'
      BY <1>1, <1>2, <2>f DEF Refusing, Ahead
    <3>. QED BY <1>2, <2>f, <3>1 DEF At, Refusing, Refuses
  <2>. QED BY <1>4, <2>c, <2>d, <2>e, <2>f DEF At
<1>. QED BY <1>2, <1>3, <1>4 DEF PlaceInv

--------------------------------
(* What the handler reads, and what it leaves. *)

(* Words with nothing before or behind them. *)
LEMMA Alone == \A a \in Seq(Nat) : a \o <<>> = a /\ <<>> \o a = a
  BY ConcatEmptySeq, EmptySeq

(* The words that come first are those in the buffer, as far as it goes. *)
LEMMA Reads ==
  ASSUME TypeInv, NEW k \in 0 .. Len(script), NEW c \in Seq(Nat), NEW a \in Seq(Nat), Ahead(c \o a, k)
  PROVE  /\ Len(buffer) \in Nat /\ Len(c) \in Nat
         /\ \A i \in 1 .. Len(buffer) : i <= Len(c) => buffer[i] = c[i]
<1> DEFINE y == Later(script, k)
<1>1. AskedAll(script) /\ buffer \in Seq(Nat) /\ unsent \in Seq(Nat) /\ y \in Seq(Nat)
  BY PiecesType DEF TypeInv, SyncTypeOK
<1>2. buffer \o unsent = (c \o a) \o y
  BY DEF Ahead
<1> HIDE DEF y
<1>3. (c \o a) \o y = c \o (a \o y)
  <2>a. c \in Seq(Nat) /\ a \in Seq(Nat) /\ y \in Seq(Nat)
    BY <1>1
  <2>. QED BY <2>a, Assoc, ZenonT(30)
<1>4. a \o y \in Seq(Nat)
  BY <1>1, Joined
<1>. QED BY <1>1, <1>2, <1>3, <1>4, Looks

(* The words that come first are consumed, and what is ahead are the others. *)
LEMMA Consumed ==
  ASSUME TypeInv, NEW k \in 0 .. Len(script), NEW c \in Seq(Nat), NEW a \in Seq(Nat), Ahead(c \o a, k),
         Len(c) <= Len(buffer), Drain(Len(c)), UNCHANGED <<script, unsent>>
  PROVE  Ahead(a, k)' /\ SubSeq(buffer, 1, Len(c)) = c
<1> DEFINE y == Later(script, k)
           z == a \o y
<1>1. AskedAll(script) /\ buffer \in Seq(Nat) /\ unsent \in Seq(Nat) /\ y \in Seq(Nat)
  BY PiecesType DEF TypeInv, SyncTypeOK
<1>2. buffer \o unsent = (c \o a) \o y
  BY DEF Ahead
<1> HIDE DEF y
<1>3. (c \o a) \o y = c \o z
  <2>a. c \in Seq(Nat) /\ a \in Seq(Nat) /\ y \in Seq(Nat)
    BY <1>1
  <2>b. (c \o a) \o y = c \o (a \o y)
    BY <2>a, Assoc, ZenonT(30)
  <2>. QED BY <2>b
<1>4. z \in Seq(Nat)
  BY <1>1, Joined
<1> HIDE DEF z
<1>5. buffer' \o unsent' = z /\ SubSeq(buffer, 1, Len(c)) = c
  <2>a. buffer \o unsent = c \o z /\ Len(c) <= Len(buffer)
    BY <1>2, <1>3
  <2>b. buffer \in Seq(Nat) /\ unsent \in Seq(Nat) /\ c \in Seq(Nat) /\ z \in Seq(Nat)
    BY <1>1, <1>4
  <2>c. Without(buffer, Len(c)) \o unsent = z /\ SubSeq(buffer, 1, Len(c)) = c
    BY <2>a, <2>b, Drained
  <2>. QED BY <2>c DEF Drain, Without
<1>. QED BY <1>5 DEF Ahead, z, y

(* Behind k requests comes the next, when there is a header. *)
LEMMA NextRequest ==
  ASSUME TypeInv, NEW k \in 0 .. Len(script), Ahead(<<>>, k), HasHeader
  PROVE  /\ k < Len(script) /\ k + 1 \in 0 .. Len(script) /\ k \in 0 .. Len(script) - 1
         /\ Asked(script[k + 1])
         /\ Ahead(Words(script[k + 1]), k + 1)
<1>1. AskedAll(script) /\ buffer \in Seq(Nat) /\ unsent \in Seq(Nat) /\ Len(script) \in Nat
  BY PiecesType DEF TypeInv, SyncTypeOK
<1>2. buffer \o unsent = Later(script, k)
  <2>a. Later(script, k) \in Seq(Nat)
    BY <1>1, PiecesType
  <2>. QED BY <2>a, Alone DEF Ahead
<1>3. k # Len(script)
  <2>a. Later(script, Len(script)) = <<>>
    BY <1>1, LaterNone
  <2>b. Len(buffer \o unsent) = Len(buffer) + Len(unsent) /\ Len(buffer) \in Nat /\ Len(unsent) \in Nat
    BY <1>1, Joined
  <2>c. Len(<<>>) = 0
    OBVIOUS
  <2>. QED BY <1>2, <2>a, <2>b, <2>c DEF HasHeader
<1>4. k < Len(script) /\ k + 1 \in 0 .. Len(script) /\ k \in 0 .. Len(script) - 1 /\ k + 1 \in 1 .. Len(script)
  BY <1>1, <1>3
<1>5. Asked(script[k + 1])
  BY <1>1, <1>4, PiecesType
<1>6. Words(script[k + 1]) \in Seq(Nat)
  BY <1>5, WordsType
<1>7. Later(script, k) = Words(script[k + 1]) \o Later(script, k + 1)
  BY <1>1, <1>4, LaterHead
<1>. QED BY <1>2, <1>4, <1>5, <1>6, <1>7 DEF Ahead

(* What the header says, when a request comes next. *)
LEMMA AtRequest ==
  ASSUME TypeInv, NEW k \in 0 .. Len(script), Ahead(<<>>, k), HasHeader
  PROVE  /\ id = IdOf(script[k + 1].kind)
         /\ script[k + 1].kind \in {"NONE", "QUIT"} =>
                length = 0 /\ HasPayload /\ Len(Words(script[k + 1])) = 2
         /\ script[k + 1].kind \notin {"NONE", "QUIT"} =>
                length = 1 /\ (HasPayload => path = script[k + 1].path)
         /\ script[k + 1].kind \in {"STAT", "RECV", "LIST"} => Len(Words(script[k + 1])) = 3
<1> DEFINE q == script[k + 1]
           w == Words(q)
<1>1. k + 1 \in 0 .. Len(script) /\ Asked(q) /\ Ahead(w, k + 1)
  BY NextRequest
<1>2. /\ w \in Seq(Nat) /\ Len(w) \in Nat /\ Len(w) >= 2
      /\ w[1] = IdOf(q.kind)
      /\ q.kind \in {"NONE", "QUIT"} => Len(w) = 2 /\ w[2] = 0
      /\ q.kind \in {"STAT", "RECV", "LIST"} => Len(w) = 3
      /\ q.kind \notin {"NONE", "QUIT"} => Len(w) >= 3 /\ w[2] = 1 /\ w[3] = q.path
  BY <1>1, WordsType
<1> HIDE DEF w, q
<1>3. w \o <<>> = w /\ <<>> \in Seq(Nat)
  BY <1>2, Alone, EmptySeq
<1>4. Ahead(w \o <<>>, k + 1)
  BY <1>1, <1>3
<1>5. /\ Len(buffer) \in Nat
      /\ \A i \in 1 .. Len(buffer) : i <= Len(w) => buffer[i] = w[i]
  BY <1>1, <1>2, <1>3, <1>4, Reads
<1>6. buffer[1] = w[1] /\ buffer[2] = w[2]
  <2>a. 1 \in 1 .. Len(buffer) /\ 2 \in 1 .. Len(buffer) /\ 1 <= Len(w) /\ 2 <= Len(w)
    BY <1>2, <1>5 DEF HasHeader
  <2>. QED BY <1>5, <2>a
<1>7. ASSUME q.kind \notin {"NONE", "QUIT"}, HasPayload
      PROVE  length = 1 /\ path = q.path
  <2>a. length = 1
    BY <1>2, <1>6, <1>7 DEF length
  <2>b. 3 \in 1 .. Len(buffer)
    BY <1>5, <1>7, <2>a DEF HasPayload
  <2>. QED BY <1>2, <1>5, <1>7, <2>a, <2>b DEF path
<1>8. q.kind \in {"NONE", "QUIT"} => length = 0 /\ HasPayload
  BY <1>2, <1>5, <1>6 DEF length, HasPayload, HasHeader
<1>. QED BY <1>2, <1>6, <1>7, <1>8 DEF id, length, q, w

(* What the header says, when the words of a file come next. *)
LEMMA AtData ==
  ASSUME TypeInv, NEW k \in 0 .. Len(script), NEW q, Asked(q), q.data # <<>>, NEW a \in Seq(Nat),
         Ahead(DataPart(q) \o a, k), HasHeader
  PROVE  /\ id = ID_DATA /\ length = Len(q.data)
         /\ Len(DataPart(q)) = 2 + length
         /\ HasPayload => SubSeq(buffer, 3, 2 + length) = q.data
<1> DEFINE w == DataPart(q)
           h == <<ID_DATA, Len(q.data)>>
<1>1. /\ w \in Seq(Nat) /\ w = h \o q.data /\ Len(w) = 2 + Len(q.data) /\ w[1] = ID_DATA
      /\ w[2] = Len(q.data) /\ Len(q.data) \in Nat /\ q.data \in Seq(Nat) /\ h \in Seq(Nat) /\ Len(h) = 2
  <2>a. Len(q.data) \in Nat /\ q.data \in Seq(Nat)
    BY DEF Asked
  <2>b. h \in Seq(Nat) /\ Len(h) = 2
    BY <2>a DEF ID_DATA
  <2>c. /\ w \in Seq(Nat) /\ w = h \o q.data /\ Len(w) = 2 + Len(q.data)
        /\ w[1] = ID_DATA /\ w[2] = Len(q.data)
    BY PartsType
  <2>. QED BY <2>a, <2>b, <2>c
<1> HIDE DEF w, h
<1>2. /\ Len(buffer) \in Nat
      /\ \A i \in 1 .. Len(buffer) : i <= Len(w) => buffer[i] = w[i]
  BY <1>1, Reads DEF w
<1>3. buffer[1] = w[1] /\ buffer[2] = w[2]
  <2>a. 1 \in 1 .. Len(buffer) /\ 2 \in 1 .. Len(buffer) /\ 1 <= Len(w) /\ 2 <= Len(w)
    BY <1>1, <1>2 DEF HasHeader
  <2>. QED BY <1>2, <2>a
<1>4. id = ID_DATA /\ length = Len(q.data)
  BY <1>1, <1>3 DEF id, length
<1>5. ASSUME HasPayload PROVE SubSeq(buffer, 3, 2 + length) = q.data
  <2> DEFINE n == Len(q.data)
  <2>a. n \in Nat /\ Len(buffer) >= 2 + n /\ length = n /\ Len(w) = 2 + n
    BY <1>1, <1>2, <1>4, <1>5 DEF HasPayload
  <2>b. \A i \in 1 .. n : w[2 + i] = q.data[i]
    <3>1. PICK d : d = q.data
      OBVIOUS
    <3>2. \A i \in 1 .. Len(d) : (h \o d)[2 + i] = d[i]
      <4>1. d \in Seq(Nat) /\ h \in Seq(Nat)
        BY <1>1, <3>1
      <4>2. \A i \in 1 .. Len(d) : (h \o d)[Len(h) + i] = d[i]
        BY <4>1, Joined
      <4>. QED BY <1>1, <4>2
    <3>. QED BY <1>1, <3>1, <3>2
  <2>c. \A i \in 1 .. n : buffer[2 + i] = q.data[i]
    <3> TAKE i \in 1 .. n
    <3> HIDE DEF n
    <3>1. 2 + i \in 1 .. Len(buffer) /\ 2 + i <= Len(w)
      BY <1>2, <2>a
    <3>. QED BY <1>2, <2>b, <3>1
  <2>d. buffer \in Seq(Nat)
    BY DEF TypeInv, SyncTypeOK
  <2> HIDE DEF n
  <2>e. /\ Len(SubSeq(buffer, 3, 2 + n)) = n
        /\ \A i \in 1 .. n : SubSeq(buffer, 3, 2 + n)[i] = buffer[2 + i]
        /\ SubSeq(buffer, 3, 2 + n) \in Seq(Nat)
    BY <1>2, <2>a, <2>d
  <2>f. \A i \in 1 .. n : SubSeq(buffer, 3, 2 + n)[i] = q.data[i]
    BY <2>c, <2>e
  <2> DEFINE x == SubSeq(buffer, 3, 2 + n)
  <2>g. x \in Seq(Nat) /\ Len(x) = n /\ Len(q.data) = n /\ \A i \in 1 .. n : x[i] = q.data[i]
    BY <2>e, <2>f DEF n
  <2> HIDE DEF x
  <2>h. x = q.data
    BY <1>1, <2>g, SeqEqual
  <2>. QED BY <2>a, <2>h DEF x
<1>. QED BY <1>1, <1>4, <1>5 DEF w

(* What the header says, when the end of a push comes next. *)
LEMMA AtEnd ==
  ASSUME TypeInv, NEW k \in 0 .. Len(script), NEW q, Asked(q), q.kind = "SEND",
         Ahead(EndPart(q), k), HasHeader
  PROVE  id = ID_DONE /\ length = q.time /\ Len(EndPart(q)) = 2 /\ Ahead(EndPart(q) \o <<>>, k)
<1> DEFINE w == EndPart(q)
<1>1. w \in Seq(Nat) /\ Len(w) = 2 /\ w[1] = ID_DONE /\ w[2] = q.time
  BY PartsType DEF EndPart, Asked
<1> HIDE DEF w
<1>2. w \o <<>> = w /\ <<>> \in Seq(Nat)
  BY <1>1, Alone, EmptySeq
<1>3. Ahead(w \o <<>>, k)
  BY <1>2 DEF w
<1>4. /\ Len(buffer) \in Nat
      /\ \A i \in 1 .. Len(buffer) : i <= Len(w) => buffer[i] = w[i]
  BY <1>1, <1>2, <1>3, Reads
<1>5. 1 \in 1 .. Len(buffer) /\ 2 \in 1 .. Len(buffer) /\ 1 <= Len(w) /\ 2 <= Len(w)
  BY <1>1, <1>4 DEF HasHeader
<1>6. buffer[1] = w[1] /\ buffer[2] = w[2]
  BY <1>4, <1>5
<1>. QED BY <1>1, <1>3, <1>6 DEF id, length, w

(* A turn of the loop receives nothing. *)
LEMMA LoopAstray ==
  ASSUME Astray, UNCHANGED <<script, unsent>>
  PROVE  Astray'
<1>1. received' = received
  BY DEF received, WordsOf
<1>. QED BY <1>1 DEF Astray, Refuses

--------------------------------
(* The turns of the loop, by where the session is. *)

(* The outcome of a request is of the type of the answers. *)
LEMMA MeantReplies ==
  ASSUME TypeInv, NEW k \in 0 .. Len(script), Between(k)
  PROVE  /\ MeantIn(script, k).replies = replies /\ replies \in Seq(Messages)
         /\ MeantIn(script, k).files = files
  BY DEF TypeInv, Between

(* A request that is all there in its header and its path is consumed. *)
LEMMA RequestConsumed ==
  ASSUME TypeInv, NEW k \in 0 .. Len(script), Ahead(<<>>, k), HasHeader, HasPayload,
         script[k + 1].kind \in {"STAT", "RECV", "LIST", "NONE", "QUIT"},
         Drain(2 + length), UNCHANGED <<script, unsent>>
  PROVE  k + 1 \in 0 .. Len(script') /\ Ahead(<<>>, k + 1)'
<1> DEFINE w == Words(script[k + 1])
<1>1. k + 1 \in 0 .. Len(script) /\ Asked(script[k + 1]) /\ Ahead(w, k + 1)
  BY NextRequest
<1>2. w \in Seq(Nat) /\ Len(w) = 2 + length
  <2>a. w \in Seq(Nat)
    BY <1>1, WordsType
  <2>b. CASE script[k + 1].kind \in {"NONE", "QUIT"}
    <3>1. length = 0 /\ Len(w) = 2
      BY <2>b, AtRequest
    <3>. QED BY <2>a, <3>1
  <2>c. CASE script[k + 1].kind \in {"STAT", "RECV", "LIST"}
    <3>1. length = 1 /\ Len(w) = 3
      BY <2>c, AtRequest
    <3>. QED BY <2>a, <3>1
  <2>. QED BY <2>b, <2>c
<1> HIDE DEF w
<1>3. w \o <<>> = w /\ <<>> \in Seq(Nat)
  BY <1>2, Alone, EmptySeq
<1>4. Ahead(w \o <<>>, k + 1) /\ Len(w) <= Len(buffer) /\ Drain(Len(w))
  BY <1>1, <1>2, <1>3 DEF HasPayload
<1>5. Ahead(<<>>, k + 1)'
  BY <1>1, <1>2, <1>3, <1>4, Consumed
<1>. QED BY <1>1, <1>5

(* A request that changes no file is answered. *)
LEMMA ServedPlace ==
  ASSUME TypeInv, NEW k \in 0 .. Len(script), Between(k), Stat \/ List \/ Recv \/ RecvFails
  PROVE  k + 1 \in 0 .. Len(script') /\ Between(k + 1)'
<1> DEFINE q == script[k + 1]
           out == Outcome(files, q)
<1>1. /\ HasHeader /\ HasPayload /\ Drain(2 + length) /\ pc = "loop"
      /\ id \in {ID_STAT, ID_LIST, ID_RECV}
      /\ UNCHANGED <<script, unsent, pc, state, files>>
  BY DEF Stat, List, Recv, RecvFails, Serve, Turn
<1>2. Ahead(<<>>, k)
  BY DEF Between
<1>3. /\ k \in 0 .. Len(script) - 1
      /\ id = IdOf(q.kind) /\ Asked(q)
      /\ q.kind \notin {"NONE", "QUIT"} => path = q.path
  BY <1>1, <1>2, NextRequest, AtRequest
<1>4. /\ id = ID_STAT => q.kind = "STAT"
      /\ id = ID_RECV => q.kind = "RECV"
      /\ id = ID_LIST => q.kind = "LIST"
  BY <1>3, KindById
<1>5. q.kind \in {"STAT", "RECV", "LIST"} /\ path = q.path
  BY <1>1, <1>3, <1>4
<1>6. k + 1 \in 0 .. Len(script') /\ Ahead(<<>>, k + 1)'
  BY <1>1, <1>2, <1>5, RequestConsumed
<1>7. replies' = replies \o out
  <2>a. CASE Stat
    <3>1. q.kind = "STAT"
      BY <1>4, <2>a DEF Stat, Serve
    <3>. QED BY <1>5, <2>a, <3>1 DEF Stat, Answer, Outcome
  <2>b. CASE List
    <3>1. q.kind = "LIST"
      BY <1>4, <2>b DEF List, Serve
    <3>. QED BY <1>5, <2>b, <3>1 DEF List, Answer, Outcome
  <2>c. CASE Recv
    <3>1. q.kind = "RECV"
      BY <1>4, <2>c DEF Recv, Serve
    <3>. QED BY <1>5, <2>c, <3>1 DEF Recv, Answer, Outcome
  <2>d. CASE RecvFails
    <3>1. q.kind = "RECV"
      BY <1>4, <2>d DEF RecvFails, Serve
    <3>. QED BY <1>5, <2>d, <3>1 DEF RecvFails, Answer, Outcome
  <2>. QED BY <2>a, <2>b, <2>c, <2>d
<1>8. Effect(files, q) = files
  BY <1>5 DEF Effect
<1>9. /\ MeantIn(script, k + 1).replies = replies'
      /\ MeantIn(script, k + 1).files = files'
  <2>a. AskedAll(script)
    BY DEF TypeInv
  <2>b. /\ MeantIn(script, k + 1).replies = MeantIn(script, k).replies \o Outcome(MeantIn(script, k).files, q)
        /\ MeantIn(script, k + 1).files = Effect(MeantIn(script, k).files, q)
    BY <1>3, <2>a, MeantNext
  <2>. QED BY <1>1, <1>7, <1>8, <2>b DEF Between
<1>. QED BY <1>1, <1>6, <1>9 DEF Between

(* A request that the session has no answer for, and a QUIT, which is the last. *)
LEMMA SkippedPlace ==
  ASSUME TypeInv, NEW k \in 0 .. Len(script), Between(k), Unknown \/ Quit
  PROVE  k + 1 \in 0 .. Len(script') /\ Between(k + 1)'
<1> DEFINE q == script[k + 1]
<1>1. /\ HasHeader /\ pc = "loop"
      /\ id \notin {ID_STAT, ID_LIST, ID_RECV, ID_SEND}
      /\ UNCHANGED <<script, unsent, state, files, replies>>
      /\ Quit => id = ID_QUIT
      /\ Unknown => id # ID_QUIT /\ pc' = pc /\ Drain(2 + length)
      /\ Quit => Drain(2)
  BY DEF Unknown, Quit, Turn, ID_STAT, ID_LIST, ID_RECV, ID_SEND, ID_QUIT
<1>2. Ahead(<<>>, k)
  BY DEF Between
<1>3. /\ k \in 0 .. Len(script) - 1 /\ k + 1 \in 0 .. Len(script)
      /\ id = IdOf(q.kind) /\ Asked(q)
      /\ q.kind \in {"NONE", "QUIT"} => length = 0 /\ HasPayload
  BY <1>1, <1>2, NextRequest, AtRequest
<1>4. /\ id = ID_QUIT => q.kind = "QUIT"
      /\ id # ID_QUIT => q.kind = "NONE"
  BY <1>1, <1>3, KindById
<1>5. q.kind \in {"NONE", "QUIT"} /\ length = 0 /\ HasPayload
  BY <1>1, <1>3, <1>4
<1>6. Drain(2 + length)
  BY <1>1, <1>5
<1>7. k + 1 \in 0 .. Len(script') /\ Ahead(<<>>, k + 1)'
  BY <1>1, <1>2, <1>5, <1>6, RequestConsumed
<1>8. /\ MeantIn(script, k + 1).replies = replies'
      /\ MeantIn(script, k + 1).files = files'
  <2>a. AskedAll(script) /\ replies \in Seq(Messages)
    BY DEF TypeInv
  <2>b. /\ MeantIn(script, k + 1).replies = MeantIn(script, k).replies \o Outcome(MeantIn(script, k).files, q)
        /\ MeantIn(script, k + 1).files = Effect(MeantIn(script, k).files, q)
    BY <1>3, <2>a, MeantNext
  <2>c. Outcome(files, q) = <<>> /\ Effect(files, q) = files
    BY <1>5 DEF Outcome, Effect
  <2>d. replies \o <<>> = replies
    BY <2>a, ConcatEmptySeq
  <2>. QED BY <1>1, <2>b, <2>c, <2>d DEF Between
<1>9. pc' = "loop" \/ ~ (k + 1 < Len(script))
  <2>a. CASE Unknown
    BY <1>1, <2>a
  <2>b. CASE Quit
    <3>1. q.kind = "QUIT" /\ Len(script) \in Nat
      BY <1>1, <1>4, <2>b, PiecesType DEF TypeInv
    <3>2. k + 1 \notin 1 .. Len(script) - 1
      BY <3>1 DEF TypeInv, QuitLast
    <3>. QED BY <1>3, <3>1, <3>2
  <2>. QED BY <2>a, <2>b
<1>. QED BY <1>1, <1>7, <1>8, <1>9 DEF Between

(* A push begins: its file is there, and empty. *)
LEMMA SendPlace ==
  ASSUME TypeInv, NEW k \in 0 .. Len(script), Between(k), Send \/ SendFails
  PROVE  k \in 0 .. Len(script') /\ At(k)'
<1> DEFINE q == script[k + 1]
           d == DataPart(q) \o EndPart(q)
<1>1. /\ HasHeader /\ HasPayload /\ Drain(2 + length) /\ pc = "loop"
      /\ id = ID_SEND
      /\ UNCHANGED <<script, unsent, pc>>
  BY DEF Send, SendFails, Serve, Turn
<1>2. Ahead(<<>>, k)
  BY DEF Between
<1>3. /\ k \in 0 .. Len(script) - 1 /\ k + 1 \in 0 .. Len(script) /\ k < Len(script)
      /\ id = IdOf(q.kind) /\ Asked(q) /\ Ahead(Words(q), k + 1)
      /\ q.kind \notin {"NONE", "QUIT"} => path = q.path /\ length = 1
  BY <1>1, <1>2, NextRequest, AtRequest
<1>4. IsPush(q) /\ path = q.path /\ length = 1
  BY <1>1, <1>3, KindById DEF IsPush
<1>5. q.path \in Paths
  BY <1>3, <1>4 DEF Asked, IsPush
<1>6. /\ HeadPart(q) \in Seq(Nat) /\ Len(HeadPart(q)) = 3 /\ d \in Seq(Nat)
      /\ Words(q) = HeadPart(q) \o d
      /\ EndPart(q) \in Seq(Nat)
      /\ q.data = <<>> => DataPart(q) = <<>>
  <2>a. /\ HeadPart(q) \in Seq(Nat) /\ Len(HeadPart(q)) = 3
        /\ DataPart(q) \in Seq(Nat) /\ EndPart(q) \in Seq(Nat)
        /\ q.data = <<>> => DataPart(q) = <<>>
    BY <1>3, PartsType
  <2>b. d \in Seq(Nat)
    BY <2>a, Joined
  <2>. QED BY <1>3, <1>4, <2>a, <2>b, PushWords
<1>7. \A a : a = d => Ahead(a, k + 1)'
  <2>a. Ahead(HeadPart(q) \o d, k + 1) /\ Len(HeadPart(q)) <= Len(buffer) /\ Drain(Len(HeadPart(q)))
    BY <1>1, <1>3, <1>4, <1>6 DEF HasPayload
  <2> HIDE DEF d
  <2>b. TAKE a
  <2>c. HAVE a = d
  <2>d. PICK c : c = HeadPart(q)
    OBVIOUS
  <2>e. Ahead(c \o a, k + 1) /\ Len(c) <= Len(buffer) /\ Drain(Len(c)) /\ c \in Seq(Nat) /\ a \in Seq(Nat)
    BY <1>6, <2>a, <2>c, <2>d
  <2>. QED BY <1>1, <1>3, <2>e, Consumed
<1>8. /\ MeantIn(script, k + 1).replies = replies \o Outcome(files, q)
      /\ MeantIn(script, k).replies = replies
      /\ MeantIn(script, k).files = files
  <2>a. AskedAll(script)
    BY DEF TypeInv
  <2>b. MeantIn(script, k + 1).replies = MeantIn(script, k).replies \o Outcome(MeantIn(script, k).files, q)
    BY <1>3, <2>a, MeantNext
  <2>. QED BY <2>b DEF Between
<1>9. CASE Send
  <2>a. /\ q.path \notin Refused /\ files' = put(files, q.path, <<>>)
        /\ current_file' = q.path /\ state' = "ReceivingFile" /\ replies' = replies
    BY <1>4, <1>9 DEF Send
  <2>b. Pushing(k)'
    BY <1>1, <1>3, <1>4, <1>8, <2>a DEF Pushing
  <2>c. CASE q.data # <<>>
    <3>1. (DataPart(q) \o EndPart(q))' = d
      BY <1>1
    <3>2. Ahead(DataPart(q) \o EndPart(q), k + 1)'
      BY <1>7, <3>1 DEF Ahead
    <3>. QED BY <1>1, <1>8, <2>a, <2>b, <2>c, <3>2 DEF PushStarted, At
  <2>d. CASE q.data = <<>>
    <3>1. d = EndPart(q)
      BY <1>6, <2>d, Alone
    <3>2. EndPart(q)' = d
      BY <1>1, <3>1
    <3>3. Ahead(EndPart(q), k + 1)'
      BY <1>7, <3>2 DEF Ahead
    <3>. QED BY <1>1, <1>8, <2>a, <2>b, <2>d, <3>3 DEF PushWritten, At
  <2>. QED BY <1>1, <2>c, <2>d
<1>10. CASE SendFails
  <2>a. q.path \in Refused /\ replies' = replies \o <<FAIL>> /\ UNCHANGED <<files, state>>
    BY <1>4, <1>5, <1>10 DEF SendFails, Answer
  <2>b. q.kind = "SEND"
    BY <1>3, <1>4, <2>a DEF Asked, IsPush
  <2>c. Outcome(files, q) = <<FAIL>>
    BY <2>a, <2>b DEF Outcome
  <2>d. state = "Idle"
    BY DEF Between
  <2>e. (DataPart(q) \o EndPart(q))' = d
    BY <1>1
  <2>f. Ahead(DataPart(q) \o EndPart(q), k + 1)'
    BY <1>7, <2>e DEF Ahead
  <2>g. Ahead(EndPart(q), k + 1)' \/ q.data # <<>>
    <3> SUFFICES ASSUME q.data = <<>> PROVE Ahead(EndPart(q), k + 1)'
      OBVIOUS
    <3>1. d = EndPart(q)
      BY <1>6, Alone
    <3>2. EndPart(q)' = d
      BY <1>1, <3>1
    <3>. QED BY <1>7, <3>2 DEF Ahead
  <2>h. Refusing(k)'
    BY <1>1, <1>3, <1>8, <2>a, <2>b, <2>c, <2>d, <2>f, <2>g DEF Refusing, Refuses
  <2>. QED BY <1>1, <2>h DEF At
<1>. QED BY <1>9, <1>10

(* What is ahead stays ahead while nothing is consumed. *)
LEMMA AheadSame ==
  ASSUME NEW k, NEW a, Ahead(a, k), UNCHANGED <<buffer, unsent, script>>
  PROVE  Ahead(a, k)'
  BY DEF Ahead

(* The words of a file are written to it, all of them and nothing else. *)
LEMMA DataPlace ==
  ASSUME TypeInv, NEW k \in 0 .. Len(script), PushStarted(k), Done \/ Data \/ Unexpected
  PROVE  k \in 0 .. Len(script') /\ PushWritten(k)'
<1> DEFINE q == script[k + 1]
           fs == MeantIn(script, k).files
<1>1. /\ k + 1 \in 0 .. Len(script) /\ k < Len(script) /\ Asked(q)
      /\ q.data # <<>> /\ Ahead(DataPart(q) \o EndPart(q), k + 1)
      /\ files = put(fs, q.path, <<>>) /\ current_file = q.path
  <2>a. /\ k < Len(script) /\ AskedAll(script)
        /\ q.data # <<>> /\ Ahead(DataPart(q) \o EndPart(q), k + 1)
        /\ files = put(fs, q.path, <<>>) /\ current_file = q.path
    BY DEF PushStarted, Pushing, TypeInv
  <2>b. Len(script) \in Nat /\ k + 1 \in 1 .. Len(script)
    BY <2>a, PiecesType
  <2>c. Asked(q)
    BY <2>a, <2>b, PiecesType
  <2>. QED BY <2>a, <2>b, <2>c
<1>2. HasHeader /\ UNCHANGED <<script, unsent>>
  BY DEF Done, Data, Unexpected, HasData, Turn
<1>3. EndPart(q) \in Seq(Nat) /\ DataPart(q) \in Seq(Nat) /\ q.data \in Seq(Nat)
  BY <1>1, PartsType DEF Asked
<1>4. /\ id = ID_DATA /\ length = Len(q.data)
      /\ Len(DataPart(q)) = 2 + length
      /\ HasPayload => SubSeq(buffer, 3, 2 + length) = q.data
  BY <1>1, <1>2, <1>3, AtData
<1>5. Data
  BY <1>4 DEF Done, Unexpected, ID_DATA, ID_DONE
<1>6. /\ HasPayload /\ pc' = "loop"
      /\ UNCHANGED <<state, current_file, replies>>
      /\ Drain(2 + length)
      /\ files' = put(files, q.path, files[q.path] \o SubSeq(buffer, 3, 2 + length))
  BY <1>1, <1>5 DEF Data, HasData, Turn, Receive
<1>7. files' = put(fs, q.path, q.data)
  <2>a. files[q.path] = <<>>
    <3>1. put(fs, q.path, <<>>)[q.path] = <<>>
      BY DEF put
    <3>. QED BY <1>1, <3>1
  <2>b. files[q.path] \o SubSeq(buffer, 3, 2 + length) = q.data
    BY <1>3, <1>4, <1>6, <2>a, Alone
  <2>c. put(put(fs, q.path, <<>>), q.path, q.data) = put(fs, q.path, q.data)
    BY PutTwice
  <2>d. files' = put(files, q.path, q.data)
    BY <1>6, <2>b
  <2>. QED BY <1>1, <2>c, <2>d
<1>8. Ahead(EndPart(q), k + 1)'
  <2>a. PICK c, a : c = DataPart(q) /\ a = EndPart(q)
    OBVIOUS
  <2>b. Ahead(c \o a, k + 1) /\ c \in Seq(Nat) /\ a \in Seq(Nat) /\ Len(c) <= Len(buffer) /\ Drain(Len(c))
    BY <1>1, <1>3, <1>4, <1>6, <2>a DEF HasPayload
  <2>c. Ahead(a, k + 1)'
    BY <1>1, <1>2, <2>b, Consumed
  <2>d. EndPart(q)' = a
    BY <1>2, <2>a
  <2>. QED BY <2>c, <2>d DEF Ahead
<1>9. Pushing(k)'
  BY <1>2, <1>6 DEF PushStarted, Pushing
<1>. QED BY <1>1, <1>2, <1>6, <1>7, <1>8, <1>9 DEF PushWritten

(* A push that is written ends with its DONE, or with the request behind it. *)
LEMMA WrittenPlace ==
  ASSUME TypeInv, NEW k \in 0 .. Len(script), PushWritten(k), Done \/ Data \/ Unexpected
  PROVE  k + 1 \in 0 .. Len(script') /\ Between(k + 1)'
<1> DEFINE q == script[k + 1]
           fs == MeantIn(script, k).files
<1>1. /\ k + 1 \in 0 .. Len(script) /\ k \in 0 .. Len(script) - 1 /\ Asked(q)
      /\ IsPush(q) /\ q.path \notin Refused
      /\ Ahead(EndPart(q), k + 1)
      /\ files = put(fs, q.path, q.data)
      /\ replies = MeantIn(script, k).replies
  <2>a. /\ k < Len(script) /\ AskedAll(script)
        /\ IsPush(q) /\ q.path \notin Refused
        /\ Ahead(EndPart(q), k + 1)
        /\ files = put(fs, q.path, q.data)
        /\ replies = MeantIn(script, k).replies
    BY DEF PushWritten, Pushing, TypeInv
  <2>b. Len(script) \in Nat /\ k + 1 \in 1 .. Len(script)
    BY <2>a, PiecesType
  <2>c. Asked(q)
    BY <2>a, <2>b, PiecesType
  <2>. QED BY <2>a, <2>b, <2>c
<1>2. HasHeader /\ UNCHANGED <<script, unsent>>
  BY DEF Done, Data, Unexpected, HasData, Turn
<1>3. /\ MeantIn(script, k + 1).replies = replies \o Outcome(fs, q)
      /\ MeantIn(script, k + 1).files = files
  <2>a. AskedAll(script)
    BY DEF TypeInv
  <2>b. /\ MeantIn(script, k + 1).replies = MeantIn(script, k).replies \o Outcome(fs, q)
        /\ MeantIn(script, k + 1).files = Effect(fs, q)
    BY <1>1, <2>a, MeantNext
  <2>. QED BY <1>1, <2>b DEF Effect, IsPush
<1>4. CASE q.kind = "SEND"
  <2>a. id = ID_DONE /\ Len(EndPart(q)) = 2 /\ Ahead(EndPart(q) \o <<>>, k + 1)
    BY <1>1, <1>2, <1>4, AtEnd
  <2>b. Done
    BY <2>a DEF Data, HasData, Unexpected, ID_DATA, ID_DONE
  <2>c. /\ pc' = "loop" /\ Drain(2) /\ state' = "Idle" /\ files' = files
        /\ replies' = replies \o <<Reply("OKAY", <<>>)>>
    BY <2>b DEF Done, Turn, Answer
  <2>d. Outcome(fs, q) = <<Reply("OKAY", <<>>)>>
    BY <1>1, <1>4 DEF Outcome
  <2>e. Ahead(<<>>, k + 1)'
    <3>1. /\ EndPart(q) \in Seq(Nat) /\ <<>> \in Seq(Nat) /\ Len(EndPart(q)) <= Len(buffer)
          /\ Drain(Len(EndPart(q)))
      BY <1>1, <1>2, <2>a, <2>c, PartsType, EmptySeq DEF HasHeader
    <3>. QED BY <1>1, <1>2, <2>a, <3>1, Consumed
  <2>. QED BY <1>1, <1>2, <1>3, <2>c, <2>d, <2>e DEF Between
<1>5. CASE q.kind = "HALF"
  <2>a. EndPart(q) = <<>>
    BY <1>5 DEF EndPart
  <2>b. Ahead(<<>>, k + 1)
    BY <1>1, <2>a
  <2>c. /\ id = IdOf(script[(k + 1) + 1].kind)
        /\ Asked(script[(k + 1) + 1])
    BY <1>1, <1>2, <2>b, AtRequest, NextRequest
  <2>d. id \notin {ID_DATA, ID_DONE}
    BY <2>c, KindById
  <2>e. Unexpected
    BY <2>d DEF Done, Data, HasData
  <2>f. pc' = "ready" /\ state' = "Idle" /\ UNCHANGED <<buffer, files, replies>>
    BY <2>e DEF Unexpected
  <2>g. Ahead(<<>>, k + 1)'
    BY <1>2, <2>b, <2>f, AheadSame
  <2>h. HalfBefore(k + 1)'
    BY <1>1, <1>2, <1>5 DEF HalfBefore
  <2>i. replies \o Outcome(fs, q) = replies
    <3>1. Outcome(fs, q) = <<>> /\ replies \in Seq(Messages)
      BY <1>5 DEF Outcome, TypeInv
    <3>. QED BY <3>1, ConcatEmptySeq
  <2>. QED BY <1>1, <1>2, <1>3, <2>f, <2>g, <2>h, <2>i DEF Between
<1>. QED BY <1>1, <1>4, <1>5 DEF IsPush

(* The words of a push that was refused are skipped, part by part. *)
LEMMA RefusedPlace ==
  ASSUME TypeInv, NEW k \in 0 .. Len(script), Refusing(k), ~Astray,
         Quit \/ Stat \/ List \/ Send \/ SendFails \/ Recv \/ RecvFails \/ Unknown
  PROVE  /\ k \in 0 .. Len(script') /\ k + 1 \in 0 .. Len(script')
         /\ Refusing(k)' \/ Between(k + 1)'
<1> DEFINE q == script[k + 1]
<1>1. /\ k + 1 \in 0 .. Len(script) /\ k \in 0 .. Len(script) - 1 /\ Asked(q)
      /\ k < Len(script) /\ k + 1 \in 1 .. Len(script)
      /\ q.kind = "SEND" /\ q.path \in Refused
      /\ state = "Idle" /\ replies = MeantIn(script, k + 1).replies
      /\ files = MeantIn(script, k).files
  <2>a. /\ k < Len(script) /\ AskedAll(script)
        /\ q.kind = "SEND" /\ q.path \in Refused
        /\ state = "Idle" /\ replies = MeantIn(script, k + 1).replies
        /\ files = MeantIn(script, k).files
    BY DEF Refusing, Refuses, TypeInv
  <2>b. Len(script) \in Nat /\ k + 1 \in 1 .. Len(script)
    BY <2>a, PiecesType
  <2>c. Asked(q)
    BY <2>a, <2>b, PiecesType
  <2>. QED BY <2>a, <2>b, <2>c
<1>2. HasHeader /\ UNCHANGED <<script, unsent>>
  BY DEF Quit, Stat, List, Send, SendFails, Recv, RecvFails, Unknown, Serve, Turn
<1>3. /\ DataPart(q) \in Seq(Nat) /\ EndPart(q) \in Seq(Nat) /\ <<>> \in Seq(Nat)
      /\ q.data = <<>> => DataPart(q) = <<>>
  BY <1>1, PartsType, EmptySeq
<1>4. id \in {ID_DATA, ID_DONE} => Unknown
  BY DEF Quit, Stat, List, Send, SendFails, Recv, RecvFails, Serve,
         ID_DATA, ID_DONE, ID_QUIT, ID_STAT, ID_LIST, ID_SEND, ID_RECV
<1>5. Unknown => /\ HasPayload /\ Drain(2 + length) /\ pc' = "loop"
                 /\ UNCHANGED <<state, replies, files>>
  BY DEF Unknown, Turn
<1>6. CASE q.data # <<>> /\ Ahead(DataPart(q) \o EndPart(q), k + 1)
  <2>a. id = ID_DATA /\ Len(DataPart(q)) = 2 + length
    BY <1>1, <1>2, <1>3, <1>6, AtData
  <2>b. Unknown
    BY <1>4, <2>a
  <2>c. PICK c, a : c = DataPart(q) /\ a = EndPart(q)
    OBVIOUS
  <2>d. Ahead(c \o a, k + 1) /\ c \in Seq(Nat) /\ a \in Seq(Nat) /\ Len(c) <= Len(buffer) /\ Drain(Len(c))
    BY <1>3, <1>5, <1>6, <2>a, <2>b, <2>c DEF HasPayload
  <2>e. Ahead(a, k + 1)'
    BY <1>1, <1>2, <2>d, Consumed
  <2>f. EndPart(q)' = a
    BY <1>2, <2>c
  <2>g. Ahead(EndPart(q), k + 1)'
    BY <2>e, <2>f DEF Ahead
  <2>h. Refusing(k)'
    BY <1>1, <1>2, <1>5, <2>b, <2>g DEF Refusing, Refuses
  <2>. QED BY <1>1, <1>2, <2>h
<1>7. CASE Ahead(EndPart(q), k + 1)
  <2>a. id = ID_DONE /\ length = q.time /\ Len(EndPart(q)) = 2 /\ Ahead(EndPart(q) \o <<>>, k + 1)
    BY <1>1, <1>2, <1>7, AtEnd
  <2>b. HasPayload /\ Drain(2 + length) /\ pc' = "loop" /\ UNCHANGED <<state, replies, files>>
    BY <1>4, <1>5, <2>a
  <2>c. q.time = 0
    <3>1. /\ AskedAll(script) /\ buffer \in Seq(Nat) /\ unsent \in Seq(Nat)
          /\ buffer \o unsent = EndPart(q) \o Later(script, k + 1)
      BY <1>7 DEF TypeInv, SyncTypeOK, Ahead
    <3>2. received \in Int /\ received = (Mark(script, k + 1) - Len(EndPart(q))) + Len(buffer)
      BY <1>1, <1>3, <3>1, Received
    <3>3. Mark(script, k + 1) \in Nat
      BY <1>1, <3>1, WordsOfMark
    <3> DEFINE m == Mark(script, k + 1)
               t == q.time
    <3>4. received = (m - 2) + Len(buffer) /\ m \in Nat /\ Len(buffer) \in Nat /\ t \in Nat
          /\ Len(buffer) >= 2 + t
      <4>1. m \in Nat /\ Len(buffer) \in Nat
        BY <3>1, <3>3
      <4>2. t \in Nat
        BY <1>1 DEF Asked
      <4>3. Len(buffer) >= 2 + t
        BY <2>a, <2>b DEF HasPayload
      <4>4. received = (m - 2) + Len(buffer)
        BY <2>a, <3>2
      <4>. QED BY <4>1, <4>2, <4>3, <4>4
    <3>5. t = 0 \/ ~ (received > m)
      BY <1>1 DEF Astray, Refuses
    <3> HIDE DEF m, t
    <3>6. t = 0
      BY <3>4, <3>5
    <3>. QED BY <3>6 DEF t
  <2>d. Ahead(<<>>, k + 1)'
    <3>1. Len(EndPart(q)) <= Len(buffer) /\ Drain(Len(EndPart(q)))
      BY <1>2, <2>a, <2>b, <2>c DEF HasHeader
    <3>. QED BY <1>1, <1>2, <1>3, <2>a, <3>1, Consumed
  <2>e. MeantIn(script, k + 1).files = files
    <3>1. AskedAll(script)
      BY DEF TypeInv
    <3>2. MeantIn(script, k + 1).files = Effect(MeantIn(script, k).files, q)
      BY <1>1, <3>1, MeantNext
    <3>. QED BY <1>1, <3>2 DEF Effect
  <2>. QED BY <1>1, <1>2, <2>b, <2>d, <2>e DEF Between
<1>. QED BY <1>6, <1>7 DEF Refusing

(* handle_data returns when what comes next is not all there. *)
LEMMA AwaitPlace ==
  ASSUME TypeInv, NEW k \in 0 .. Len(script), At(k), Await
  PROVE  k \in 0 .. Len(script') /\ At(k)'
<1>1. /\ UNCHANGED <<buffer, unsent, script, state, current_file, files, replies>>
      /\ buffer \in Seq(Nat) /\ Len(buffer) \in Nat /\ AskedAll(script) /\ Len(script) \in Nat
  BY PiecesType DEF Await, TypeInv, SyncTypeOK
<1>2. /\ \A a : Ahead(a, k) => Ahead(a, k)'
      /\ \A a : Ahead(a, k + 1) => Ahead(a, k + 1)'
  BY <1>1 DEF Ahead
<1>3. /\ HasHeader => ~HasPayload
      /\ HasHeader /\ state = "ReceivingFile" => id = ID_DATA
  BY DEF Await
<1>4. k < Len(script) => k + 1 \in 0 .. Len(script) /\ Asked(script[k + 1])
  <2>a. k < Len(script) => k + 1 \in 1 .. Len(script)
    BY <1>1
  <2>. QED BY <1>1, <2>a, PiecesType
<1>5. CASE Between(k)
  <2>a. ASSUME k < Len(script)
        PROVE  Len(buffer) < Len(Words(script[k + 1]))
    <3>1. /\ Len(Words(script[k + 1])) \in Nat /\ Len(Words(script[k + 1])) >= 2
          /\ script[k + 1].kind \notin {"NONE", "QUIT"} => Len(Words(script[k + 1])) >= 3
      BY <1>4, <2>a, WordsType
    <3>2. CASE ~HasHeader
      BY <1>1, <3>1, <3>2 DEF HasHeader
    <3>3. CASE HasHeader
      <4>1. script[k + 1].kind \notin {"NONE", "QUIT"} /\ length = 1
        BY <1>3, <1>5, <3>3, AtRequest DEF Between
      <4>. QED BY <1>1, <1>3, <3>1, <3>3, <4>1 DEF HasPayload
    <3>. QED BY <3>2, <3>3
  <2>. QED BY <1>1, <1>2, <1>5, <2>a DEF At, Between
<1>6. CASE PushStarted(k)
  <2> DEFINE q == script[k + 1]
  <2>a. /\ k < Len(script) /\ q.data # <<>> /\ Ahead(DataPart(q) \o EndPart(q), k + 1)
    BY <1>6 DEF PushStarted, Pushing
  <2>b. Len(q.data) \in Nat /\ Len(q.data) # 0 /\ EndPart(q) \in Seq(Nat)
    BY <1>4, <2>a, PartsType, EmptySeq DEF Asked
  <2>c. Len(buffer) < 2 + Len(q.data)
    <3>1. HasHeader => length = Len(q.data)
      BY <1>4, <2>a, <2>b, AtData
    <3> DEFINE n == Len(q.data)
               b == Len(buffer)
    <3>2. b \in Nat /\ n \in Nat /\ n # 0 /\ (b >= 2 => ~ (b >= 2 + n))
      BY <1>1, <1>3, <2>b, <3>1 DEF HasHeader, HasPayload
    <3> HIDE DEF b, n
    <3>3. b < 2 + n
      BY <3>2
    <3>. QED BY <3>3 DEF b, n
  <2>d. Ahead(DataPart(q) \o EndPart(q), k + 1)'
    BY <1>1, <2>a DEF Ahead
  <2>. QED BY <1>1, <1>6, <2>c, <2>d DEF At, PushStarted, Pushing
<1>7. CASE PushWritten(k)
  <2> DEFINE q == script[k + 1]
  <2>a. /\ k < Len(script) /\ IsPush(q) /\ Ahead(EndPart(q), k + 1) /\ state = "ReceivingFile"
    BY <1>7 DEF PushWritten, Pushing
  <2>b. ASSUME HasHeader PROVE id # ID_DATA
    <3>1. CASE q.kind = "SEND"
      <4>1. id = ID_DONE
        BY <1>4, <2>a, <2>b, <3>1, AtEnd
      <4>. QED BY <4>1 DEF ID_DONE, ID_DATA
    <3>2. CASE q.kind = "HALF"
      <4>1. Ahead(<<>>, k + 1)
        BY <2>a, <3>2 DEF EndPart
      <4>2. id = IdOf(script[(k + 1) + 1].kind) /\ Asked(script[(k + 1) + 1])
        BY <1>4, <2>a, <2>b, <4>1, AtRequest, NextRequest
      <4>. QED BY <4>2, KindById
    <3>. QED BY <2>a, <3>1, <3>2 DEF IsPush
  <2>c. Len(buffer) < 2
    BY <1>1, <1>3, <2>a, <2>b DEF HasHeader
  <2>d. Ahead(EndPart(q), k + 1)'
    BY <1>1, <2>a DEF Ahead
  <2>. QED BY <1>1, <1>7, <2>c, <2>d DEF At, PushWritten, Pushing
<1>8. CASE Refusing(k)
  <2> DEFINE q == script[k + 1]
             n == Len(q.data)
             b == Len(buffer)
  <2>a. k < Len(script) /\ q.kind = "SEND" /\ Asked(q) /\ k + 1 \in 0 .. Len(script)
    BY <1>4, <1>8 DEF Refusing, Refuses
  <2>b. CASE q.data # <<>> /\ Ahead(DataPart(q) \o EndPart(q), k + 1)
    <3>1. n \in Nat /\ EndPart(q) \in Seq(Nat)
      BY <2>a, PartsType DEF Asked
    <3>2. HasHeader => length = n
      BY <2>a, <2>b, <3>1, AtData
    <3>3. b \in Nat /\ n \in Nat /\ (b >= 2 => ~ (b >= 2 + n))
      BY <1>1, <1>3, <3>1, <3>2 DEF HasHeader, HasPayload
    <3> HIDE DEF b, n
    <3>4. b < 2 + n
      BY <3>3
    <3>5. Ahead(DataPart(q) \o EndPart(q), k + 1)'
      BY <1>1, <2>b DEF Ahead
    <3>. QED BY <1>1, <1>8, <2>b, <3>4, <3>5 DEF At, Refusing, Refuses, b, n
  <2>c. CASE Ahead(EndPart(q), k + 1)
    <3>1. HasHeader => length = q.time
      BY <2>a, <2>c, AtEnd
    <3>2. q.time = 0 => b < 2
      BY <1>1, <1>3, <3>1 DEF HasHeader, HasPayload
    <3>3. Ahead(EndPart(q), k + 1)'
      BY <1>1, <2>c DEF Ahead
    <3>. QED BY <1>1, <1>8, <3>2, <3>3 DEF At, Refusing, Refuses
  <2>. QED BY <1>8, <2>b, <2>c DEF Refusing
<1>. QED BY <1>1, <1>5, <1>6, <1>7, <1>8 DEF At

(* Each turn of the loop keeps the session in its place. *)
LEMMA LoopPlace ==
  ASSUME TypeInv, PlaceInv, Loop
  PROVE  PlaceInv'
<1>1. UNCHANGED <<script, unsent>>
  BY DEF Loop, Await, Quit, Stat, List, Send, SendFails, Recv, RecvReadFails, RecvFails, Unknown,
         Done, Data, DataWriteFails, Unexpected, HasData, Serve, Turn
<1>2. CASE Astray
  BY <1>1, <1>2, LoopAstray DEF PlaceInv
<1>3. CASE faulty
  <2>a. faulty' = faulty \/ faulty' = TRUE
    BY DEF Loop, Await, Quit, Stat, List, Send, SendFails, Recv, RecvReadFails, RecvFails, Unknown,
           Done, Data, DataWriteFails, Unexpected
  <2>. QED BY <1>3, <2>a DEF PlaceInv
<1>4. CASE RecvReadFails \/ DataWriteFails
  BY <1>4 DEF RecvReadFails, DataWriteFails, PlaceInv
<1>5. ASSUME NEW k \in 0 .. Len(script), At(k), ~Astray, ~ (RecvReadFails \/ DataWriteFails)
      PROVE  \E j \in 0 .. Len(script') : At(j)'
  <2>a. CASE Await
    BY <1>5, <2>a, AwaitPlace
  <2>b. CASE Quit \/ Stat \/ List \/ Send \/ SendFails \/ Recv \/ RecvFails \/ Unknown
    <3>1. state = "Idle"
      BY <2>b DEF Quit, Stat, List, Send, SendFails, Recv, RecvFails, Unknown, Serve, Turn
    <3>2. CASE Between(k)
      <4>1. CASE Stat \/ List \/ Recv \/ RecvFails
        BY <3>2, <4>1, ServedPlace DEF At
      <4>2. CASE Unknown \/ Quit
        BY <3>2, <4>2, SkippedPlace DEF At
      <4>3. CASE Send \/ SendFails
        BY <3>2, <4>3, SendPlace
      <4>. QED BY <2>b, <4>1, <4>2, <4>3
    <3>3. CASE Refusing(k)
      BY <1>5, <2>b, <3>3, RefusedPlace DEF At
    <3>. QED BY <1>5, <3>1, <3>2, <3>3 DEF At, PushStarted, PushWritten, Pushing
  <2>c. CASE Done \/ Data \/ Unexpected
    <3>1. state = "ReceivingFile"
      BY <2>c DEF Done, Data, Unexpected, HasData, Turn
    <3>2. CASE PushStarted(k)
      BY <2>c, <3>2, DataPlace DEF At
    <3>3. CASE PushWritten(k)
      BY <2>c, <3>3, WrittenPlace DEF At
    <3>. QED BY <1>5, <3>1, <3>2, <3>3 DEF At, Between, Refusing
  <2>. QED BY <1>5, <2>a, <2>b, <2>c DEF Loop
<1>. QED BY <1>2, <1>3, <1>4, <1>5 DEF PlaceInv

(* Each step of client and session keeps the session in its place. *)
LEMMA NextPlace ==
  ASSUME TypeInv, PlaceInv, [Next]_vars
  PROVE  PlaceInv'
<1>1. ASSUME NEW q \in Requests, ClientAsks(q) PROVE PlaceInv'
  BY <1>1, AskPlace
<1>2. ASSUME NEW n \in 1 .. Len(unsent), handle_data(n) PROVE PlaceInv'
  BY <1>2, WrtePlace
<1>3. CASE Loop
  BY <1>3, LoopPlace
<1>4. CASE UNCHANGED vars
  <2>a. UNCHANGED <<buffer, state, current_file, pc, files, replies, faulty, script, unsent>>
    BY <1>4 DEF vars, session
  <2>b. Astray' = Astray
    BY <2>a DEF Astray, Refuses, received, WordsOf
  <2>c. ASSUME NEW k \in 0 .. Len(script) PROVE At(k)' = At(k)
    <3>1. Between(k)' = Between(k)
      BY <2>a DEF Between, HalfBefore, Ahead
    <3>2. PushStarted(k)' = PushStarted(k) /\ PushWritten(k)' = PushWritten(k)
      BY <2>a DEF PushStarted, PushWritten, Pushing, Ahead
    <3>3. Refusing(k)' = Refusing(k)
      BY <2>a DEF Refusing, Refuses, Ahead
    <3>. QED BY <3>1, <3>2, <3>3 DEF At
  <2>. QED BY <2>a, <2>b, <2>c DEF PlaceInv
<1>. QED BY <1>1, <1>2, <1>3, <1>4 DEF Next

(* The session is always where the requests it has been given put it: that *)
(* is the inductive invariant.                                             *)
THEOREM PlaceInvariance == Spec => []IInv
<1>1. Init => IInv
  BY InitTypes, InitPlace DEF IInv
<1>2. IInv /\ [Next]_vars => IInv'
  BY NextTypes, NextPlace DEF IInv
<1>. QED BY <1>1, <1>2, PTL DEF Spec

--------------------------------
(* What it means for the answers and the files. *)

(* The types, at all times, of whatever files a client pushes and asks for. *)
THEOREM SyncTypeCorrect == Spec => []SyncTypeOK
<1>1. IInv => SyncTypeOK
  BY DEF IInv, TypeInv
<1>. QED BY <1>1, PlaceInvariance, PTL

(* A word behind a refused push with a time stamp puts the two out of step. *)
LEMMA AstrayOutOfStep ==
  ASSUME TypeInv, Astray, received \in Int
  PROVE  ~InStep
<1>1. AskedAll(script) /\ Len(script) \in Nat
  BY PiecesType DEF TypeInv
<1>2. PICK i \in 1 .. Len(script) : Refuses(i) /\ script[i].time # 0 /\ received > Mark(script, i)
  BY DEF Astray
<1>3. i \in 0 .. Len(script) /\ Mark(script, i) \in Nat /\ WordsOf(i) = Mark(script, i)
  BY <1>1, WordsOfMark
<1>4. PICK n \in 0 .. Len(script) : i <= n /\ IsDelivered(script, received, n)
  BY <1>1, <1>2, <1>3, DeliveredThere
<1>5. Delivered = n
  BY <1>1, <1>4, DeliveredIs
<1>6. i \in 1 .. Delivered
  BY <1>2, <1>4, <1>5
<1>. QED BY <1>2, <1>3, <1>6 DEF InStep

(* How many requests are there, by how much of them is. *)
LEMMA DeliveredBy ==
  ASSUME TypeInv, NEW k \in 0 .. Len(script), NEW a \in Seq(Nat), Ahead(a, k)
  PROVE  /\ received \in Int /\ Mark(script, k) \in Nat
         /\ received = (Mark(script, k) - Len(a)) + Len(buffer)
         /\ IsDelivered(script, received, k) => Delivered = k
  BY Received, DeliveredIs, WordsOfMark DEF TypeInv, SyncTypeOK, Ahead

(* With nothing broken off, the requests that are done with are those that are there. *)
LEMMA BetweenDelivered ==
  ASSUME TypeInv, NEW k \in 0 .. Len(script), Between(k), pc # "loop", InStep
  PROVE  Delivered = k
<1>1. AskedAll(script) /\ Len(script) \in Nat /\ buffer \in Seq(Nat) /\ Len(buffer) \in Nat
  BY PiecesType DEF TypeInv, SyncTypeOK
<1>2. <<>> \in Seq(Nat) /\ Len(<<>>) = 0 /\ Ahead(<<>>, k)
  BY EmptySeq DEF Between
<1>3. /\ received \in Int /\ Mark(script, k) \in Nat
      /\ received = (Mark(script, k) - 0) + Len(buffer)
      /\ IsDelivered(script, received, k) => Delivered = k
  BY <1>2, DeliveredBy
<1>4. Mark(script, k) <= received
  <2> DEFINE m == Mark(script, k)
             b == Len(buffer)
  <2>a. m \in Nat /\ b \in Nat /\ received = (m - 0) + b
    BY <1>1, <1>3
  <2> HIDE DEF m, b
  <2>b. m <= received
    BY <2>a
  <2>. QED BY <2>b DEF m
<1>5. CASE HalfBefore(k)
  <2>a. PICK i \in 1 .. k : script[i].kind = "HALF"
    BY <1>5 DEF HalfBefore
  <2>b. PICK n \in 0 .. Len(script) : k <= n /\ IsDelivered(script, received, n)
    BY <1>1, <1>3, <1>4, DeliveredThere
  <2>c. Delivered = n
    BY <1>1, <1>3, <2>b, DeliveredIs
  <2>d. i \in 1 .. Delivered
    BY <1>1, <2>b, <2>c
  <2>e. i = Delivered
    BY <2>a, <2>d DEF InStep
  <2>. QED BY <1>1, <2>a, <2>b, <2>c, <2>e
<1>6. CASE k < Len(script) /\ ~HalfBefore(k)
  <2>a. Len(buffer) < Len(Words(script[k + 1]))
    BY <1>6 DEF Between
  <2>b. k \in 0 .. Len(script) - 1 /\ k + 1 \in 1 .. Len(script)
    BY <1>1, <1>6
  <2>c. Mark(script, k + 1) = Mark(script, k) + Len(Words(script[k + 1]))
    BY <1>1, <2>b, MarkNext
  <2>d. Asked(script[k + 1])
    BY <1>1, <2>b, PiecesType
  <2>e. Len(Words(script[k + 1])) \in Nat
    BY <2>d, WordsType
  <2> DEFINE m == Mark(script, k)
             b == Len(buffer)
             w == Len(Words(script[k + 1]))
             x == Mark(script, k + 1)
  <2>f. m \in Nat /\ b \in Nat /\ w \in Nat /\ x = m + w /\ b < w /\ received = (m - 0) + b
    BY <1>1, <1>3, <2>a, <2>c, <2>e
  <2> HIDE DEF m, b, w, x
  <2>g. x > received
    BY <2>f
  <2>. QED BY <1>3, <1>4, <2>g DEF IsDelivered, x
<1>7. CASE ~ (k < Len(script))
  BY <1>3, <1>4, <1>7 DEF IsDelivered
<1>. QED BY <1>5, <1>6, <1>7

(* The request at hand, in numbers. *)
LEMMA PushMarks ==
  ASSUME TypeInv, NEW k \in 0 .. Len(script), k < Len(script), IsPush(script[k + 1])
  PROVE  LET q == script[k + 1]
         IN  /\ Asked(q) /\ k + 1 \in 0 .. Len(script) /\ k + 1 \in 1 .. Len(script)
             /\ DataPart(q) \in Seq(Nat) /\ EndPart(q) \in Seq(Nat) /\ Len(EndPart(q)) \in Nat
             /\ DataPart(q) \o EndPart(q) \in Seq(Nat) /\ Len(DataPart(q) \o EndPart(q)) \in Nat
             /\ Len(DataPart(q)) \in Nat
             /\ Len(DataPart(q) \o EndPart(q)) = Len(DataPart(q)) + Len(EndPart(q))
             /\ Mark(script, k) \in Nat /\ Mark(script, k + 1) \in Nat
             /\ Mark(script, k + 1) = Mark(script, k) + (3 + Len(DataPart(q) \o EndPart(q)))
             /\ Len(buffer) \in Nat
<1> DEFINE q == script[k + 1]
           d == DataPart(q) \o EndPart(q)
<1>1. AskedAll(script) /\ Len(script) \in Nat /\ buffer \in Seq(Nat) /\ Len(buffer) \in Nat
  BY PiecesType DEF TypeInv, SyncTypeOK
<1>2. k \in 0 .. Len(script) - 1 /\ k + 1 \in 1 .. Len(script) /\ k + 1 \in 0 .. Len(script)
  BY <1>1
<1>3. Asked(q)
  BY <1>1, <1>2, PiecesType
<1>4. /\ HeadPart(q) \in Seq(Nat) /\ DataPart(q) \in Seq(Nat) /\ EndPart(q) \in Seq(Nat)
      /\ Len(HeadPart(q)) = 3
  BY <1>3, PartsType
<1>5. Words(q) = HeadPart(q) \o d
  BY <1>3, PushWords
<1>6. d \in Seq(Nat) /\ Len(d) = Len(DataPart(q)) + Len(EndPart(q))
  BY <1>4, Joined
<1>7. Len(DataPart(q)) \in Nat /\ Len(EndPart(q)) \in Nat
  BY <1>4, LenProperties
<1>8. /\ Mark(script, k) \in Nat /\ Mark(script, k + 1) \in Nat
      /\ Mark(script, k + 1) = Mark(script, k) + Len(Words(q))
  BY <1>1, <1>2, MarkNext
<1> HIDE DEF d
<1>9. Len(HeadPart(q) \o d) = 3 + Len(d) /\ Len(d) \in Nat
  <2>a. Len(HeadPart(q) \o d) = Len(HeadPart(q)) + Len(d)
    BY <1>4, <1>6, Joined
  <2>. QED BY <1>4, <1>6, <2>a
<1>. QED BY <1>1, <1>2, <1>3, <1>4, <1>5, <1>6, <1>7, <1>8, <1>9 DEF d

(* While a push is under way, all but its own words have been read. *)
LEMMA StartedDelivered ==
  ASSUME TypeInv, NEW k \in 0 .. Len(script), PushStarted(k), pc # "loop"
  PROVE  Delivered = k
<1> DEFINE q == script[k + 1]
           d == DataPart(q) \o EndPart(q)
           m == Mark(script, k)
           x == Mark(script, k + 1)
           e == Len(d)
           c == Len(q.data)
           f == Len(EndPart(q))
           b == Len(buffer)
<1>1. k < Len(script) /\ IsPush(q) /\ q.data # <<>> /\ Ahead(d, k + 1) /\ b < 2 + c
  BY DEF PushStarted, Pushing
<1>2. /\ Asked(q) /\ k + 1 \in 0 .. Len(script) /\ d \in Seq(Nat) /\ e \in Nat /\ f \in Nat
      /\ e = Len(DataPart(q)) + f /\ m \in Nat /\ x \in Nat /\ x = m + (3 + e) /\ b \in Nat
  BY <1>1, PushMarks
<1>3. Len(DataPart(q)) = 2 + c /\ c \in Nat
  BY <1>1, <1>2, PartsType
<1>4. received \in Int /\ received = (x - e) + b
  BY <1>1, <1>2, DeliveredBy
<1>5. AskedAll(script)
  BY DEF TypeInv
<1>6. e = (2 + c) + f
  BY <1>2, <1>3
<1> HIDE DEF m, x, e, c, f, b
<1>7. m <= received /\ x > received
  BY <1>1, <1>2, <1>3, <1>4, <1>6
<1>8. IsDelivered(script, received, k)
  BY <1>7 DEF IsDelivered, m, x
<1>. QED BY <1>4, <1>5, <1>8, DeliveredIs

(* When all but the end of it is written, that is what is not there yet: of a push *)
(* that has none, nothing is missing.                                              *)
LEMMA WrittenDelivered ==
  ASSUME TypeInv, NEW k \in 0 .. Len(script), PushWritten(k), pc # "loop"
  PROVE  /\ script[k + 1].kind = "SEND" => Delivered = k
         /\ script[k + 1].kind = "HALF" => Delivered = k + 1
<1> DEFINE q == script[k + 1]
           m == Mark(script, k)
           x == Mark(script, k + 1)
           e == Len(DataPart(q) \o EndPart(q))
           f == Len(EndPart(q))
           b == Len(buffer)
<1>1. k < Len(script) /\ IsPush(q) /\ Ahead(EndPart(q), k + 1) /\ b < 2
  BY DEF PushWritten, Pushing
<1>2. /\ Asked(q) /\ k + 1 \in 0 .. Len(script) /\ EndPart(q) \in Seq(Nat) /\ f \in Nat
      /\ Len(DataPart(q)) \in Nat /\ e = Len(DataPart(q)) + f
      /\ m \in Nat /\ x \in Nat /\ x = m + (3 + e) /\ b \in Nat /\ e \in Nat
  BY <1>1, PushMarks
<1>3. received \in Int /\ received = (x - f) + b
  BY <1>1, <1>2, DeliveredBy
<1>4. AskedAll(script)
  BY DEF TypeInv
<1>5. e >= f
  <2> DEFINE g == Len(DataPart(q))
  <2>a. g \in Nat /\ e = g + f /\ f \in Nat
    BY <1>2
  <2> HIDE DEF g, e, f
  <2>. QED BY <2>a
<1>6. ASSUME q.kind = "SEND" PROVE Delivered = k
  <2>a. f = 2
    BY <1>6 DEF EndPart
  <2> HIDE DEF m, x, e, f, b
  <2>b. m <= received /\ x > received
    BY <1>1, <1>2, <1>3, <1>5, <2>a
  <2>c. IsDelivered(script, received, k)
    BY <2>b DEF IsDelivered, m, x
  <2>. QED BY <1>3, <1>4, <2>c, DeliveredIs
<1>7. ASSUME q.kind = "HALF" PROVE Delivered = k + 1
  <2>a. f = 0
    BY <1>7 DEF EndPart
  <2> DEFINE y == Mark(script, (k + 1) + 1)
  <2>b. k + 1 < Len(script) => y >= x + 2 /\ y \in Nat
    <3> SUFFICES ASSUME k + 1 < Len(script) PROVE y >= x + 2 /\ y \in Nat
      OBVIOUS
    <3>1. k + 1 \in 0 .. Len(script) - 1
      BY <1>2, <1>4, PiecesType
    <3>. QED BY <1>4, <3>1, MarkNext
  <2> HIDE DEF m, x, e, f, b, y
  <2>c. x <= received /\ (k + 1 < Len(script) => y > received)
    BY <1>1, <1>2, <1>3, <2>a, <2>b
  <2>d. IsDelivered(script, received, k + 1)
    BY <2>c DEF IsDelivered, x, y
  <2>. QED BY <1>2, <1>3, <1>4, <2>d, DeliveredIs
<1>. QED BY <1>6, <1>7

(* Of a push that is refused, some words are missing, or none. *)
LEMMA RefusedDelivered ==
  ASSUME TypeInv, NEW k \in 0 .. Len(script), Refusing(k), ~Astray, pc # "loop"
  PROVE  Delivered \in {k, k + 1}
<1> DEFINE q == script[k + 1]
           d == DataPart(q) \o EndPart(q)
           m == Mark(script, k)
           x == Mark(script, k + 1)
           e == Len(d)
           f == Len(EndPart(q))
           b == Len(buffer)
<1>1. /\ k < Len(script) /\ IsPush(q) /\ q.kind = "SEND" /\ Refuses(k + 1)
      /\ \/ q.data # <<>> /\ Ahead(d, k + 1) /\ b < 2 + Len(q.data)
         \/ Ahead(EndPart(q), k + 1) /\ (q.time = 0 => b < 2)
  BY DEF Refusing, Refuses, IsPush
<1>2. /\ Asked(q) /\ k + 1 \in 0 .. Len(script) /\ EndPart(q) \in Seq(Nat) /\ f \in Nat
      /\ k + 1 \in 1 .. Len(script)
      /\ Len(DataPart(q)) \in Nat /\ e = Len(DataPart(q)) + f /\ d \in Seq(Nat)
      /\ m \in Nat /\ x \in Nat /\ x = m + (3 + e) /\ b \in Nat /\ e \in Nat
  BY <1>1, PushMarks
<1>3. /\ received \in Int
      /\ \/ received = (x - e) + b /\ b < e
         \/ received = (x - f) + b /\ (q.time = 0 => b < 2)
  <2>a. CASE q.data # <<>> /\ Ahead(d, k + 1) /\ b < 2 + Len(q.data)
    <3>1. received \in Int /\ received = (x - e) + b
      BY <1>2, <2>a, DeliveredBy
    <3>2. Len(DataPart(q)) = 2 + Len(q.data) /\ Len(q.data) \in Nat
      BY <1>2, <2>a, PartsType
    <3> DEFINE g == Len(DataPart(q))
               c == Len(q.data)
    <3>3. b < 2 + c /\ g = 2 + c /\ e = g + f /\ b \in Nat /\ c \in Nat /\ f \in Nat
      BY <1>2, <2>a, <3>2
    <3> HIDE DEF g, c, e, f, b
    <3>4. b < e
      BY <3>3
    <3>. QED BY <3>1, <3>4
  <2>b. CASE Ahead(EndPart(q), k + 1) /\ (q.time = 0 => b < 2)
    BY <1>2, <2>b, DeliveredBy
  <2>. QED BY <1>1, <2>a, <2>b
<1>4. AskedAll(script)
  BY DEF TypeInv
<1>5. e >= f
  <2> DEFINE g == Len(DataPart(q))
  <2>a. g \in Nat /\ e = g + f /\ f \in Nat
    BY <1>2
  <2> HIDE DEF g, e, f
  <2>. QED BY <2>a
<1>6. f = 2 /\ (q.time = 0 \/ ~ (received > x))
  BY <1>1, <1>2 DEF Astray, EndPart
<1> DEFINE y == Mark(script, (k + 1) + 1)
<1>7. k + 1 < Len(script) => y >= x + 2 /\ y \in Nat
  <2> SUFFICES ASSUME k + 1 < Len(script) PROVE y >= x + 2 /\ y \in Nat
    OBVIOUS
  <2>a. k + 1 \in 0 .. Len(script) - 1
    BY <1>2, <1>4, PiecesType
  <2>. QED BY <1>4, <2>a, MarkNext
<1> HIDE DEF m, x, e, f, b, y
<1>8. m <= received /\ (x > received \/ (x <= received /\ (k + 1 < Len(script) => y > received)))
  BY <1>2, <1>3, <1>5, <1>6, <1>7
<1>9. IsDelivered(script, received, k) \/ IsDelivered(script, received, k + 1)
  BY <1>8 DEF IsDelivered, m, x, y
<1>. QED BY <1>2, <1>3, <1>4, <1>9, DeliveredIs

(* What has been received is a number of words. *)
LEMMA ReceivedType ==
  ASSUME TypeInv
  PROVE  received \in Int
<1>1. AskedAll(script) /\ Len(script) \in 0 .. Len(script) /\ Len(unsent) \in Nat
  BY PiecesType DEF TypeInv, SyncTypeOK
<1>2. WordsOf(Len(script)) \in Nat
  BY <1>1, WordsOfMark
<1>. QED BY <1>1, <1>2 DEF received

(* However the WRTEs cut the stream, when handle_data returns each request *)
(* whose last word is there has been answered, in order, with what the     *)
(* requests before it left in the files, and nothing else has been said.   *)
THEOREM AnswersCorrect == Spec => []AnswersAsAsked
<1>1. IInv => AnswersAsAsked
  <2> SUFFICES ASSUME IInv, pc # "loop", ~faulty, InStep
               PROVE  \/ replies = Meant(Delivered).replies
                      \/ /\ Delivered < Len(script)
                         /\ Refuses(Delivered + 1)
                         /\ replies = Meant(Delivered + 1).replies
    BY DEF AnswersAsAsked
  <2>a. TypeInv /\ ~Astray
    BY ReceivedType, AstrayOutOfStep DEF IInv
  <2>b. PICK k \in 0 .. Len(script) : At(k)
    BY <2>a DEF IInv, PlaceInv
  <2>c. AskedAll(script) /\ replies \in Seq(Messages)
    BY <2>a DEF TypeInv
  <2>d. \A n : Meant(n) = MeantIn(script, n)
    BY MeantIsIn
  <2>e. CASE Between(k)
    <3>1. Delivered = k
      BY <2>a, <2>e, BetweenDelivered
    <3>. QED BY <2>d, <2>e, <3>1 DEF Between
  <2>f. CASE PushStarted(k)
    <3>1. Delivered = k
      BY <2>a, <2>f, StartedDelivered
    <3>. QED BY <2>d, <2>f, <3>1 DEF PushStarted, Pushing
  <2>g. CASE PushWritten(k)
    <3>1. replies = MeantIn(script, k).replies /\ k < Len(script) /\ IsPush(script[k + 1])
      BY <2>g DEF PushWritten, Pushing
    <3>2. CASE script[k + 1].kind = "SEND"
      <4>1. Delivered = k
        BY <2>a, <2>g, <3>2, WrittenDelivered
      <4>. QED BY <2>d, <3>1, <4>1
    <3>3. CASE script[k + 1].kind = "HALF"
      <4>1. Delivered = k + 1
        BY <2>a, <2>g, <3>3, WrittenDelivered
      <4>2. k \in 0 .. Len(script) - 1
        BY <2>c, <3>1, PiecesType
      <4>3. MeantIn(script, k + 1).replies =
              MeantIn(script, k).replies \o Outcome(MeantIn(script, k).files, script[k + 1])
        BY <2>c, <4>2, MeantNext
      <4>4. Outcome(MeantIn(script, k).files, script[k + 1]) = <<>>
        BY <3>3 DEF Outcome
      <4>5. replies \o <<>> = replies
        BY <2>c, ConcatEmptySeq
      <4>6. MeantIn(script, k + 1).replies = replies
        BY <3>1, <4>3, <4>4, <4>5
      <4>. QED BY <2>d, <4>1, <4>6
    <3>. QED BY <3>1, <3>2, <3>3 DEF IsPush
  <2>h. CASE Refusing(k)
    <3>1. Delivered \in {k, k + 1}
      BY <2>a, <2>h, RefusedDelivered
    <3>. QED BY <2>d, <2>h, <3>1 DEF Refusing
  <2>. QED BY <2>b, <2>e, <2>f, <2>g, <2>h DEF At
<1>. QED BY <1>1, PlaceInvariance, PTL

(* The files hold what the pushes that are there sent, no word lost, twice *)
(* or in another file, but for the one that is being received.             *)
THEOREM FilesCorrect == Spec => []FilesAsPushed
<1>1. IInv => FilesAsPushed
  <2> SUFFICES ASSUME IInv, pc # "loop", ~faulty, InStep, NEW p \in Paths \ {current_file}
               PROVE  /\ p \in DOMAIN files <=> p \in DOMAIN Meant(Delivered).files
                      /\ p \in DOMAIN files => files[p] = Meant(Delivered).files[p]
    BY DEF FilesAsPushed
  <2>a. TypeInv /\ ~Astray
    BY ReceivedType, AstrayOutOfStep DEF IInv
  <2>b. PICK k \in 0 .. Len(script) : At(k)
    BY <2>a DEF IInv, PlaceInv
  <2>c. AskedAll(script)
    BY <2>a DEF TypeInv
  <2>d. \A n : Meant(n) = MeantIn(script, n)
    BY MeantIsIn
  <2> DEFINE q == script[k + 1]
             fs == MeantIn(script, k).files
  <2>e. ASSUME k < Len(script)
        PROVE  MeantIn(script, k + 1).files = Effect(fs, q)
    <3>1. k \in 0 .. Len(script) - 1
      BY <2>c, <2>e, PiecesType
    <3>. QED BY <2>c, <3>1, MeantNext
  <2>f. CASE Between(k)
    <3>1. Delivered = k
      BY <2>a, <2>f, BetweenDelivered
    <3>. QED BY <2>d, <2>f, <3>1 DEF Between
  <2>g. CASE PushStarted(k)
    <3>1. Delivered = k
      BY <2>a, <2>g, StartedDelivered
    <3>2. files = put(fs, q.path, <<>>) /\ p # q.path
      BY <2>g DEF PushStarted, Pushing
    <3>. QED BY <2>d, <3>1, <3>2 DEF put
  <2>h. CASE PushWritten(k)
    <3>1. files = put(fs, q.path, q.data) /\ p # q.path /\ k < Len(script) /\ IsPush(q) /\ q.path \notin Refused
      BY <2>h DEF PushWritten, Pushing
    <3>2. CASE q.kind = "SEND"
      <4>1. Delivered = k
        BY <2>a, <2>h, <3>2, WrittenDelivered
      <4>. QED BY <2>d, <3>1, <4>1 DEF put
    <3>3. CASE q.kind = "HALF"
      <4>1. Delivered = k + 1
        BY <2>a, <2>h, <3>3, WrittenDelivered
      <4>2. MeantIn(script, k + 1).files = files
        BY <2>e, <3>1, <3>3 DEF Effect
      <4>. QED BY <2>d, <4>1, <4>2
    <3>. QED BY <3>1, <3>2, <3>3 DEF IsPush
  <2>i. CASE Refusing(k)
    <3>1. Delivered \in {k, k + 1}
      BY <2>a, <2>i, RefusedDelivered
    <3>2. MeantIn(script, k + 1).files = files /\ fs = files
      BY <2>e, <2>i DEF Refusing, Refuses, Effect
    <3>. QED BY <2>d, <3>1, <3>2
  <2>. QED BY <2>b, <2>f, <2>g, <2>h, <2>i DEF At
<1>. QED BY <1>1, PlaceInvariance, PTL

================================
