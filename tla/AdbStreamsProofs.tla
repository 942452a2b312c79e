-------- MODULE AdbStreamsProofs --------
(***************************************************************************)
(* Proofs about AdbStreams: what a client may rely on holds for any number *)
(* of streams, over any ids and for answers of any length.                 *)
(***************************************************************************)
EXTENDS AdbStreams, SequenceTheorems, TLAPS

--------------------------------
(* Messages and sequences of them. *)

LEMMA ZeroId == 0 \in LocalIds
  BY IdSpaceAssumption DEF LocalIds

(* What each message the daemon makes is and carries.                      *)
LEMMA MessageTypes ==
  ASSUME NEW l \in LocalIds, NEW r \in RemoteIds
  PROVE  /\ okay(l, r) \in DaemonMsg
         /\ clse(l, r) \in DaemonMsg
         /\ \A p \in Payloads : wrte(l, r, p) \in DaemonMsg
         /\ cnxn \in DaemonMsg
  BY ZeroId DEF okay, clse, wrte, cnxn, DaemonMsg, Payloads

LEMMA Concatenated ==
  ASSUME NEW v \in Seq(DaemonMsg), NEW w \in Seq(DaemonMsg)
  PROVE  /\ v \o w \in Seq(DaemonMsg)
         /\ Len(v \o w) = Len(v) + Len(w)
         /\ Len(v) \in Nat /\ Len(w) \in Nat
         /\ \A i \in 1 .. Len(v) : (v \o w)[i] = v[i]
         /\ \A i \in 1 .. Len(v \o w) :
              i > Len(v) => i - Len(v) \in 1 .. Len(w) /\ (v \o w)[i] = w[i - Len(v)]
  OBVIOUS

LEMMA OneAndOne ==
  ASSUME NEW a \in DaemonMsg, NEW b \in DaemonMsg
  PROVE  <<a>> \o <<b>> = <<a, b>>
  <1> DEFINE v == <<a>> \o <<b>>
             w == <<a, b>>
  <1>1. /\ v \in Seq(DaemonMsg) /\ Len(v) = 2 /\ v[1] = a /\ v[2] = b
    BY Concatenated
  <1>2. w \in Seq(DaemonMsg) /\ Len(w) = 2 /\ w[1] = a /\ w[2] = b
    OBVIOUS
  <1> HIDE DEF v, w
  <1>3. v = w
    BY <1>1, <1>2, SeqEqual
  <1> QED
    BY <1>3 DEF v, w

(* Two quiet sequences make a quiet one when the second says nothing on a  *)
(* stream the first has closed.                                            *)
LEMMA QuietConcat ==
  ASSUME NEW v \in Seq(DaemonMsg), NEW w \in Seq(DaemonMsg),
         QuietAfterClse(v), QuietAfterClse(w),
         \A i \in 1 .. Len(v), j \in 1 .. Len(w) :
             v[i].cmd = "CLSE" /\ v[i].arg1 = w[j].arg1 => w[j].cmd = "OKAY"
  PROVE  QuietAfterClse(v \o w)
  <1> DEFINE u == v \o w
  <1> HIDE DEF u
  <1>1. SUFFICES ASSUME NEW i \in 1 .. Len(u), NEW j \in 1 .. Len(u),
                        i < j, u[i].cmd = "CLSE", u[i].arg1 = u[j].arg1
                 PROVE  u[j].cmd = "OKAY"
    BY DEF QuietAfterClse, u
  <1>2. /\ Len(u) = Len(v) + Len(w) /\ Len(v) \in Nat /\ Len(w) \in Nat
        /\ \A k \in 1 .. Len(v) : u[k] = v[k]
        /\ \A k \in 1 .. Len(u) :
             k > Len(v) => k - Len(v) \in 1 .. Len(w) /\ u[k] = w[k - Len(v)]
    BY Concatenated DEF u
  <1>3. CASE j <= Len(v)
    <2>a. i \in 1 .. Len(v) /\ j \in 1 .. Len(v)
      BY <1>1, <1>2, <1>3
    <2> QED
      BY <1>1, <1>2, <2>a DEF QuietAfterClse
  <1>4. CASE i <= Len(v) /\ j > Len(v)
    <2>a. i \in 1 .. Len(v) /\ u[i] = v[i]
      BY <1>2, <1>4
    <2>b. j - Len(v) \in 1 .. Len(w) /\ u[j] = w[j - Len(v)]
      BY <1>2, <1>4
    <2> QED
      BY <1>1, <2>a, <2>b
  <1>5. CASE i > Len(v)
    <2>a. /\ i - Len(v) \in 1 .. Len(w) /\ u[i] = w[i - Len(v)]
          /\ j - Len(v) \in 1 .. Len(w) /\ u[j] = w[j - Len(v)]
          /\ i - Len(v) < j - Len(v)
      BY <1>1, <1>2, <1>5
    <2> QED
      BY <1>1, <2>a DEF QuietAfterClse
  <1> QED
    BY <1>1, <1>2, <1>3, <1>4, <1>5

LEMMA ExitsConcat ==
  ASSUME NEW v \in Seq(DaemonMsg), NEW w \in Seq(DaemonMsg),
         ExitsClosed(v), ExitsClosed(w)
  PROVE  ExitsClosed(v \o w)
  <1> DEFINE u == v \o w
  <1> HIDE DEF u
  <1>1. SUFFICES ASSUME NEW i \in 1 .. Len(u), u[i].data = "exit"
                 PROVE  i < Len(u) /\ u[i + 1] = clse(u[i].arg0, u[i].arg1)
    BY DEF ExitsClosed, u
  <1>2. /\ Len(u) = Len(v) + Len(w) /\ Len(v) \in Nat /\ Len(w) \in Nat
        /\ \A k \in 1 .. Len(v) : u[k] = v[k]
        /\ \A k \in 1 .. Len(u) :
             k > Len(v) => k - Len(v) \in 1 .. Len(w) /\ u[k] = w[k - Len(v)]
    BY Concatenated DEF u
  <1>3. CASE i <= Len(v)
    <2>a. i \in 1 .. Len(v) /\ u[i] = v[i]
      BY <1>2, <1>3
    <2>b. i < Len(v) /\ v[i + 1] = clse(v[i].arg0, v[i].arg1)
      BY <1>1, <2>a DEF ExitsClosed
    <2>c. i + 1 \in 1 .. Len(v)
      BY <1>2, <2>a, <2>b
    <2>d. u[i + 1] = v[i + 1]
      BY <1>2, <2>c
    <2>e. i < Len(u)
      BY <1>2, <2>b
    <2> QED
      BY <2>a, <2>b, <2>d, <2>e
  <1>4. CASE i > Len(v)
    <2> DEFINE k == i - Len(v)
    <2>a. k \in 1 .. Len(w) /\ u[i] = w[k]
      BY <1>2, <1>4
    <2>b. k < Len(w) /\ w[k + 1] = clse(w[k].arg0, w[k].arg1)
      BY <1>1, <2>a DEF ExitsClosed
    <2>c. i < Len(u) /\ i + 1 \in 1 .. Len(u) /\ i + 1 > Len(v)
      BY <1>2, <1>4, <2>b
    <2>d. u[i + 1] = w[k + 1]
      <3>1. u[i + 1] = w[(i + 1) - Len(v)]
        BY <1>2, <2>c
      <3>2. (i + 1) - Len(v) = k + 1
        BY <1>2
      <3> QED
        BY <3>1, <3>2
    <2> QED
      BY <2>a, <2>b, <2>c, <2>d
  <1> QED
    BY <1>2, <1>3, <1>4

(* Taking the first message leaves both as they were.                      *)
LEMMA TailKeeps ==
  ASSUME NEW w \in Seq(DaemonMsg), w # <<>>,
         QuietAfterClse(w), ExitsClosed(w)
  PROVE  /\ Tail(w) \in Seq(DaemonMsg)
         /\ \A i \in 1 .. Len(Tail(w)) : i + 1 \in 1 .. Len(w) /\ Tail(w)[i] = w[i + 1]
         /\ QuietAfterClse(Tail(w))
         /\ ExitsClosed(Tail(w))
  <1> DEFINE t == Tail(w)
  <1>1. /\ t \in Seq(DaemonMsg) /\ Len(t) \in Nat /\ Len(w) = Len(t) + 1
        /\ \A i \in 1 .. Len(t) : i + 1 \in 1 .. Len(w) /\ t[i] = w[i + 1]
    OBVIOUS
  <1> HIDE DEF t
  <1>2. QuietAfterClse(t)
    <2> SUFFICES ASSUME NEW i \in 1 .. Len(t), NEW j \in 1 .. Len(t),
                        i < j, t[i].cmd = "CLSE", t[i].arg1 = t[j].arg1
                 PROVE  t[j].cmd = "OKAY"
      BY DEF QuietAfterClse
    <2>a. /\ i + 1 \in 1 .. Len(w) /\ t[i] = w[i + 1]
          /\ j + 1 \in 1 .. Len(w) /\ t[j] = w[j + 1]
          /\ i + 1 < j + 1
      BY <1>1
    <2> QED
      BY <2>a DEF QuietAfterClse
  <1>3. ExitsClosed(t)
    <2> SUFFICES ASSUME NEW i \in 1 .. Len(t), t[i].data = "exit"
                 PROVE  i < Len(t) /\ t[i + 1] = clse(t[i].arg0, t[i].arg1)
      BY DEF ExitsClosed
    <2>a. i + 1 \in 1 .. Len(w) /\ t[i] = w[i + 1]
      BY <1>1
    <2>b. i + 1 < Len(w) /\ w[(i + 1) + 1] = clse(w[i + 1].arg0, w[i + 1].arg1)
      BY <2>a DEF ExitsClosed
    <2>c. i < Len(t) /\ i + 1 \in 1 .. Len(t)
      BY <1>1, <2>b
    <2>d. t[i + 1] = w[(i + 1) + 1]
      BY <1>1, <2>c
    <2> QED
      BY <2>a, <2>b, <2>c, <2>d
  <1> QED
    BY <1>1, <1>2, <1>3 DEF t

(* One message, an exit excepted, is both quiet and closed.                *)
LEMMA OneMessage ==
  ASSUME NEW m \in DaemonMsg, m.data # "exit"
  PROVE  /\ <<m>> \in Seq(DaemonMsg)
         /\ QuietAfterClse(<<m>>)
         /\ ExitsClosed(<<m>>)
  BY DEF QuietAfterClse, ExitsClosed

--------------------------------
(* What has been asked. *)

(* A message of the client and its queue, one longer and one shorter.      *)
LEMMA AskType ==
  ASSUME NEW r \in RemoteIds \cup {0},
         NEW c \in {"CNXN", "OPEN", "OKAY", "CLSE", "WRTE"}
  PROVE  ask(c, r) \in Ask /\ ask(c, r).cmd = c /\ ask(c, r).of = r
  BY DEF ask, Ask

LEMMA Longer ==
  ASSUME NEW q \in Seq(Ask), NEW a \in Ask
  PROVE  /\ Append(q, a) \in Seq(Ask)
         /\ Len(Append(q, a)) = Len(q) + 1 /\ Len(q) \in Nat
         /\ \A i \in 1 .. Len(q) : Append(q, a)[i] = q[i]
         /\ Append(q, a)[Len(q) + 1] = a
  OBVIOUS

LEMMA Shorter ==
  ASSUME NEW q \in Seq(Ask), q # <<>>
  PROVE  /\ Tail(q) \in Seq(Ask) /\ Head(q) = q[1] /\ 1 \in 1 .. Len(q)
         /\ \A i \in 1 .. Len(Tail(q)) :
              i + 1 \in 1 .. Len(q) /\ Tail(q)[i] = q[i + 1] /\ i + 1 # 1
  OBVIOUS

(* A step that asks nothing and hears nothing leaves everything            *)
(* answerable, whatever it closes or answers of the streams that are up.   *)
LEMMA AnswerableKept ==
  ASSUME Answerable, asks' = asks,
         \A r \in RemoteIds : phase[r] \in {"idle", "asked"} => phase'[r] = phase[r],
         \A r \in RemoteIds :
             phase[r] \notin {"idle", "asked"} => phase'[r] \notin {"idle", "asked"}
  PROVE  Answerable'
  BY DEF Answerable

(* What has been heard is no longer waited for, and the OPEN heard was the *)
(* only one of its stream.                                                 *)
LEMMA AnswerableHeard ==
  ASSUME SInv, NEW c \in {"CNXN", "OPEN", "OKAY", "CLSE", "WRTE"},
         NEW r \in RemoteIds \cup {0}, Hears(c, r),
         \A q \in RemoteIds :
             phase[q] = "asked" /\ ~(c = "OPEN" /\ q = r) => phase'[q] = "asked",
         \A q \in RemoteIds :
             phase[q] \notin {"idle", "asked"} => phase'[q] \notin {"idle", "asked"}
  PROVE  asks' \in Seq(Ask) /\ Answerable'
  <1>1. asks \in Seq(Ask) /\ asks # <<>> /\ asks' = Tail(asks) /\ Head(asks) = ask(c, r)
    BY DEF SInv, TypeOK, Hears
  <1>2. /\ asks' \in Seq(Ask) /\ asks[1] = ask(c, r) /\ 1 \in 1 .. Len(asks)
        /\ \A i \in 1 .. Len(asks') :
             i + 1 \in 1 .. Len(asks) /\ asks'[i] = asks[i + 1] /\ i + 1 # 1
    BY <1>1, Shorter
  <1>3. ask(c, r).cmd = c /\ ask(c, r).of = r
    BY AskType
  <1>4. ASSUME NEW i \in 1 .. Len(asks'), asks'[i].cmd = "OPEN"
        PROVE  /\ asks'[i].of \in RemoteIds /\ phase'[asks'[i].of] = "asked"
               /\ \A j \in 1 .. Len(asks') : asks'[j] = asks'[i] => j = i
    <2> DEFINE a == asks[i + 1]
    <2>a. /\ i + 1 \in 1 .. Len(asks) /\ asks'[i] = a /\ i + 1 # 1 /\ a.cmd = "OPEN"
      BY <1>2, <1>4
    <2>b. /\ a.of \in RemoteIds /\ phase[a.of] = "asked"
          /\ \A j \in 1 .. Len(asks) : asks[j] = a => j = i + 1
      BY <2>a DEF SInv, Answerable
    <2>c. ~(c = "OPEN" /\ a.of = r)
      <3> SUFFICES ASSUME c = "OPEN", a.of = r PROVE FALSE
        OBVIOUS
      <3>1. a \in Ask
        BY <1>1, <2>a
      <3>2. a = ask(c, r)
        BY <2>a, <3>1 DEF Ask, ask
      <3> QED
        BY <1>2, <2>a, <2>b, <3>2
    <2>d. \A j \in 1 .. Len(asks') : asks'[j] = a => j = i
      <3> SUFFICES ASSUME NEW j \in 1 .. Len(asks'), asks'[j] = a PROVE j = i
        OBVIOUS
      <3>1. j + 1 \in 1 .. Len(asks) /\ asks[j + 1] = a
        BY <1>2
      <3>2. j + 1 = i + 1
        BY <2>b, <3>1
      <3> QED
        BY <3>2
    <2> QED
      BY <2>a, <2>b, <2>c, <2>d
  <1>5. ASSUME NEW i \in 1 .. Len(asks'), asks'[i].cmd # "OPEN", asks'[i].of \in RemoteIds
        PROVE  phase'[asks'[i].of] \notin {"idle", "asked"}
    <2>a. i + 1 \in 1 .. Len(asks) /\ asks'[i] = asks[i + 1]
      BY <1>2
    <2>b. phase[asks[i + 1].of] \notin {"idle", "asked"}
      BY <1>5, <2>a DEF SInv, Answerable
    <2> QED
      BY <1>5, <2>a, <2>b
  <1> QED
    BY <1>2, <1>4, <1>5 DEF Answerable

(* The stream of the OPEN that is heard next waits for it.                 *)
LEMMA AnsweredOpen ==
  ASSUME SInv, NEW r \in RemoteIds, asks # <<>>, Head(asks) = ask("OPEN", r)
  PROVE  phase[r] = "asked"
  <1>1. asks \in Seq(Ask)
    BY DEF SInv, TypeOK
  <1>2. asks[1] = ask("OPEN", r) /\ 1 \in 1 .. Len(asks)
    BY <1>1, Shorter
  <1>3. ask("OPEN", r).cmd = "OPEN" /\ ask("OPEN", r).of = r
    BY AskType
  <1> QED
    BY <1>2, <1>3 DEF SInv, Answerable

(* A stream spoken of has been answered.                                   *)
LEMMA AnsweredStream ==
  ASSUME SInv, NEW r \in RemoteIds, NEW c \in {"OKAY", "CLSE", "WRTE"}, Hears(c, r)
  PROVE  phase[r] \notin {"idle", "asked"}
  <1>1. asks \in Seq(Ask) /\ asks # <<>> /\ Head(asks) = ask(c, r)
    BY DEF SInv, TypeOK, Hears
  <1>2. asks[1] = ask(c, r) /\ 1 \in 1 .. Len(asks)
    BY <1>1, Shorter
  <1>3. ask(c, r).cmd = c /\ ask(c, r).of = r
    BY AskType
  <1> QED
    BY <1>2, <1>3 DEF SInv, Answerable

(* What is asked of a stream that was answered can be answered, too.       *)
LEMMA AnswerableSpoken ==
  ASSUME SInv, NEW c \in {"CNXN", "OKAY", "CLSE", "WRTE"},
         NEW r \in RemoteIds \cup {0}, Asks(c, r), UNCHANGED phase,
         r \in RemoteIds => phase[r] \notin {"idle", "asked"}
  PROVE  asks' \in Seq(Ask) /\ Answerable'
  <1> DEFINE a == ask(c, r)
  <1>1. a \in Ask /\ a.cmd = c /\ a.of = r
    BY AskType
  <1>2. asks \in Seq(Ask) /\ asks' = Append(asks, a)
    BY DEF SInv, TypeOK, Asks
  <1> HIDE DEF a
  <1>3. /\ asks' \in Seq(Ask) /\ Len(asks') = Len(asks) + 1 /\ Len(asks) \in Nat
        /\ \A i \in 1 .. Len(asks) : asks'[i] = asks[i]
        /\ asks'[Len(asks) + 1] = a
    BY <1>1, <1>2, Longer
  <1>4. \A i \in 1 .. Len(asks') : i \in 1 .. Len(asks) \/ (i = Len(asks) + 1 /\ asks'[i] = a)
    BY <1>3
  <1> QED
    BY <1>1, <1>3, <1>4 DEF SInv, Answerable

--------------------------------
(* What a step that says something preserves. *)

(* Closed streams stay closed, only acknowledgements are said on them, and *)
(* who says CLSE closes.                                                   *)
LEMMA SayKeeps ==
  ASSUME SInv, NEW new \in Seq(DaemonMsg), Say(new),
         QuietAfterClse(new), ExitsClosed(new),
         \A r \in RemoteIds : phase[r] = "closed" => phase'[r] = "closed",
         \A j \in 1 .. Len(new) :
             new[j].arg1 \in RemoteIds /\ phase[new[j].arg1] = "closed"
                 => new[j].cmd = "OKAY",
         \A j \in 1 .. Len(new) :
             new[j].cmd = "CLSE"
                 => new[j].arg1 \in RemoteIds /\ phase'[new[j].arg1] = "closed"
  PROVE  wire' \in Seq(DaemonMsg) /\ ClseIsLast' /\ ExitThenClse' /\ ClseCloses'
  <1>1. wire \in Seq(DaemonMsg) /\ wire' = wire \o new
    BY DEF SInv, TypeOK, Say
  <1>2. \A i \in 1 .. Len(wire), j \in 1 .. Len(new) :
            wire[i].cmd = "CLSE" /\ wire[i].arg1 = new[j].arg1 => new[j].cmd = "OKAY"
    BY DEF SInv, ClseCloses
  <1>3. QuietAfterClse(wire \o new)
    BY <1>1, <1>2, QuietConcat DEF SInv, ClseIsLast
  <1>4. ExitsClosed(wire \o new)
    BY <1>1, ExitsConcat DEF SInv, ExitThenClse
  <1>5. ClseCloses'
    <2> SUFFICES ASSUME NEW i \in 1 .. Len(wire'), wire'[i].cmd = "CLSE"
                 PROVE  wire'[i].arg1 \in RemoteIds /\ phase'[wire'[i].arg1] = "closed"
      BY DEF ClseCloses
    <2>a. Len(wire) \in Nat
      BY <1>1
    <2>b. CASE i <= Len(wire)
      <3>1. i \in 1 .. Len(wire)
        BY <2>a, <2>b
      <3>2. wire'[i] = wire[i]
        BY <1>1, <3>1, Concatenated
      <3> QED
        BY <3>1, <3>2 DEF SInv, ClseCloses
    <2>c. CASE i > Len(wire)
      <3>1. /\ i - Len(wire) \in 1 .. Len(new)
            /\ wire'[i] = new[i - Len(wire)]
        BY <1>1, <2>c, Concatenated
      <3> QED
        BY <3>1
    <2> QED
      BY <2>a, <2>b, <2>c
  <1> QED
    BY <1>1, <1>3, <1>4, <1>5, Concatenated DEF ClseIsLast, ExitThenClse

(* The same for one message on a stream, an exit excepted.                 *)
LEMMA SayOne ==
  ASSUME SInv, NEW m \in DaemonMsg, m.data # "exit", Say(<<m>>),
         \A r \in RemoteIds : phase[r] = "closed" => phase'[r] = "closed",
         m.arg1 \in RemoteIds /\ phase[m.arg1] = "closed" => m.cmd = "OKAY",
         m.cmd = "CLSE" => m.arg1 \in RemoteIds /\ phase'[m.arg1] = "closed"
  PROVE  wire' \in Seq(DaemonMsg) /\ ClseIsLast' /\ ExitThenClse' /\ ClseCloses'
  <1>1. <<m>> \in Seq(DaemonMsg) /\ QuietAfterClse(<<m>>) /\ ExitsClosed(<<m>>)
    BY OneMessage
  <1>2. Len(<<m>>) = 1 /\ \A j \in 1 .. Len(<<m>>) : <<m>>[j] = m
    OBVIOUS
  <1> QED
    BY <1>1, <1>2, SayKeeps

(* A step that says nothing and reopens nothing.                           *)
LEMMA SilentKeeps ==
  ASSUME SInv, wire' = wire,
         \A r \in RemoteIds : phase[r] = "closed" => phase'[r] = "closed"
  PROVE  wire' \in Seq(DaemonMsg) /\ ClseIsLast' /\ ExitThenClse' /\ ClseCloses'
  BY DEF SInv, TypeOK, ClseIsLast, ExitThenClse, ClseCloses

(* Ending a stream closes it and no other, and frees its id.               *)
LEMMA EndsKeeps ==
  ASSUME SInv, NEW r \in RemoteIds, Ends(r)
  PROVE  /\ phase' \in [RemoteIds -> Phases] /\ lid' \in [RemoteIds -> LocalIds]
         /\ phase'[r] = "closed"
         /\ \A q \in RemoteIds : phase[q] = "closed" => phase'[q] = "closed"
         /\ LidsDistinct'
  <1>1. phase' \in [RemoteIds -> Phases] /\ lid' \in [RemoteIds -> LocalIds]
    BY ZeroId DEF SInv, TypeOK, Ends, Phases
  <1>2. /\ phase'[r] = "closed"
        /\ \A q \in RemoteIds \ {r} : phase'[q] = phase[q] /\ lid'[q] = lid[q]
    BY DEF SInv, TypeOK, Ends
  <1>3. LidsDistinct'
    BY <1>2 DEF SInv, LidsDistinct, Live, LivePhases
  <1> QED
    BY <1>1, <1>2, <1>3

(* A live stream may end of the daemon's own accord.                       *)
LEMMA EndsAnswerable ==
  ASSUME SInv, NEW r \in RemoteIds, Ends(r), UNCHANGED asks,
         phase[r] \notin {"idle", "asked"}
  PROVE  Answerable'
  <1>1. phase'[r] = "closed" /\ \A q \in RemoteIds : q # r => phase'[q] = phase[q]
    BY DEF SInv, TypeOK, Ends
  <1> QED
    BY <1>1, AnswerableKept DEF SInv

(* What is left of SInv when the streams themselves do not change.         *)
LEMMA SameStreams ==
  ASSUME SInv, UNCHANGED <<phase, lid>>
  PROVE  /\ phase' \in [RemoteIds -> Phases] /\ lid' \in [RemoteIds -> LocalIds]
         /\ \A q \in RemoteIds : phase[q] = "closed" => phase'[q] = "closed"
         /\ LidsDistinct'
  BY DEF SInv, TypeOK, LidsDistinct, Live

--------------------------------
(* The invariant, step by step. *)

LEMMA InitKeeps == Init => SInv
  BY ZeroId DEF Init, SInv, TypeOK, Phases, ClseCloses, ClseIsLast, QuietAfterClse,
                ExitThenClse, ExitsClosed, LidsDistinct, Live, LivePhases, Answerable

LEMMA RequestKeeps ==
  ASSUME SInv, NEW r \in RemoteIds, Request(r)
  PROVE  SInv'
  <1>1. \A q \in RemoteIds : phase[q] = "closed" => phase'[q] = "closed"
    BY DEF SInv, TypeOK, Request
  <1>2. wire' \in Seq(DaemonMsg) /\ ClseIsLast' /\ ExitThenClse' /\ ClseCloses'
    BY <1>1, SilentKeeps DEF Request
  <1>3. phase' \in [RemoteIds -> Phases] /\ lid' \in [RemoteIds -> LocalIds]
    BY DEF SInv, TypeOK, Request, Phases
  <1>4. LidsDistinct'
    BY DEF SInv, TypeOK, Request, LidsDistinct, Live, LivePhases
  <1> DEFINE a == ask("OPEN", r)
  <1>5. a \in Ask /\ a.cmd = "OPEN" /\ a.of = r
    BY AskType
  <1>6. asks \in Seq(Ask) /\ asks' = Append(asks, a) /\ up' \in BOOLEAN
    BY DEF SInv, TypeOK, Request, Asks
  <1> HIDE DEF a
  <1>7. /\ asks' \in Seq(Ask) /\ Len(asks') = Len(asks) + 1 /\ Len(asks) \in Nat
        /\ \A i \in 1 .. Len(asks) : asks'[i] = asks[i]
        /\ asks'[Len(asks) + 1] = a
    BY <1>5, <1>6, Longer
  <1>8. \A i \in 1 .. Len(asks') : i \in 1 .. Len(asks) \/ (i = Len(asks) + 1 /\ asks'[i] = a)
    BY <1>7
  <1>9. /\ phase[r] = "idle" /\ phase'[r] = "asked"
        /\ \A q \in RemoteIds : q # r => phase'[q] = phase[q]
    BY DEF SInv, TypeOK, Request
  <1>10. \A i \in 1 .. Len(asks) : asks[i].of # r
    BY <1>9 DEF SInv, Answerable
  <1>11. Answerable'
    BY <1>5, <1>7, <1>8, <1>9, <1>10 DEF SInv, Answerable
  <1> QED
    BY <1>2, <1>3, <1>4, <1>6, <1>7, <1>11 DEF SInv, TypeOK

LEMMA SpeakKeeps ==
  ASSUME SInv, NEW r \in RemoteIds, Speak(r)
  PROVE  SInv'
  <1>1. /\ phase' \in [RemoteIds -> Phases] /\ lid' \in [RemoteIds -> LocalIds]
        /\ \A q \in RemoteIds : phase[q] = "closed" => phase'[q] = "closed"
        /\ LidsDistinct'
    BY SameStreams DEF Speak
  <1>2. wire' \in Seq(DaemonMsg) /\ ClseIsLast' /\ ExitThenClse' /\ ClseCloses'
    BY <1>1, SilentKeeps DEF Speak
  <1>3. asks' \in Seq(Ask) /\ Answerable'
    BY AnswerableSpoken DEF Speak
  <1> QED
    BY <1>1, <1>2, <1>3 DEF SInv, TypeOK, Speak

LEMMA ConnectKeeps ==
  ASSUME SInv, Connect
  PROVE  SInv'
  <1>1. /\ phase' \in [RemoteIds -> Phases] /\ lid' \in [RemoteIds -> LocalIds]
        /\ \A q \in RemoteIds : phase[q] = "closed" => phase'[q] = "closed"
        /\ LidsDistinct'
    BY SameStreams DEF Connect
  <1>2. wire' \in Seq(DaemonMsg) /\ ClseIsLast' /\ ExitThenClse' /\ ClseCloses'
    BY <1>1, SilentKeeps DEF Connect
  <1>3. asks' \in Seq(Ask) /\ Answerable'
    BY AnswerableSpoken, NoStreamZeroAssumption DEF Connect
  <1> QED
    BY <1>1, <1>2, <1>3 DEF SInv, TypeOK, Connect

LEMMA IgnoreKeeps ==
  ASSUME SInv, NEW r \in RemoteIds, Ignore(r)
  PROVE  SInv'
  <1>1. /\ phase' \in [RemoteIds -> Phases] /\ lid' \in [RemoteIds -> LocalIds]
        /\ \A q \in RemoteIds : phase[q] = "closed" => phase'[q] = "closed"
        /\ LidsDistinct'
    BY SameStreams DEF Ignore
  <1>2. wire' \in Seq(DaemonMsg) /\ ClseIsLast' /\ ExitThenClse' /\ ClseCloses'
    BY <1>1, SilentKeeps DEF Ignore
  <1>3. PICK c \in {"OKAY", "CLSE"} : Hears(c, r)
    BY DEF Ignore
  <1>4. asks' \in Seq(Ask) /\ Answerable'
    BY <1>3, AnswerableHeard DEF Ignore
  <1> QED
    BY <1>1, <1>2, <1>4 DEF SInv, TypeOK, Ignore

(* The one place where an id is chosen. *)
LEMMA AcceptKeeps ==
  ASSUME SInv, NEW r \in RemoteIds, Accept(r)
  PROVE  SInv'
  <1>1. PICK l \in LocalIds, k \in {"v1", "v2", "sync"} :
            /\ Say(<<okay(l, r)>>)
            /\ \A q \in RemoteIds : Live(q) => lid[q] # l
            /\ lid' = [lid EXCEPT ![r] = l]
            /\ phase' = [phase EXCEPT ![r] = k]
    BY DEF Accept
  <1>2. phase' \in [RemoteIds -> Phases] /\ lid' \in [RemoteIds -> LocalIds]
    BY <1>1 DEF SInv, TypeOK, Phases, LivePhases
  <1>3. \A q \in RemoteIds : phase[q] = "closed" => phase'[q] = "closed"
    <2>a. Head(asks) = ask("OPEN", r) /\ asks # <<>> /\ asks \in Seq(Ask)
      BY DEF SInv, TypeOK, Accept, Hears
    <2>b. phase[r] = "asked"
      BY <2>a, AnsweredOpen
    <2> QED
      BY <1>1, <2>b DEF SInv, TypeOK
  <1>4. /\ okay(l, r) \in DaemonMsg
        /\ okay(l, r).data # "exit" /\ okay(l, r).cmd = "OKAY"
    BY <1>1, MessageTypes DEF okay
  <1>5. wire' \in Seq(DaemonMsg) /\ ClseIsLast' /\ ExitThenClse' /\ ClseCloses'
    BY <1>1, <1>3, <1>4, SayOne
  <1>6. LidsDistinct'
    <2> SUFFICES ASSUME NEW p \in RemoteIds, NEW q \in RemoteIds,
                        p # q, Live(p)', Live(q)'
                 PROVE  lid'[p] # lid'[q]
      BY DEF LidsDistinct
    <2>a. lid'[r] = l /\ \A s \in RemoteIds \ {r} : lid'[s] = lid[s] /\ phase'[s] = phase[s]
      BY <1>1 DEF SInv, TypeOK
    <2>b. CASE p = r
      BY <1>1, <2>a, <2>b DEF Live
    <2>c. CASE q = r
      BY <1>1, <2>a, <2>c DEF Live
    <2>d. CASE p # r /\ q # r
      BY <2>a, <2>d DEF SInv, LidsDistinct, Live
    <2> QED
      BY <2>b, <2>c, <2>d
  <1>7. asks' \in Seq(Ask) /\ Answerable'
    <2>a. /\ phase'[r] \in LivePhases
          /\ \A q \in RemoteIds : q # r => phase'[q] = phase[q]
      BY <1>1 DEF SInv, TypeOK, LivePhases
    <2> QED
      BY <2>a, AnswerableHeard DEF Accept, LivePhases
  <1> QED
    BY <1>2, <1>5, <1>6, <1>7 DEF SInv, TypeOK, Accept

(* A CLSE alone, for a stream that was not closed.                         *)
LEMMA CloseOneKeeps ==
  ASSUME SInv, NEW r \in RemoteIds, phase[r] # "closed", Ends(r),
         NEW l \in LocalIds, Say(<<clse(l, r)>>),
         asks' \in Seq(Ask), Answerable', UNCHANGED up
  PROVE  SInv'
  <1>1. /\ clse(l, r) \in DaemonMsg /\ clse(l, r).data # "exit"
        /\ clse(l, r).arg1 = r
    BY MessageTypes DEF clse
  <1>2. /\ phase' \in [RemoteIds -> Phases] /\ lid' \in [RemoteIds -> LocalIds]
        /\ phase'[r] = "closed"
        /\ \A q \in RemoteIds : phase[q] = "closed" => phase'[q] = "closed"
        /\ LidsDistinct'
    BY EndsKeeps
  <1>3. wire' \in Seq(DaemonMsg) /\ ClseIsLast' /\ ExitThenClse' /\ ClseCloses'
    BY <1>1, <1>2, SayOne
  <1> QED
    BY <1>2, <1>3 DEF SInv, TypeOK

LEMMA RefuseKeeps ==
  ASSUME SInv, NEW r \in RemoteIds, Refuse(r)
  PROVE  SInv'
  <1>1. phase[r] = "asked"
    BY AnsweredOpen DEF Refuse, Hears
  <1>2. asks' \in Seq(Ask) /\ Answerable'
    <2>a. phase'[r] = "closed" /\ \A q \in RemoteIds : q # r => phase'[q] = phase[q]
      BY DEF SInv, TypeOK, Refuse, Ends
    <2> QED
      BY <2>a, AnswerableHeard DEF Refuse
  <1> QED
    BY <1>1, <1>2, CloseOneKeeps, ZeroId DEF Refuse

LEMMA CloseKeeps ==
  ASSUME SInv, NEW r \in RemoteIds, Close(r)
  PROVE  SInv'
  <1>1. phase[r] # "closed" /\ lid[r] \in LocalIds
    BY DEF Close, Live, LivePhases, SInv, TypeOK
  <1>2. asks' \in Seq(Ask) /\ Answerable'
    <2>a. phase'[r] = "closed" /\ \A q \in RemoteIds : q # r => phase'[q] = phase[q]
      BY DEF SInv, TypeOK, Close, Ends
    <2>b. phase[r] \in LivePhases
      BY DEF Close, Live
    <2> QED
      BY <2>a, <2>b, AnswerableHeard DEF Close, LivePhases
  <1> QED
    BY <1>1, <1>2, CloseOneKeeps DEF Close

LEMMA OutputKeeps ==
  ASSUME SInv, NEW r \in RemoteIds, Output(r)
  PROVE  SInv'
  <1>1. phase[r] \in {"v1", "v2"} /\ lid[r] \in LocalIds
    BY DEF Output, Carries, SInv, TypeOK
  <1>2. PICK p \in Carries[phase[r]] : Say(<<wrte(lid[r], r, p)>>)
    BY DEF Output
  <1>3. p \in {"raw", "stdout", "stderr"}
    BY <1>1, <1>2 DEF Carries
  <1>4. /\ wrte(lid[r], r, p) \in DaemonMsg
        /\ wrte(lid[r], r, p).data # "exit"
        /\ wrte(lid[r], r, p).arg1 = r
        /\ wrte(lid[r], r, p).cmd = "WRTE"
    BY <1>1, <1>3, MessageTypes DEF wrte, Payloads
  <1>5. /\ phase' \in [RemoteIds -> Phases] /\ lid' \in [RemoteIds -> LocalIds]
        /\ \A q \in RemoteIds : phase[q] = "closed" => phase'[q] = "closed"
        /\ LidsDistinct'
    BY SameStreams DEF Output
  <1>6. wire' \in Seq(DaemonMsg) /\ ClseIsLast' /\ ExitThenClse' /\ ClseCloses'
    BY <1>1, <1>2, <1>4, <1>5, SayOne
  <1>7. Answerable'
    BY AnswerableKept DEF SInv, Output
  <1> QED
    BY <1>5, <1>6, <1>7 DEF SInv, TypeOK, Output

(* A stream that is owed an answer is as live as it was.                   *)
LEMMA TurnKeeps ==
  ASSUME SInv, NEW r \in RemoteIds, NEW k \in LivePhases,
         UNCHANGED lid,
         \/ Live(r) /\ phase' = [phase EXCEPT ![r] = k]
         \/ UNCHANGED phase
  PROVE  /\ phase' \in [RemoteIds -> Phases] /\ lid' \in [RemoteIds -> LocalIds]
         /\ \A q \in RemoteIds : phase[q] = "closed" => phase'[q] = "closed"
         /\ \A q \in RemoteIds : phase[q] \in {"idle", "asked"} => phase'[q] = phase[q]
         /\ \A q \in RemoteIds :
              phase[q] \notin {"idle", "asked"} => phase'[q] \notin {"idle", "asked"}
         /\ LidsDistinct'
  <1>1. CASE UNCHANGED phase
    BY <1>1, SameStreams DEF LivePhases
  <1>2. CASE Live(r) /\ phase' = [phase EXCEPT ![r] = k]
    <2>a. phase' \in [RemoteIds -> Phases] /\ lid' \in [RemoteIds -> LocalIds]
      BY <1>2 DEF SInv, TypeOK, Phases
    <2>b. /\ phase[r] \in LivePhases /\ phase'[r] \in LivePhases
          /\ \A q \in RemoteIds : q # r => phase'[q] = phase[q]
      BY <1>2 DEF SInv, TypeOK, Live
    <2>c. \A q \in RemoteIds : Live(q)' = Live(q)
      BY <2>b DEF Live
    <2>d. LidsDistinct'
      BY <2>c DEF SInv, LidsDistinct
    <2> QED
      BY <2>a, <2>b, <2>d DEF LivePhases
  <1> QED
    BY <1>1, <1>2

LEMMA AckKeeps ==
  ASSUME SInv, NEW r \in RemoteIds, Ack(r)
  PROVE  SInv'
  <1>1. lid[r] \in LocalIds
    BY DEF SInv, TypeOK
  <1>2. PICK l \in LocalIds : Say(<<okay(l, r)>>)
    BY <1>1 DEF Ack
  <1>3. okay(l, r) \in DaemonMsg /\ okay(l, r).data # "exit" /\ okay(l, r).cmd = "OKAY"
    BY MessageTypes DEF okay
  <1>4. /\ phase' \in [RemoteIds -> Phases] /\ lid' \in [RemoteIds -> LocalIds]
        /\ \A q \in RemoteIds : phase[q] = "closed" => phase'[q] = "closed"
        /\ \A q \in RemoteIds : phase[q] \in {"idle", "asked"} => phase'[q] = phase[q]
        /\ \A q \in RemoteIds :
             phase[q] \notin {"idle", "asked"} => phase'[q] \notin {"idle", "asked"}
        /\ LidsDistinct'
    <2>a. CASE phase[r] = "sync"
      <3>1. phase' = [phase EXCEPT ![r] = "answering"]
        BY <2>a DEF Ack
      <3>2. Live(r) /\ "answering" \in LivePhases
        BY <2>a DEF Live, LivePhases
      <3> QED
        BY <3>1, <3>2, TurnKeeps DEF Ack
    <2>b. CASE phase[r] # "sync"
      <3>1. phase' = phase
        BY <2>b DEF Ack, SInv, TypeOK
      <3>2. "v1" \in LivePhases
        BY DEF LivePhases
      <3> QED
        BY <3>1, <3>2, TurnKeeps DEF Ack
    <2> QED
      BY <2>a, <2>b
  <1>5. wire' \in Seq(DaemonMsg) /\ ClseIsLast' /\ ExitThenClse' /\ ClseCloses'
    BY <1>2, <1>3, <1>4, SayOne
  <1>6. asks' \in Seq(Ask) /\ Answerable'
    BY <1>4, AnswerableHeard DEF Ack
  <1> QED
    BY <1>4, <1>5, <1>6 DEF SInv, TypeOK, Ack

(* The answer of a sync stream is output and nothing else.                 *)
LEMMA AnswerType ==
  ASSUME NEW r \in RemoteIds, lid[r] \in LocalIds, NEW n \in 0 .. MaxAnswer
  PROVE  /\ Answer(r, n) \in Seq(DaemonMsg)
         /\ Len(Answer(r, n)) = n
         /\ \A j \in 1 .. n : /\ Answer(r, n)[j].cmd = "WRTE"
                              /\ Answer(r, n)[j].data = "sync"
                              /\ Answer(r, n)[j].arg1 = r
  <1>1. n \in Nat
    BY MaxAnswerAssumption
  <1>2. wrte(lid[r], r, "sync") \in DaemonMsg
    BY MessageTypes DEF Payloads
  <1> QED
    BY <1>1, <1>2 DEF Answer, wrte

LEMMA SyncAnswerKeeps ==
  ASSUME SInv, NEW r \in RemoteIds, SyncAnswer(r)
  PROVE  SInv'
  <1>1. PICK n \in 0 .. MaxAnswer : Say(Answer(r, n))
    BY DEF SyncAnswer
  <1>2. phase[r] = "answering" /\ lid[r] \in LocalIds
    BY DEF SyncAnswer, SInv, TypeOK
  <1> DEFINE a == Answer(r, n)
  <1>3. /\ a \in Seq(DaemonMsg) /\ Len(a) = n
        /\ \A j \in 1 .. n : a[j].cmd = "WRTE" /\ a[j].data = "sync" /\ a[j].arg1 = r
    BY <1>2, AnswerType
  <1>4. Say(a)
    BY <1>1
  <1> HIDE DEF a
  <1>5. QuietAfterClse(a) /\ ExitsClosed(a)
    BY <1>3 DEF QuietAfterClse, ExitsClosed
  <1>6. /\ phase' \in [RemoteIds -> Phases] /\ lid' \in [RemoteIds -> LocalIds]
        /\ \A q \in RemoteIds : phase[q] = "closed" => phase'[q] = "closed"
        /\ \A q \in RemoteIds : phase[q] \in {"idle", "asked"} => phase'[q] = phase[q]
        /\ \A q \in RemoteIds :
             phase[q] \notin {"idle", "asked"} => phase'[q] \notin {"idle", "asked"}
        /\ LidsDistinct'
    <2>a. Live(r) /\ "sync" \in LivePhases
      BY <1>2 DEF Live, LivePhases
    <2> QED
      BY <2>a, TurnKeeps DEF SyncAnswer
  <1>7. wire' \in Seq(DaemonMsg) /\ ClseIsLast' /\ ExitThenClse' /\ ClseCloses'
    BY <1>2, <1>3, <1>4, <1>5, <1>6, SayKeeps
  <1>8. Answerable'
    BY <1>6, AnswerableKept DEF SInv, SyncAnswer
  <1> QED
    BY <1>6, <1>7, <1>8 DEF SInv, TypeOK, SyncAnswer

LEMMA SyncQuitKeeps ==
  ASSUME SInv, NEW r \in RemoteIds, SyncQuit(r)
  PROVE  SInv'
  <1>1. PICK n \in 0 .. MaxAnswer : Say(Append(Answer(r, n), clse(lid[r], r)))
    BY DEF SyncQuit
  <1>2. phase[r] = "answering" /\ lid[r] \in LocalIds /\ n \in Nat
    BY MaxAnswerAssumption DEF SyncQuit, SInv, TypeOK
  <1> DEFINE a == Answer(r, n)
             c == clse(lid[r], r)
             u == Append(a, c)
  <1>3. /\ a \in Seq(DaemonMsg) /\ Len(a) = n
        /\ \A j \in 1 .. n : a[j].cmd = "WRTE" /\ a[j].data = "sync" /\ a[j].arg1 = r
    BY <1>2, AnswerType
  <1>4. c \in DaemonMsg /\ c.data = "none" /\ c.cmd = "CLSE" /\ c.arg1 = r
    BY <1>2, MessageTypes DEF clse
  <1>5. Say(u)
    BY <1>1
  <1> HIDE DEF a, c
  <1>6. /\ u \in Seq(DaemonMsg) /\ Len(u) = n + 1
        /\ u[n + 1] = c /\ \A j \in 1 .. n : u[j] = a[j]
    BY <1>2, <1>3, <1>4
  <1> HIDE DEF u
  <1>7. \A j \in 1 .. Len(u) : u[j].arg1 = r /\ u[j].data # "exit"
                                 /\ (u[j].cmd = "CLSE" => j = n + 1)
    BY <1>2, <1>3, <1>4, <1>6
  <1>8. QuietAfterClse(u) /\ ExitsClosed(u)
    BY <1>2, <1>6, <1>7 DEF QuietAfterClse, ExitsClosed
  <1>9. /\ phase' \in [RemoteIds -> Phases] /\ lid' \in [RemoteIds -> LocalIds]
        /\ phase'[r] = "closed"
        /\ \A q \in RemoteIds : phase[q] = "closed" => phase'[q] = "closed"
        /\ LidsDistinct'
    BY EndsKeeps DEF SyncQuit
  <1>10. wire' \in Seq(DaemonMsg) /\ ClseIsLast' /\ ExitThenClse' /\ ClseCloses'
    BY <1>2, <1>5, <1>6, <1>7, <1>8, <1>9, SayKeeps
  <1>11. Answerable'
    BY <1>2, EndsAnswerable DEF SyncQuit
  <1> QED
    BY <1>9, <1>10, <1>11 DEF SInv, TypeOK, SyncQuit

(* The exit and its CLSE go together.                                      *)
LEMMA ExitKeeps ==
  ASSUME SInv, NEW r \in RemoteIds, Exit(r)
  PROVE  SInv'
  <1>1. phase[r] \in {"v1", "v2"} /\ lid[r] \in LocalIds
    BY DEF Exit, Carries, SInv, TypeOK
  <1>0. Answerable' /\ asks' \in Seq(Ask)
    BY <1>1, EndsAnswerable DEF Exit, SInv, TypeOK
  <1> DEFINE x == wrte(lid[r], r, "exit")
             c == clse(lid[r], r)
             u == <<x, c>>
  <1>2. CASE phase[r] = "v1"
    <2>a. Say(<<clse(lid[r], r)>>)
      <3>1. wire' = wire \o (<<>> \o <<c>>)
        BY <1>2 DEF Exit, Say
      <3>2. <<>> \o <<c>> = <<c>>
        OBVIOUS
      <3> QED
        BY <3>1, <3>2 DEF Say
    <2> QED
      BY <1>0, <1>1, <2>a, CloseOneKeeps DEF Exit
  <1>3. CASE phase[r] = "v2"
    <2>a. /\ x \in DaemonMsg /\ x.cmd = "WRTE" /\ x.arg1 = r /\ x.arg0 = lid[r]
          /\ c \in DaemonMsg /\ c.cmd = "CLSE" /\ c.arg1 = r /\ c.data = "none"
          /\ c = clse(x.arg0, x.arg1)
      BY <1>1, MessageTypes DEF wrte, clse, Payloads
    <2>b. Say(u)
      <3>1. wire' = wire \o (<<x>> \o <<c>>)
        BY <1>3 DEF Exit, Say
      <3>2. <<x>> \o <<c>> = u
        BY <2>a, OneAndOne
      <3> QED
        BY <3>1, <3>2 DEF Say
    <2> HIDE DEF x, c
    <2>c. u \in Seq(DaemonMsg) /\ Len(u) = 2 /\ u[1] = x /\ u[2] = c
      BY <2>a
    <2> HIDE DEF u
    <2>d. QuietAfterClse(u)
      BY <2>a, <2>c DEF QuietAfterClse
    <2>e. ExitsClosed(u)
      BY <2>a, <2>c DEF ExitsClosed
    <2>f. \A j \in 1 .. Len(u) : u[j].arg1 = r
      BY <2>a, <2>c
    <2>g. /\ phase' \in [RemoteIds -> Phases] /\ lid' \in [RemoteIds -> LocalIds]
          /\ phase'[r] = "closed"
          /\ \A q \in RemoteIds : phase[q] = "closed" => phase'[q] = "closed"
          /\ LidsDistinct'
      BY EndsKeeps DEF Exit
    <2>h. wire' \in Seq(DaemonMsg) /\ ClseIsLast' /\ ExitThenClse' /\ ClseCloses'
      BY <1>3, <2>b, <2>c, <2>d, <2>e, <2>f, <2>g, SayKeeps
    <2> QED
      BY <1>0, <2>g, <2>h DEF SInv, TypeOK, Exit
  <1> QED
    BY <1>1, <1>2, <1>3

LEMMA BannerKeeps ==
  ASSUME SInv, Banner
  PROVE  SInv'
  <1>1. phase' \in [RemoteIds -> Phases] /\ lid' \in [RemoteIds -> LocalIds]
    BY ZeroId DEF SInv, TypeOK, Banner, Phases
  <1>2. \A q \in RemoteIds : phase[q] = "closed" => phase'[q] = "closed"
    BY DEF SInv, TypeOK, Banner
  <1>3. cnxn \in DaemonMsg /\ cnxn.data # "exit" /\ cnxn.cmd = "CNXN" /\ cnxn.arg1 = 0
    BY ZeroId DEF cnxn, DaemonMsg, Payloads
  <1>4. wire' \in Seq(DaemonMsg) /\ ClseIsLast' /\ ExitThenClse' /\ ClseCloses'
    BY <1>2, <1>3, SayOne, NoStreamZeroAssumption DEF Banner
  <1>5. \A q \in RemoteIds : ~Live(q)'
    BY DEF Banner, Live, LivePhases
  <1>6. LidsDistinct'
    BY <1>5 DEF LidsDistinct
  <1>7. asks' \in Seq(Ask) /\ Answerable'
    <2>a. \A q \in RemoteIds : phase'[q] = IF Live(q) THEN "closed" ELSE phase[q]
      BY DEF Banner
    <2> QED
      BY <2>a, AnswerableHeard DEF Banner, Live, LivePhases
  <1> QED
    BY <1>1, <1>4, <1>6, <1>7 DEF SInv, TypeOK, Banner

LEMMA TakeKeeps ==
  ASSUME SInv, Take
  PROVE  SInv'
  <1>1. wire \in Seq(DaemonMsg) /\ wire # <<>> /\ wire' = Tail(wire)
    BY DEF SInv, TypeOK, Take
  <1>2. /\ wire' \in Seq(DaemonMsg)
        /\ \A i \in 1 .. Len(wire') : i + 1 \in 1 .. Len(wire) /\ wire'[i] = wire[i + 1]
        /\ ClseIsLast' /\ ExitThenClse'
    BY <1>1, TailKeeps DEF SInv, ClseIsLast, ExitThenClse
  <1>3. ClseCloses'
    BY <1>2 DEF SInv, ClseCloses, Take
  <1>4. /\ phase' \in [RemoteIds -> Phases] /\ lid' \in [RemoteIds -> LocalIds]
        /\ LidsDistinct'
    BY SameStreams DEF Take
  <1>5. Answerable'
    BY AnswerableKept DEF SInv, Take
  <1> QED
    BY <1>2, <1>3, <1>4, <1>5 DEF SInv, TypeOK, Take

LEMMA DownKeeps ==
  ASSUME SInv, Down
  PROVE  SInv'
  <1>1. TypeOK'
    <2>a. phase' \in [RemoteIds -> Phases] /\ lid' \in [RemoteIds -> LocalIds]
      BY ZeroId DEF Down, Phases
    <2>b. up' \in BOOLEAN
      BY DEF Down
    <2>c. <<>> \in Seq(Ask)
      OBVIOUS
    <2>d. <<>> \in Seq(DaemonMsg)
      OBVIOUS
    <2>e. asks' = <<>> /\ wire' = <<>>
      BY DEF Down
    <2> QED
      BY <2>a, <2>b, <2>c, <2>d, <2>e DEF TypeOK
  <1>2. \A q \in RemoteIds : ~Live(q)'
    BY DEF Down, Live, LivePhases
  <1>3. LidsDistinct'
    BY <1>2 DEF LidsDistinct
  <1>4. wire' = <<>> /\ asks' = <<>>
    BY DEF Down
  <1>5. ClseCloses' /\ ClseIsLast' /\ ExitThenClse'
    BY <1>4 DEF ClseCloses, ClseIsLast, QuietAfterClse, ExitThenClse, ExitsClosed
  <1>6. Answerable'
    BY <1>4 DEF Answerable
  <1> QED
    BY <1>1, <1>3, <1>5, <1>6 DEF SInv

--------------------------------
(* The theorems. *)

(* The types and the properties hold together in every reachable state.    *)
THEOREM StreamsInvariance == Spec => []SInv
  <1>1. SInv /\ [Next]_svars => SInv'
    <2> SUFFICES ASSUME SInv, [Next]_svars PROVE SInv'
      OBVIOUS
    <2>a. CASE UNCHANGED svars
      BY <2>a DEF svars, SInv, TypeOK, ClseCloses, ClseIsLast, ExitThenClse,
                  LidsDistinct, Live, Answerable
    <2>b. CASE \E r \in RemoteIds : StreamStep(r)
      BY <2>b, RequestKeeps, SpeakKeeps, AcceptKeeps, RefuseKeeps, OutputKeeps,
         AckKeeps, SyncAnswerKeeps, SyncQuitKeeps, ExitKeeps, CloseKeeps, IgnoreKeeps
         DEF StreamStep
    <2>c. CASE Connect \/ Banner
      BY <2>c, ConnectKeeps, BannerKeeps
    <2>d. CASE Take
      BY <2>d, TakeKeeps
    <2>e. CASE Down
      BY <2>e, DownKeeps
    <2> QED
      BY <2>a, <2>b, <2>c, <2>d, <2>e DEF Next
  <1> QED
    BY <1>1, InitKeeps, PTL DEF Spec

(* Once a client has a stream's CLSE it may forget the stream: what may    *)
(* still come for it is acknowledgements.                                  *)
THEOREM CloseIsFinal == Spec => []ClseIsLast
  BY StreamsInvariance, PTL DEF SInv

(* No exit without its CLSE, whatever other streams put on the wire.       *)
THEOREM ExitIsFollowed == Spec => []ExitThenClse
  BY StreamsInvariance, PTL DEF SInv

(* The daemon has an answer for whatever the client may have asked, and    *)
(* owes each OPEN exactly one: no banner and no close loses an OPEN.       *)
THEOREM NothingUnanswerable == Spec => []Answerable
  BY StreamsInvariance, PTL DEF SInv

================================
