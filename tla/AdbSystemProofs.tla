-------- MODULE AdbSystemProofs --------
(***************************************************************************)
(* Proofs about AdbSystem, in three parts: a client that follows the       *)
(* protocol is one of the peers Adbd allows, so what is proved of the      *)
(* daemon holds with it; its streams keep apart and none is lost; and the  *)
(* system implements AdbStreams.                                           *)
(***************************************************************************)
EXTENDS AdbSystem, AdbdProofs, SequenceTheorems

(***************************************************************************)
(* The client is one of the peers of Adbd, and its own variables keep to   *)
(* their types.                                                            *)
(***************************************************************************)

ClientOK ==
    /\ link \in Links
    /\ cl \in [RemoteIds -> ClientPhases]
    /\ loc \in [RemoteIds -> LocalIds]
    /\ cnxns \in 0 .. MaxCnxn

(* What the client sends is among the messages of an arbitrary peer.       *)
LEMMA ClientMessages ==
  ASSUME NEW r \in RemoteIds, NEW l \in LocalIds
  PROVE  /\ PeerCnxn \in AnyMessage
         /\ \A d \in Dests : PeerOpen(r, d) \in AnyMessage
         /\ \A c \in {"OKAY", "CLSE", "WRTE"} : PeerStream(c, r, l) \in AnyMessage
  BY DEF AnyMessage

LEMMA CnxnAllowed == PeerCnxn \in AnyMessage
  BY DEF AnyMessage

(* Each step of the system is one of the daemon with some peer, or leaves  *)
(* the daemon alone.                                                       *)
LEMMA SystemStep ==
  ASSUME ClientOK, [SysNext]_sysvars
  PROVE  [Next]_vars
  <1>1. CASE UNCHANGED sysvars
    BY <1>1 DEF sysvars
  <1>2. CASE (Daemon \/ Kids \/ Terminated) /\ UNCHANGED client
    BY <1>2 DEF Next
  <1>3. CASE ClientConnects
    BY <1>3, CnxnAllowed DEF ClientConnects, Next, Peer
  <1>4. ASSUME NEW r \in RemoteIds, NEW d \in Dests, ClientOpens(r, d)
        PROVE  Next
    <2>a. PeerOpen(r, d) \in AnyMessage
      BY DEF AnyMessage
    <2> QED
      BY <1>4, <2>a DEF ClientOpens, Next, Peer
  <1>5. ASSUME NEW r \in RemoteIds, ClientWrites(r) \/ ClientAcks(r) \/ ClientCloses(r)
        PROVE  Next
    <2>a. loc[r] \in LocalIds
      BY DEF ClientOK
    <2>b. \A c \in {"OKAY", "CLSE", "WRTE"} : PeerStream(c, r, loc[r]) \in AnyMessage
      BY <2>a, ClientMessages
    <2>c. \E c \in {"OKAY", "CLSE", "WRTE"} : PeerSends(PeerStream(c, r, loc[r]))
      BY <1>5 DEF ClientWrites, ClientAcks, ClientCloses
    <2> QED
      BY <2>b, <2>c DEF Next, Peer
  <1>6. CASE ClientReceives \/ ClientHangsUp
    BY <1>6 DEF ClientReceives, ClientHangsUp, Next, Peer
  <1> QED
    BY <1>1, <1>2, <1>3, <1>4, <1>5, <1>6 DEF SysNext, ClientStep

(* The client learns its ids from the daemon's messages.                   *)
LEMMA TakesType ==
  ASSUME ClientOK, NEW m \in DaemonMsg, Takes(m)
  PROVE  ClientOK'
  <1>1. m.arg0 \in LocalIds
    BY DEF DaemonMsg
  <1>2. CASE m.cmd = "CNXN"
    BY <1>2 DEF Takes, ClientOK, Links
  <1>3. CASE m.cmd = "OKAY" /\ cl[m.arg1] = "opening"
    BY <1>1, <1>3 DEF Takes, ClientOK, ClientPhases
  <1>4. CASE m.cmd = "CLSE" /\ cl[m.arg1] = "opening"
    BY <1>4 DEF Takes, ClientOK, ClientPhases
  <1>5. CASE m.cmd = "CLSE" /\ cl[m.arg1] = "open"
    BY <1>5 DEF Takes, ClientOK, ClientPhases
  <1>6. CASE UNCHANGED client
    BY <1>6 DEF client, ClientOK
  <1> QED
    BY <1>2, <1>3, <1>4, <1>5, <1>6 DEF Takes

LEMMA ClientStepType ==
  ASSUME TypeOK, ClientOK, [SysNext]_sysvars
  PROVE  ClientOK'
  <1>1. CASE UNCHANGED client
    BY <1>1 DEF client, ClientOK
  <1>2. CASE ClientConnects
    <2>a. cnxns + 1 \in 0 .. MaxCnxn
      BY <1>2, MaxCnxnAssumption DEF ClientConnects, ClientOK
    <2> QED
      BY <1>2, <2>a DEF ClientConnects, ClientOK, Links, ClientPhases
  <1>3. ASSUME NEW r \in RemoteIds, NEW d \in Dests, ClientOpens(r, d)
        PROVE  ClientOK'
    BY <1>3 DEF ClientOpens, ClientOK, ClientPhases
  <1>4. ASSUME NEW r \in RemoteIds, ClientWrites(r) \/ ClientAcks(r)
        PROVE  UNCHANGED client
    BY <1>4 DEF ClientWrites, ClientAcks
  <1>5. ASSUME NEW r \in RemoteIds, ClientCloses(r)
        PROVE  ClientOK'
    BY <1>5 DEF ClientCloses, ClientOK, ClientPhases
  <1>6. CASE ClientReceives
    <2>a. outbox \in Seq(DaemonMsg) /\ outbox # <<>>
      BY <1>6 DEF ClientReceives, PeerReceives, TypeOK, QueuesOK
    <2>b. Head(outbox) \in DaemonMsg
      BY <2>a
    <2> QED
      BY <1>6, <2>b, TakesType DEF ClientReceives
  <1>7. CASE ClientHangsUp
    BY <1>1, <1>7 DEF ClientHangsUp
  <1> QED
    BY <1>1, <1>2, <1>3, <1>4, <1>5, <1>6, <1>7 DEF SysNext, ClientStep, sysvars

LEMMA SystemInit == SysInit => IInv /\ ClientOK
  <1> SUFFICES ASSUME SysInit PROVE ClientOK
    BY InitInv DEF SysInit
  <1> QED
    BY ZeroOne, MaxCnxnAssumption DEF SysInit, ClientInit, ClientOK, Links, ClientPhases

--------------------------------
(* The theorems. *)

(* The daemon's invariant and the client's types.                          *)
THEOREM SystemInvariance == SysSpec => [](IInv /\ ClientOK)
  <1>1. IInv /\ ClientOK /\ [SysNext]_sysvars => IInv' /\ ClientOK'
    BY SystemStep, ClientStepType, NextInv DEF IInv
  <1> QED
    BY <1>1, SystemInit, PTL DEF SysSpec

(* Every behaviour with a conforming client is one of the daemon with an   *)
(* arbitrary peer: the client never sends what AnyMessage leaves out.      *)
THEOREM ClientIsAPeer == SysSpec => Spec
  <1>1. ClientOK /\ [SysNext]_sysvars => [Next]_vars
    BY SystemStep
  <1>2. SysInit => Init
    BY DEF SysInit
  <1> QED
    BY <1>1, <1>2, SystemInvariance, PTL DEF SysSpec, Spec

(* Daemon and client keep to their types, so the ids the client writes to  *)
(* are ids the daemon can have given it.                                   *)
THEOREM SystemTypeCorrect == SysSpec => []SysTypeOK
  <1>1. IInv /\ ClientOK => SysTypeOK
    BY DEF IInv, ClientOK, SysTypeOK
  <1> QED
    BY <1>1, SystemInvariance, PTL

--------------------------------
(***************************************************************************)
(* No cross talk between the streams of a conforming client, and no stream *)
(* of it lost in silence: NoCrossTalk and OpenOrTold of AdbSystem.         *)
(*                                                                         *)
(* The daemon looks streams up by its own ids and starts them over with    *)
(* each CNXN, so an id says whose it is only together with what is still   *)
(* in flight.  The invariant speaks of own[r], the id the daemon gave      *)
(* stream r since the last clear, or 0, and says that tables and messages, *)
(* both ways, agree with it.  Nothing of the old ids survives a            *)
(* clear, because the CNXN that brings it is the last word of the client   *)
(* until its banner comes; and the banner comes after all else.            *)
(*                                                                         *)
(* The client uses each stream id once, in ascending order.  As long as    *)
(* those stay below the last value of a local id (SmallIds: 2^32 - 1 for   *)
(* the u32 of the code) the counter does not wrap between two clears; with *)
(* a counter that wraps the properties are not claimed.                    *)
(***************************************************************************)

(* There are more local ids than stream ids.                               *)
SmallIds == \A r \in RemoteIds : r + 1 < IdSpace

--------------------------------
(* The invariant. *)

(* What is on its way to the daemon; to the client; or queued for it.      *)
Rng(q) == {q[i] : i \in 1 .. Len(q)}
Heard == Rng(inbox)
Sent == Rng(outbox) \cup Rng(sendq)
Said == Sent \cup Rng(wrtes)

(* The streams the client still expects something of, the messages about   *)
(* streams, and the streams whose OPEN the daemon has not read.            *)
Active == {"opening", "open", "half"}
StreamCmds == {"OKAY", "CLSE", "WRTE"}
Pending == {m.arg0 : m \in {x \in Heard : x.cmd = "OPEN"}}

(* Ids are given once and from below the counter; a stream whose OPEN has  *)
(* not been read has none; a session's id is that of its stream.           *)
Given(own) ==
    /\ own \in [RemoteIds -> LocalIds]
    /\ \A r \in RemoteIds : own[r] < next_local_id
    /\ \A r, q \in RemoteIds : own[r] = own[q] /\ own[r] # 0 => r = q

Unasked(own) == \A r \in RemoteIds : cl[r] = "fresh" \/ r \in Pending => own[r] = 0

Tables(own) == \A l \in Live : RemoteOf(l) \in RemoteIds /\ own[RemoteOf(l)] = l

Ids(own) == Given(own) /\ Unasked(own) /\ Tables(own)

(* A message of the client, and one of the daemon, names a stream and its  *)
(* id.                                                                     *)
Aimed(own, m) == m.arg0 \in RemoteIds /\ m.arg1 = own[m.arg0] /\ m.arg1 # 0
Fits(own, m) == m.arg1 \in RemoteIds /\ m.arg0 = own[m.arg1] /\ m.arg0 # 0

(* What has been heard is aimed, and so is the WRTE being handled; what is *)
(* said to a stream still wanted fits, or refuses it under the id 0; and   *)
(* the client knows the ids of its streams.                                *)
Asks(own) == \A m \in Heard : m.cmd \in StreamCmds => Aimed(own, m)

Handles(own) == pc \in {"wrte", "unsync"} => Aimed(own, msg)

Answers(own) ==
    \A m \in Said : m.cmd \in StreamCmds =>
        /\ m.arg1 \in RemoteIds
        /\ cl[m.arg1] # "fresh" /\ m.arg1 \notin Pending
        /\ cl[m.arg1] \in Active => m.arg0 = own[m.arg1] /\ (m.cmd = "OKAY" => m.arg0 # 0)

Knows(own) == \A r \in RemoteIds : cl[r] \in {"open", "half"} => loc[r] = own[r] /\ own[r] # 0

Words(own) == Asks(own) /\ Handles(own) /\ Answers(own) /\ Knows(own)

(* A session on its way out has its CLSE in sendq or beyond.  Every stream *)
(* with an id that the client counts on lives on, or its CLSE is coming.   *)
Leaving(l) == (pc = "close" /\ cur = l) \/ (pc = "unsync" /\ msg.arg1 = l)

Told(own) ==
    \A r \in RemoteIds : peer /\ cl[r] \in {"opening", "open"} /\ own[r] # 0 =>
        (own[r] \in Live /\ ~Leaving(own[r])) \/ clse(own[r], r) \in Sent

(* The client sends nothing malformed.                                     *)
Opens ==
    \A m \in Heard : /\ m.cmd # "BAD"
                     /\ m.cmd = "OPEN" => m.arg0 \in RemoteIds /\ cl[m.arg0] # "fresh"

(* A CNXN is the last message heard, and the one banner that answers it    *)
(* the last that was wanted: while the client waits for it, it has no      *)
(* stream.                                                                 *)
CnxnLast ==
    \A i \in 1 .. Len(inbox) : inbox[i].cmd = "CNXN" => i = Len(inbox)

CnxnAlone ==
    (\E m \in Heard : m.cmd = "CNXN") => link = "waiting" /\ \A m \in Sent : m.cmd # "CNXN"

BannerAwaited == \A m \in Sent : m.cmd = "CNXN" => link = "waiting"

OneBanner ==
    /\ \A m \in Rng(sendq) : m.cmd = "CNXN" =>
          Len(sendq) = 1 /\ \A n \in Rng(outbox) : n.cmd # "CNXN"
    /\ \A i, j \in 1 .. Len(outbox) : outbox[i].cmd = "CNXN" /\ outbox[j].cmd = "CNXN" => i = j

OutputOnly == \A m \in Rng(wrtes) : m.cmd = "WRTE"

Waiting == link = "waiting" => \A r \in RemoteIds : cl[r] \notin Active

(* When the banner is out but the tables are not yet cleared, the client   *)
(* may have begun again; the daemon has read none of that.                 *)
Resetting ==
    pc = "cnxn" =>
        /\ \A m \in Heard : m.cmd \in {"OPEN", "CNXN"}
        /\ \A r \in RemoteIds : cl[r] \in Active => cl[r] = "opening" /\ r \in Pending

(* OPENs come in ascending order, so the counter never gets ahead of the   *)
(* streams to come, and with SmallIds never wraps.                         *)
Rising ==
    \A i, j \in 1 .. Len(inbox) :
        i < j /\ inbox[i].cmd = "OPEN" /\ inbox[j].cmd = "OPEN" => inbox[i].arg0 < inbox[j].arg0

Ahead ==
    /\ ~wrapped
    /\ \A r \in RemoteIds : cl[r] = "fresh" \/ r \in Pending => next_local_id <= r
    /\ \A r \in RemoteIds, q \in Pending : cl[r] = "fresh" => q < r

Turns == /\ Opens /\ CnxnLast /\ CnxnAlone /\ BannerAwaited /\ OneBanner /\ OutputOnly
         /\ Waiting /\ Resetting /\ Rising /\ Ahead

(* All of it, while the connection is up; and after it, that nobody is     *)
(* left to be misled.                                                      *)
Up(own) == Ids(own) /\ Words(own) /\ Told(own) /\ Turns

Gone == /\ pc = "done" => ~peer /\ inbox = <<>>
        /\ ~peer => outbox = <<>>

CrossInv == Gone /\ (pc # "done" => \E own : Up(own))

(* What is known already, from the first part.                             *)
Base == IInv /\ ClientOK /\ SmallIds

--------------------------------

(* The empty sequence holds nothing.                                       *)
LEMMA RngEmpty == Rng(<<>>) = {}
  BY DEF Rng

(* The one element of a singleton.                                         *)
LEMMA RngOne ==
  ASSUME NEW m
  PROVE  Rng(<<m>>) = {m}
  BY DEF Rng

(* The elements have the type of the sequence.                             *)
LEMMA RngType ==
  ASSUME NEW S, NEW q \in Seq(S)
  PROVE  Rng(q) \subseteq S
  BY DEF Rng

(* One more.                                                               *)
LEMMA RngAppend ==
  ASSUME NEW S, NEW q \in Seq(S), NEW m \in S
  PROVE  Rng(Append(q, m)) = Rng(q) \cup {m}
  <1>1. Len(Append(q, m)) = Len(q) + 1 /\ Len(q) \in Nat
    OBVIOUS
  <1>2. \A i \in 1 .. Len(q) : Append(q, m)[i] = q[i]
    OBVIOUS
  <1>3. Append(q, m)[Len(q) + 1] = m
    OBVIOUS
  <1> QED
    BY <1>1, <1>2, <1>3 DEF Rng

(* Two sequences, end to end.                                              *)
LEMMA RngConcat ==
  ASSUME NEW S, NEW p \in Seq(S), NEW q \in Seq(S)
  PROVE  Rng(p \o q) = Rng(p) \cup Rng(q)
  <1>1. /\ Len(p \o q) = Len(p) + Len(q) /\ Len(p) \in Nat /\ Len(q) \in Nat
        /\ \A i \in 1 .. Len(p) : (p \o q)[i] = p[i]
        /\ \A i \in 1 .. Len(q) : (p \o q)[Len(p) + i] = q[i]
    OBVIOUS
  <1>2. \A i \in 1 .. Len(p) + Len(q) : i \notin 1 .. Len(p) =>
            i - Len(p) \in 1 .. Len(q) /\ i = Len(p) + (i - Len(p))
    BY <1>1
  <1>3. Rng(p \o q) \subseteq Rng(p) \cup Rng(q)
    <2> SUFFICES ASSUME NEW i \in 1 .. Len(p) + Len(q)
                 PROVE  (p \o q)[i] \in Rng(p) \cup Rng(q)
      BY <1>1 DEF Rng
    <2>a. CASE i \in 1 .. Len(p)
      BY <1>1, <2>a DEF Rng
    <2>b. CASE i \notin 1 .. Len(p)
      <3>1. PICK j \in 1 .. Len(q) : i = Len(p) + j
        BY <1>2, <2>b
      <3> QED
        BY <1>1, <3>1 DEF Rng
    <2> QED
      BY <2>a, <2>b
  <1>4. Rng(p) \subseteq Rng(p \o q)
    BY <1>1 DEF Rng
  <1>5. Rng(q) \subseteq Rng(p \o q)
    <2> SUFFICES ASSUME NEW i \in 1 .. Len(q)
                 PROVE  q[i] \in Rng(p \o q)
      BY DEF Rng
    <2>a. Len(p) + i \in 1 .. Len(p \o q) /\ (p \o q)[Len(p) + i] = q[i]
      BY <1>1
    <2> QED
      BY <2>a DEF Rng
  <1> QED
    BY <1>3, <1>4, <1>5

(* One less.                                                               *)
LEMMA RngTail ==
  ASSUME NEW S, NEW q \in Seq(S), q # <<>>
  PROVE  /\ Rng(q) = {Head(q)} \cup Rng(Tail(q))
         /\ Head(q) \in Rng(q) /\ Rng(Tail(q)) \subseteq Rng(q)
  <1>1. /\ Len(q) \in Nat \ {0} /\ Len(Tail(q)) = Len(q) - 1 /\ Head(q) = q[1]
        /\ \A i \in 1 .. Len(q) - 1 : Tail(q)[i] = q[i + 1]
    OBVIOUS
  <1>2. Head(q) \in Rng(q)
    BY <1>1 DEF Rng
  <1>3. Rng(Tail(q)) \subseteq Rng(q)
    <2> SUFFICES ASSUME NEW i \in 1 .. Len(q) - 1
                 PROVE  Tail(q)[i] \in Rng(q)
      BY <1>1 DEF Rng
    <2>a. i + 1 \in 1 .. Len(q) /\ Tail(q)[i] = q[i + 1]
      BY <1>1
    <2> QED
      BY <2>a DEF Rng
  <1>4. Rng(q) \subseteq {Head(q)} \cup Rng(Tail(q))
    <2> SUFFICES ASSUME NEW i \in 1 .. Len(q), i # 1
                 PROVE  q[i] \in Rng(Tail(q))
      BY <1>1 DEF Rng
    <2>a. i - 1 \in 1 .. Len(Tail(q)) /\ Tail(q)[i - 1] = q[(i - 1) + 1] /\ (i - 1) + 1 = i
      BY <1>1
    <2> QED
      BY <2>a DEF Rng
  <1> QED
    BY <1>2, <1>3, <1>4

--------------------------------
(* What a read leaves in the inbox. *)
LEMMA HeardLess ==
  ASSUME TypeOK, inbox' = inbox \/ (inbox # <<>> /\ inbox' = Tail(inbox))
  PROVE  /\ Heard' \subseteq Heard /\ Pending' \subseteq Pending
         /\ CnxnLast => CnxnLast'
         /\ Rising => Rising'
  <1>1. inbox \in Seq(PeerMsg)
    BY DEF TypeOK, QueuesOK
  <1>2. CASE inbox' = inbox
    BY <1>2 DEF Heard, Pending, CnxnLast, Rising
  <1>3. CASE inbox # <<>> /\ inbox' = Tail(inbox)
    <2>a. Heard' \subseteq Heard
      BY <1>1, <1>3, RngTail DEF Heard
    <2>b. /\ Len(inbox) \in Nat \ {0} /\ Len(inbox') = Len(inbox) - 1
          /\ \A i \in 1 .. Len(inbox') : i + 1 \in 1 .. Len(inbox) /\ inbox'[i] = inbox[i + 1]
      BY <1>1, <1>3
    <2>c. CnxnLast => CnxnLast'
      <3> SUFFICES ASSUME CnxnLast, NEW i \in 1 .. Len(inbox'), inbox'[i].cmd = "CNXN"
                   PROVE  i = Len(inbox')
        BY DEF CnxnLast
      <3>1. i + 1 = Len(inbox)
        BY <2>b DEF CnxnLast
      <3> QED
        BY <2>b, <3>1
    <2>d. Rising => Rising'
      <3> SUFFICES ASSUME Rising, NEW i \in 1 .. Len(inbox'), NEW j \in 1 .. Len(inbox'), i < j,
                          inbox'[i].cmd = "OPEN", inbox'[j].cmd = "OPEN"
                   PROVE  inbox'[i].arg0 < inbox'[j].arg0
        BY DEF Rising
      <3>1. i + 1 < j + 1
        OBVIOUS
      <3> QED
        BY <2>b, <3>1 DEF Rising
    <2> QED
      BY <2>a, <2>c, <2>d DEF Pending
  <1> QED
    BY <1>2, <1>3

(* A step of the daemon that gives out no id, and says only what fits. *)
LEMMA StepUp ==
  ASSUME NEW own, Base, Up(own),
         UNCHANGED <<client, next_local_id, wrapped>>,
         inbox' = inbox \/ (inbox # <<>> /\ inbox' = Tail(inbox)),
         Live' \subseteq Live, \A l \in Live' : RemoteOf(l)' = RemoteOf(l),
         \A m \in Said' : m \in Said \/ (m.cmd \in StreamCmds /\ Fits(own, m)),
         Handles(own)', Told(own)', OneBanner', OutputOnly',
         pc' = "cnxn" => pc = "cnxn" /\ inbox' = inbox
  PROVE  Up(own)'
  <1>0. TypeOK
    BY DEF Base, IInv
  <1> USE DEF Up, Ids, Words, Turns
  <1>1. /\ Heard' \subseteq Heard /\ Pending' \subseteq Pending /\ CnxnLast' /\ Rising'
    BY <1>0, HeardLess
  <1>2. cl' = cl /\ loc' = loc /\ link' = link
    BY DEF client
  <1>3. Given(own)'
    BY DEF Given
  <1>4. Unasked(own)'
    BY <1>1, <1>2 DEF Unasked
  <1>5. Tables(own)'
    BY DEF Tables
  <1>6. Asks(own)'
    BY <1>1 DEF Asks, Aimed
  <1>7. Answers(own)'
    <2> SUFFICES ASSUME NEW m \in Said', m.cmd \in StreamCmds
                 PROVE  /\ m.arg1 \in RemoteIds
                        /\ cl[m.arg1] # "fresh" /\ m.arg1 \notin Pending'
                        /\ cl[m.arg1] \in Active =>
                              m.arg0 = own[m.arg1] /\ (m.cmd = "OKAY" => m.arg0 # 0)
      BY <1>2 DEF Answers
    <2>a. CASE m \in Said
      BY <1>1, <2>a DEF Answers
    <2>b. CASE Fits(own, m)
      BY <1>1, <2>b DEF Fits, Unasked
    <2> QED
      BY <2>a, <2>b
  <1>8. Knows(own)' /\ Waiting'
    BY <1>2 DEF Knows, Waiting
  <1>9. Opens'
    BY <1>1, <1>2 DEF Opens
  <1>10. \A m \in Sent' : m.cmd = "CNXN" => m \in Sent
    <2>a. \A m \in Said : m.cmd = "CNXN" => m \in Sent
      BY DEF Said, OutputOnly
    <2>b. Sent' \subseteq Said'
      BY DEF Said
    <2> QED
      BY <2>a, <2>b DEF StreamCmds
  <1>11. CnxnAlone' /\ BannerAwaited'
    BY <1>1, <1>2, <1>10 DEF CnxnAlone, BannerAwaited
  <1>12. Resetting'
    <2> SUFFICES ASSUME pc' = "cnxn"
                 PROVE  /\ \A m \in Heard' : m.cmd \in {"OPEN", "CNXN"}
                        /\ \A r \in RemoteIds : cl[r] \in Active => cl[r] = "opening" /\ r \in Pending'
      BY <1>2 DEF Resetting
    <2>a. Heard' = Heard /\ Pending' = Pending
      BY DEF Heard, Pending
    <2> QED
      BY <2>a DEF Resetting
  <1>13. Ahead'
    BY <1>1, <1>2 DEF Ahead
  <1> QED
    BY <1>1, <1>3, <1>4, <1>5, <1>6, <1>7, <1>8, <1>9, <1>11, <1>12, <1>13

(* A stream stays as it is known to be as long as its session does, or its *)
(* CLSE goes out.                                                          *)
LEMMA ToldKept ==
  ASSUME NEW own, Told(own), UNCHANGED <<client, peer>>, Sent \subseteq Sent' \/ ~peer,
         \A r \in RemoteIds : own[r] # 0 /\ own[r] \in Live /\ ~Leaving(own[r]) =>
            (own[r] \in Live' /\ ~Leaving(own[r])') \/ clse(own[r], r) \in Sent'
  PROVE  Told(own)'
  <1>1. cl' = cl /\ peer' = peer
    BY DEF client
  <1> QED
    BY <1>1 DEF Told

(* A step that touches no session and says nothing. *)
LEMMA QuietUp ==
  ASSUME NEW own, Base, Up(own),
         UNCHANGED <<client, tables, wrtes, sendq, outbox, peer>>,
         inbox' = inbox \/ (inbox # <<>> /\ inbox' = Tail(inbox)),
         pc' \in {"wrte", "unsync", "close", "cnxn"} =>
            UNCHANGED <<pc, msg, cur, inbox>>
  PROVE  Up(own)'
  <1>1. /\ UNCHANGED <<next_local_id, wrapped>>
        /\ Live' = Live /\ Sent' = Sent /\ Said' = Said
        /\ \A l \in Live' : RemoteOf(l)' = RemoteOf(l)
    BY DEF tables, Live, active_ids, RemoteOf, Sent, Said, Rng
  <1>2. \A l : Leaving(l)' => Leaving(l)
    BY DEF Leaving
  <1>3. Told(own)'
    BY <1>1, <1>2, ToldKept DEF Up
  <1>4. Handles(own)'
    BY DEF Up, Words, Handles, Aimed
  <1>5. OneBanner' /\ OutputOnly'
    BY DEF Up, Turns, OneBanner, OutputOnly, Rng
  <1> QED
    BY <1>1, <1>3, <1>4, <1>5, StepUp

--------------------------------
(* What the handler's reads do. *)

(* What the read message is. *)
LEMMA HeadHeard ==
  ASSUME Base, inbox # <<>>
  PROVE  /\ Head(inbox) \in Heard
         /\ inbox \in Seq(PeerMsg) /\ Len(inbox) \in Nat \ {0} /\ Head(inbox) = inbox[1]
         /\ Heard = {Head(inbox)} \cup Rng(Tail(inbox))
  <1>1. inbox \in Seq(PeerMsg)
    BY DEF Base, IInv, TypeOK, QueuesOK
  <1> QED
    BY <1>1, RngTail DEF Heard

(* A handler that sends a single message, all before being out.            *)
LEMMA OneMessage ==
  ASSUME NEW m, sendq = <<>>, sendq' = <<m>>, UNCHANGED <<outbox, wrtes>>
  PROVE  /\ Sent' = Sent \cup {m} /\ Said' = Said \cup {m}
         /\ m.cmd # "CNXN" /\ OneBanner => OneBanner'
  <1>1. Rng(sendq') = {m} /\ Rng(sendq) = {}
    BY RngOne, RngEmpty
  <1>2. Sent' = Sent \cup {m} /\ Said' = Said \cup {m}
    BY <1>1 DEF Sent, Said, Rng
  <1>3. m.cmd # "CNXN" /\ OneBanner => OneBanner'
    BY <1>1 DEF OneBanner, Rng
  <1> QED
    BY <1>2, <1>3

(* A WRTE is acknowledged with the ids it came with, which fit.            *)
LEMMA HandleWrteUp ==
  ASSUME NEW own, Base, Up(own), HandleWrte, UNCHANGED client
  PROVE  Up(own)'
  <1> DEFINE m == Head(inbox)
             a == okay(m.arg1, m.arg0)
  <1>0. /\ inbox # <<>> /\ inbox' = Tail(inbox) /\ m.cmd = "WRTE" /\ sendq = <<>>
        /\ sendq' = <<a>> /\ UNCHANGED <<outbox, wrtes, peer, tables>> /\ msg' = m /\ pc' = "wrte"
    BY DEF HandleWrte, Read, At, poll
  <1>1. Aimed(own, m)
    BY <1>0, HeadHeard DEF Up, Words, Asks, StreamCmds
  <1>2. a.cmd = "OKAY" /\ Fits(own, a)
    BY <1>1 DEF Aimed, Fits, okay
  <1>3. Sent' = Sent \cup {a} /\ Said' = Said \cup {a} /\ OneBanner'
    BY <1>0, <1>2, OneMessage DEF Up, Turns
  <1>4. /\ UNCHANGED <<next_local_id, wrapped>> /\ Live' = Live
        /\ \A l \in Live' : RemoteOf(l)' = RemoteOf(l)
    BY <1>0 DEF tables, Live, active_ids, RemoteOf
  <1>5. Told(own)'
    <2>a. \A l : ~Leaving(l)'
      BY <1>0 DEF Leaving
    <2> QED
      BY <1>0, <1>3, <1>4, <2>a, ToldKept DEF Up
  <1>6. Handles(own)'
    BY <1>0, <1>1 DEF Handles, Aimed
  <1>7. OutputOnly'
    BY <1>0 DEF Up, Turns, OutputOnly, Rng
  <1>8. \A x \in Said' : x \in Said \/ (x.cmd \in StreamCmds /\ Fits(own, x))
    BY <1>2, <1>3 DEF StreamCmds
  <1> HIDE DEF m, a
  <1> QED
    BY <1>0, <1>3, <1>4, <1>5, <1>6, <1>7, <1>8, StepUp

(* A CLSE drops the session of its stream, and that stream is told.        *)
LEMMA HandleClseUp ==
  ASSUME NEW own, Base, Up(own), HandleClse, UNCHANGED client
  PROVE  Up(own)'
  <1>0. /\ inbox # <<>> /\ inbox' = Tail(inbox) /\ sendq = <<>> /\ pc' = "begin"
        /\ UNCHANGED <<outbox, wrtes, peer, next_local_id, wrapped>>
    BY DEF HandleClse, Read, At, poll
  <1>1. Handles(own)' /\ OutputOnly' /\ \A l : ~Leaving(l)'
    BY <1>0 DEF Up, Turns, OutputOnly, Rng, Handles, Leaving
  <1>2. /\ \A l \in Live : l # 0 /\ RemoteOf(l) \in RemoteIds /\ own[RemoteOf(l)] = l
        /\ active_ids \cap DOMAIN sync_sessions = {}
    BY DEF Up, Ids, Tables, Turns, Ahead, Base, IInv, IdsFresh
  <1>3. \A l \in Live : Fits(own, clse(l, RemoteOf(l)))
    BY <1>2 DEF Fits, clse
  <1>4. ASSUME NEW l \in Live, sendq' = <<clse(l, RemoteOf(l))>>, Live' = Live \ {l},
               \A k \in Live' : RemoteOf(k)' = RemoteOf(k)
        PROVE  Up(own)'
    <2> DEFINE a == clse(l, RemoteOf(l))
    <2>a. a.cmd = "CLSE" /\ Fits(own, a)
      BY <1>3 DEF clse
    <2>b. Sent' = Sent \cup {a} /\ Said' = Said \cup {a} /\ OneBanner'
      BY <1>0, <1>4, <2>a, OneMessage DEF Up, Turns
    <2>c. Told(own)'
      <3>1. \A r \in RemoteIds : own[r] = l => r = RemoteOf(l)
        BY <1>2 DEF Up, Ids, Given
      <3>2. \A r \in RemoteIds : own[r] = l => clse(own[r], r) \in Sent'
        BY <2>b, <3>1
      <3> QED
        BY <1>0, <1>1, <1>4, <2>b, <3>2, ToldKept DEF Up
    <2>d. \A x \in Said' : x \in Said \/ (x.cmd \in StreamCmds /\ Fits(own, x))
      BY <2>a, <2>b DEF StreamCmds
    <2> HIDE DEF a
    <2> QED
      BY <1>0, <1>1, <1>4, <2>b, <2>c, <2>d, StepUp
  <1>5. ASSUME NEW l, DropShell(l)
        PROVE  Up(own)'
    <2>a. l \in Live /\ l \notin DOMAIN sync_sessions /\ sendq' = <<clse(l, RemoteOf(l))>>
      BY <1>2, <1>5 DEF DropShell, Live, RemoteOf
    <2>b. /\ sessions' = remove(sessions, l) /\ sync_sessions' = sync_sessions
          /\ DOMAIN sessions' = DOMAIN sessions \ {l}
          /\ \A k \in DOMAIN sessions' : sessions'[k] = sessions[k]
      BY <1>5 DEF DropShell, Forget, remove
    <2>c. Live' = Live \ {l} /\ \A k \in Live' : RemoteOf(k)' = RemoteOf(k)
      BY <2>a, <2>b DEF Live, RemoteOf, active_ids
    <2> QED
      BY <1>4, <2>a, <2>c
  <1>6. ASSUME NEW l, DropSync(l)
        PROVE  Up(own)'
    <2>a. l \in Live /\ l \notin active_ids /\ sendq' = <<clse(l, RemoteOf(l))>>
      BY <1>6 DEF DropSync, Live, RemoteOf
    <2>b. /\ sessions' = sessions /\ sync_sessions' = remove(sync_sessions, l)
          /\ DOMAIN sync_sessions' = DOMAIN sync_sessions \ {l}
          /\ \A k \in DOMAIN sync_sessions' : sync_sessions'[k] = sync_sessions[k]
      BY <1>6 DEF DropSync, remove
    <2>c. Live' = Live \ {l} /\ \A k \in Live' : RemoteOf(k)' = RemoteOf(k)
      BY <2>a, <2>b DEF Live, RemoteOf, active_ids
    <2> QED
      BY <1>4, <2>a, <2>c
  <1>7. ASSUME NEW l, DropNothing(l)
        PROVE  Up(own)'
    <2>a. UNCHANGED <<tables, sendq>>
      BY <1>0, <1>7 DEF DropNothing, tables
    <2> QED
      BY <1>0, <2>a, QuietUp
  <1> QED
    BY <1>5, <1>6, <1>7 DEF HandleClse

(* The OPENs behind one that is read are for greater ids.                  *)
LEMMA OpenGone ==
  ASSUME Base, Rising, inbox # <<>>, Head(inbox).cmd = "OPEN", inbox' = Tail(inbox)
  PROVE  \A q \in Pending' : Head(inbox).arg0 < q
  <1> SUFFICES ASSUME NEW m \in Heard', m.cmd = "OPEN"
               PROVE  Head(inbox).arg0 < m.arg0
    BY DEF Pending
  <1>1. PICK i \in 1 .. Len(inbox') : m = inbox'[i]
    BY DEF Heard, Rng
  <1>2. /\ 1 \in 1 .. Len(inbox) /\ i + 1 \in 1 .. Len(inbox) /\ 1 < i + 1
        /\ inbox[i + 1] = m /\ inbox[1] = Head(inbox)
    BY <1>1, HeadHeard
  <1> QED
    BY <1>2 DEF Rising

(* The answer to an OPEN: an id of the stream's own and an OKAY that names *)
(* it, or none and a CLSE.                                                 *)
LEMMA OpenUp ==
  ASSUME NEW own, NEW own2, NEW r, NEW a, Base, Up(own), UNCHANGED client,
         inbox # <<>>, Head(inbox).cmd = "OPEN", r = Head(inbox).arg0,
         inbox' = Tail(inbox), pc' = "begin",
         sendq = <<>>, sendq' = <<a>>, UNCHANGED <<wrtes, outbox, peer>>,
         a.arg1 = r, a.arg0 = own2[r], a.cmd \in {"OKAY", "CLSE"}, a.cmd = "OKAY" => own2[r] # 0,
         own2 \in [RemoteIds -> LocalIds], \A q \in RemoteIds : q # r => own2[q] = own[q],
         \/ own2[r] = 0 /\ next_local_id' \in {next_local_id, next_local_id + 1}
         \/ own2[r] = next_local_id /\ next_local_id' = next_local_id + 1,
         wrapped' = wrapped, Tables(own2)', Live \subseteq Live',
         own2[r] # 0 => own2[r] \in Live'
  PROVE  Up(own2)'
  <1> USE DEF Up, Ids, Words, Turns
  <1>1. /\ TypeOK /\ Head(inbox) \in Heard /\ r \in RemoteIds /\ r \in Pending /\ cl[r] # "fresh"
        /\ cl' = cl /\ loc' = loc /\ link' = link /\ wrapped = FALSE
        /\ next_local_id \in Nat \ {0} /\ RemoteIds \subseteq Nat
    <2>a. Head(inbox) \in Heard
      BY HeadHeard
    <2>b. next_local_id \in Nat \ {0}
      BY IdSpaceAssumption DEF Base, IInv, TypeOK, TablesOK, LocalIds, CounterStarted, Ahead
    <2>c. wrapped = FALSE
      BY DEF Base, IInv, TypeOK, ControlOK, Ahead
    <2> QED
      BY <2>a, <2>b, <2>c, RemoteIdsAssumption DEF Opens, Pending, client, Base, IInv
  <1>2. Heard' \subseteq Heard /\ Pending' \subseteq Pending /\ CnxnLast' /\ Rising'
    BY <1>1, HeardLess
  <1>3. \A q \in Pending' : r < q
    BY OpenGone
  <1>4. own[r] = 0 /\ r \notin Pending'
    <2>a. r \in Nat
      BY <1>1
    <2> QED
      BY <1>1, <1>3, <2>a DEF Unasked
  <1>5. Given(own2)'
    <2>a. /\ \A q \in RemoteIds : own[q] < next_local_id /\ own[q] \in LocalIds
          /\ LocalIds \subseteq Nat
      BY IdSpaceAssumption DEF Given, LocalIds
    <2>b. \A q \in RemoteIds : own2[q] < next_local_id'
      <3>1. own2[r] < next_local_id' /\ next_local_id <= next_local_id' /\ next_local_id' \in Nat
        BY <1>1
      <3>2. ASSUME NEW q \in RemoteIds, q # r
            PROVE  own2[q] < next_local_id'
        <4>1. own2[q] \in Nat /\ own2[q] < next_local_id /\ next_local_id \in Nat
          BY <1>1, <2>a, <3>2
        <4> QED
          BY <3>1, <4>1
      <3> QED
        BY <3>1, <3>2
    <2>c. \A p, q \in RemoteIds : own2[p] = own2[q] /\ own2[p] # 0 => p = q
      BY <1>1, <2>a DEF Given
    <2> QED
      BY <2>b, <2>c DEF Given
  <1>6. Unasked(own2)'
    BY <1>1, <1>2, <1>4 DEF Unasked
  <1>7. Asks(own2)'
    BY <1>2, <1>4 DEF Asks, Aimed
  <1>8. Handles(own2)'
    BY DEF Handles
  <1>9. Sent' = Sent \cup {a} /\ Said' = Said \cup {a} /\ OneBanner'
    BY OneMessage
  <1>10. Answers(own2)'
    <2> SUFFICES ASSUME NEW m \in Said', m.cmd \in StreamCmds
                 PROVE  /\ m.arg1 \in RemoteIds
                        /\ cl[m.arg1] # "fresh" /\ m.arg1 \notin Pending'
                        /\ cl[m.arg1] \in Active =>
                              m.arg0 = own2[m.arg1] /\ (m.cmd = "OKAY" => m.arg0 # 0)
      BY <1>1 DEF Answers
    <2>a. CASE m \in Said
      <3>1. m.arg1 # r
        BY <1>1, <2>a DEF Answers
      <3> QED
        BY <1>2, <2>a, <3>1 DEF Answers
    <2>b. CASE m = a
      BY <1>1, <1>4, <2>b
    <2> QED
      BY <1>9, <2>a, <2>b
  <1>11. Knows(own2)' /\ Waiting'
    BY <1>1, <1>4 DEF Knows, Waiting
  <1>12. Told(own2)'
    <2> SUFFICES ASSUME NEW q \in RemoteIds, peer, cl[q] \in {"opening", "open"}, own2[q] # 0
                 PROVE  \/ own2[q] \in Live' /\ ~Leaving(own2[q])'
                        \/ clse(own2[q], q) \in Sent'
      BY <1>1 DEF Told
    <2>a. ~Leaving(own2[q])'
      BY DEF Leaving
    <2>b. q # r => own[q] \in Live \/ clse(own[q], q) \in Sent
      BY DEF Told
    <2> QED
      BY <1>9, <2>a, <2>b
  <1>13. Opens'
    BY <1>1, <1>2 DEF Opens
  <1>14. CnxnAlone' /\ BannerAwaited'
    BY <1>1, <1>2, <1>9 DEF CnxnAlone, BannerAwaited
  <1>15. OutputOnly' /\ Resetting'
    BY DEF OutputOnly, Rng, Resetting
  <1>16. Ahead'
    <2>a. next_local_id <= r
      BY <1>1 DEF Ahead
    <2>b. \A q \in RemoteIds : cl[q] = "fresh" => r < q
      BY <1>1 DEF Ahead
    <2>c. \A q \in RemoteIds : cl[q] = "fresh" \/ q \in Pending' => next_local_id' <= q
      BY <1>1, <1>3, <2>a, <2>b
    <2> QED
      BY <1>1, <1>2, <2>c DEF Ahead
  <1> QED
    BY <1>2, <1>5, <1>6, <1>7, <1>8, <1>9, <1>10, <1>11, <1>12, <1>13, <1>14, <1>15, <1>16

(* What every OPEN the handler acts on has in common. *)
LEMMA OpenRead ==
  ASSUME NEW own, Base, Up(own), NEW kinds, OpenAs(kinds)
  PROVE  /\ inbox # <<>> /\ Head(inbox).cmd = "OPEN" /\ inbox' = Tail(inbox) /\ pc' = "begin"
         /\ sendq = <<>> /\ UNCHANGED <<wrtes, outbox, peer>>
         /\ Head(inbox).arg0 \in RemoteIds /\ own[Head(inbox).arg0] = 0
         /\ next_local_id <= Head(inbox).arg0
  <1>1. Head(inbox) \in Heard /\ Head(inbox).cmd = "OPEN" /\ inbox # <<>>
    BY HeadHeard DEF OpenAs, Read
  <1>2. Head(inbox).arg0 \in RemoteIds /\ Head(inbox).arg0 \in Pending
    BY <1>1 DEF Up, Turns, Opens, Pending
  <1>3. own[Head(inbox).arg0] = 0 /\ next_local_id <= Head(inbox).arg0
    BY <1>2 DEF Up, Ids, Unasked, Turns, Ahead
  <1> QED
    BY <1>1, <1>2, <1>3 DEF OpenAs, Read, At, poll

(* The id counter does not wrap while an OPEN waits: it has counted the    *)
(* OPENs before it, and those had smaller remote ids.                      *)
LEMMA NextId ==
  ASSUME NEW own, Base, Up(own), NEW kinds, OpenAs(kinds), alloc_local_id
  PROVE  /\ next_local_id' = next_local_id + 1 /\ wrapped' = wrapped
         /\ next_local_id \in LocalIds \ {0}
         /\ next_local_id \notin Live
         /\ \A r \in RemoteIds : own[r] # next_local_id
  <1>1. next_local_id <= Head(inbox).arg0 /\ Head(inbox).arg0 + 1 < IdSpace
    BY OpenRead DEF Base, SmallIds
  <1>2. next_local_id \in LocalIds /\ wrapped \in BOOLEAN /\ next_local_id > 0 /\ ~wrapped
    BY DEF Base, IInv, TypeOK, TablesOK, ControlOK, CounterStarted, Up, Turns, Ahead
  <1>3. next_local_id \in Nat /\ Head(inbox).arg0 \in Nat /\ IdSpace \in Nat
    BY <1>2, OpenRead, RemoteIdsAssumption, IdSpaceAssumption DEF LocalIds
  <1>4. next_local_id + 1 \in Nat /\ next_local_id + 1 < IdSpace
    BY <1>1, <1>3
  <1>5. alloc_next(next_local_id) = next_local_id + 1
    BY <1>3, <1>4 DEF alloc_next
  <1>6. next_local_id' = next_local_id + 1 /\ wrapped' = wrapped
    BY <1>2, <1>3, <1>5 DEF alloc_local_id
  <1>7. next_local_id \notin Live
    BY <1>2, <1>3 DEF Base, IInv, IdsFresh
  <1>8. \A r \in RemoteIds : own[r] # next_local_id
    <2>a. \A r \in RemoteIds : own[r] < next_local_id
      BY DEF Up, Ids, Given
    <2>b. ~(next_local_id < next_local_id)
      BY <1>3
    <2> QED
      BY <2>a, <2>b
  <1> QED
    BY <1>2, <1>3, <1>6, <1>7, <1>8

(* The stream whose OPEN is accepted gets the next id. *)
LEMMA OpenAccepted ==
  ASSUME NEW own, Base, Up(own), NEW kinds, OpenAs(kinds), alloc_local_id, UNCHANGED client,
         NEW n, n = next_local_id,
         sendq' = <<okay(n, Head(inbox).arg0)>>,
         Live' = Live \cup {n},
         RemoteOf(n)' = Head(inbox).arg0,
         \A l \in Live : RemoteOf(l)' = RemoteOf(l)
  PROVE  \E own2 : Up(own2)'
  <1>0. PICK r : r = Head(inbox).arg0
    OBVIOUS
  <1> DEFINE own2 == [own EXCEPT ![r] = n]
             a == okay(n, r)
  <1>1. /\ r \in RemoteIds /\ own[r] = 0 /\ own \in [RemoteIds -> LocalIds]
        /\ next_local_id' = n + 1 /\ wrapped' = wrapped
        /\ n \in LocalIds \ {0}
        /\ inbox # <<>> /\ Head(inbox).cmd = "OPEN" /\ inbox' = Tail(inbox) /\ pc' = "begin"
        /\ sendq = <<>> /\ UNCHANGED <<wrtes, outbox, peer>>
    BY <1>0, OpenRead, NextId DEF Up, Ids, Given
  <1>2. /\ own2 \in [RemoteIds -> LocalIds] /\ own2[r] = n
        /\ \A q \in RemoteIds : q # r => own2[q] = own[q]
    BY <1>1
  <1>3. a.arg1 = r /\ a.arg0 = own2[r] /\ a.cmd = "OKAY"
    BY <1>2 DEF okay
  <1>4. \A l \in Live : l # 0 /\ RemoteOf(l) # r
    BY <1>1 DEF Up, Ids, Tables, Turns, Ahead, Base, IInv, IdsFresh
  <1>5. Tables(own2)'
    <2> SUFFICES ASSUME NEW l \in Live'
                 PROVE  RemoteOf(l)' \in RemoteIds /\ own2[RemoteOf(l)'] = l
      BY DEF Tables
    <2>a. CASE l = n
      BY <1>0, <1>1, <1>2, <2>a
    <2>b. CASE l \in Live
      BY <1>2, <1>4, <2>b DEF Up, Ids, Tables
    <2> QED
      BY <1>0, <2>a, <2>b
  <1> HIDE DEF own2, a
  <1>6. Up(own2)'
    <2>a. sendq' = <<a>> /\ a.cmd \in {"OKAY", "CLSE"} /\ own2[r] # 0
      BY <1>0, <1>1, <1>2, <1>3 DEF a
    <2>b. own2[r] = next_local_id /\ next_local_id' = next_local_id + 1
      BY <1>0, <1>1, <1>2
    <2>c. Live \subseteq Live' /\ own2[r] \in Live'
      BY <2>b
    <2> QED
      BY <1>0, <1>1, <1>2, <1>3, <1>5, <2>a, <2>b, <2>c, OpenUp
  <1> QED
    BY <1>6

(* An OPEN that is refused leaves every id as it was. *)
LEMMA OpenRefused ==
  ASSUME NEW own, Base, Up(own), NEW kinds, OpenAs(kinds), UNCHANGED client,
         sendq' = <<clse(0, Head(inbox).arg0)>>,
         UNCHANGED <<sessions, sync_sessions, wrapped>>,
         next_local_id' \in {next_local_id, next_local_id + 1}
  PROVE  Up(own)'
  <1>0. PICK r : r = Head(inbox).arg0
    OBVIOUS
  <1> DEFINE a == clse(0, r)
  <1>1. /\ r \in RemoteIds /\ own[r] = 0 /\ own \in [RemoteIds -> LocalIds]
        /\ inbox # <<>> /\ Head(inbox).cmd = "OPEN" /\ inbox' = Tail(inbox) /\ pc' = "begin"
        /\ sendq = <<>> /\ UNCHANGED <<wrtes, outbox, peer>>
    BY <1>0, OpenRead DEF Up, Ids, Given
  <1>2. a.arg1 = r /\ a.arg0 = own[r] /\ a.cmd = "CLSE" /\ sendq' = <<a>>
    BY <1>0, <1>1 DEF clse
  <1>3. Tables(own)' /\ Live' = Live
    BY DEF Up, Ids, Tables, Live, RemoteOf, active_ids
  <1> HIDE DEF a
  <1> QED
    BY <1>0, <1>1, <1>2, <1>3, OpenUp

(* Opening a stream of either kind, or refusing to. *)
LEMMA OpensUp ==
  ASSUME NEW own, Base, Up(own), OpenShell \/ OpenShellFails \/ OpenSync \/ OpenOther,
         UNCHANGED client
  PROVE  \E own2 : Up(own2)'
  <1>1. CASE OpenShell
    <2>pick. PICK n : n = next_local_id
      OBVIOUS
    <2>a. OpenAs({"ShellV1", "ShellV2"}) /\ alloc_local_id
      BY <1>1 DEF OpenShell
    <2>b. n \notin Live
      BY <2>pick, <2>a, NextId
    <2>c. /\ sync_sessions' = sync_sessions /\ DOMAIN sessions' = DOMAIN sessions \cup {n}
          /\ sessions'[n].remote = Head(inbox).arg0
          /\ \A l \in DOMAIN sessions : sessions'[l] = sessions[l]
          /\ sendq' = <<okay(n, Head(inbox).arg0)>>
      BY <1>1, <2>pick, <2>b DEF OpenShell, insert, Live, active_ids
    <2>d. /\ Live' = Live \cup {n} /\ RemoteOf(n)' = Head(inbox).arg0
          /\ \A l \in Live : RemoteOf(l)' = RemoteOf(l)
      BY <2>b, <2>c DEF Live, active_ids, RemoteOf
    <2> QED
      BY <2>pick, <2>a, <2>c, <2>d, OpenAccepted
  <1>2. CASE OpenSync
    <2>pick. PICK n : n = next_local_id
      OBVIOUS
    <2>a. OpenAs({"Sync"}) /\ alloc_local_id
      BY <1>2 DEF OpenSync
    <2>b. n \notin Live
      BY <2>pick, <2>a, NextId
    <2>c. /\ sessions' = sessions /\ DOMAIN sync_sessions' = DOMAIN sync_sessions \cup {n}
          /\ sync_sessions'[n] = Head(inbox).arg0
          /\ \A l \in DOMAIN sync_sessions : sync_sessions'[l] = sync_sessions[l]
          /\ sendq' = <<okay(n, Head(inbox).arg0)>>
      BY <1>2, <2>pick, <2>b DEF OpenSync, insert, Live
    <2>d. /\ Live' = Live \cup {n} /\ RemoteOf(n)' = Head(inbox).arg0
          /\ \A l \in Live : RemoteOf(l)' = RemoteOf(l)
      BY <2>b, <2>c DEF Live, active_ids, RemoteOf
    <2> QED
      BY <2>pick, <2>a, <2>c, <2>d, OpenAccepted
  <1>3. CASE OpenShellFails
    <2>a. OpenAs({"ShellV1", "ShellV2"}) /\ alloc_local_id
      BY <1>3 DEF OpenShellFails
    <2>b. next_local_id' = next_local_id + 1 /\ wrapped' = wrapped
      BY <2>a, NextId
    <2> QED
      BY <1>3, <2>a, <2>b, OpenRefused DEF OpenShellFails
  <1>4. CASE OpenOther
    <2>a. OpenAs({"Other"}) /\ UNCHANGED <<sessions, sync_sessions, next_local_id, wrapped>>
      BY <1>4 DEF OpenOther, tables
    <2> QED
      BY <1>4, <2>a, OpenRefused DEF OpenOther
  <1> QED
    BY <1>1, <1>2, <1>3, <1>4

(* A CNXN is the last thing the client has said, and it awaits its banner. *)
LEMMA HandleCnxnUp ==
  ASSUME NEW own, Base, Up(own), HandleCnxn, UNCHANGED client
  PROVE  Up(own)'
  <1> USE DEF Up, Ids, Words, Turns
  <1>0. /\ inbox # <<>> /\ inbox' = Tail(inbox) /\ Head(inbox).cmd = "CNXN" /\ sendq = <<>>
        /\ sendq' = <<cnxn>> /\ pc' = "cnxn"
        /\ UNCHANGED <<outbox, wrtes, peer, sessions, sync_sessions, next_local_id, wrapped>>
        /\ cl' = cl /\ loc' = loc /\ link' = link
    BY DEF HandleCnxn, Read, At, poll, client, tables
  <1>1. inbox' = <<>> /\ Heard' = {} /\ Pending' = {}
    <2>a. Len(inbox) = 1
      BY <1>0, HeadHeard DEF CnxnLast
    <2>b. inbox' = <<>>
      BY <1>0, <2>a, HeadHeard
    <2> QED
      BY <2>b, RngEmpty DEF Heard, Pending
  <1>2. link = "waiting" /\ \A m \in Sent : m.cmd # "CNXN"
    BY <1>0, HeadHeard DEF CnxnAlone
  <1>3. \A r \in RemoteIds : cl[r] \notin Active
    BY <1>2 DEF Waiting
  <1>4. cnxn.cmd = "CNXN" /\ Sent' = Sent \cup {cnxn} /\ Said' = Said \cup {cnxn}
        /\ Rng(sendq') = {cnxn} /\ Len(sendq') = 1
    BY <1>0, OneMessage, RngOne DEF cnxn
  <1>5. Ids(own)'
    BY <1>0, <1>1 DEF Given, Unasked, Tables, Live, RemoteOf, active_ids
  <1>6. Words(own)'
    <2>a. Answers(own)'
      BY <1>0, <1>1, <1>4 DEF Answers, StreamCmds
    <2> QED
      BY <1>0, <1>1, <2>a DEF Asks, Handles, Knows
  <1>7. Told(own)'
    BY <1>0, <1>3 DEF Told, Active
  <1>8. OneBanner'
    <2>a. \A n \in Rng(outbox') : n.cmd # "CNXN"
      BY <1>0, <1>2 DEF Sent, Rng
    <2> QED
      BY <1>0, <1>4, <2>a DEF OneBanner, Rng
  <1>9. Opens' /\ CnxnLast' /\ CnxnAlone' /\ BannerAwaited' /\ OutputOnly'
    BY <1>0, <1>1, <1>2 DEF Opens, CnxnLast, CnxnAlone, BannerAwaited, OutputOnly, Rng
  <1>10. Waiting' /\ Resetting' /\ Rising' /\ Ahead'
    BY <1>0, <1>1, <1>3 DEF Waiting, Resetting, Rising, Ahead
  <1> QED
    BY <1>5, <1>6, <1>7, <1>8, <1>9, <1>10

(* With the tables cleared no stream has an id; none the client still has  *)
(* a use for had one before.                                               *)
LEMMA FinishCnxnUp ==
  ASSUME NEW own, Base, Up(own), FinishCnxn, UNCHANGED client
  PROVE  \E own2 : Up(own2)'
  <1> DEFINE own2 == [r \in RemoteIds |-> 0]
  <1> USE DEF Up, Ids, Words, Turns
  <1>0. /\ pc = "cnxn" /\ pc' = "begin" /\ next_local_id' = 1 /\ wrapped' = FALSE /\ Live' = {}
        /\ UNCHANGED <<inbox, outbox, sendq, wrtes, peer>>
        /\ cl' = cl /\ loc' = loc /\ link' = link
    BY DEF FinishCnxn, At, poll, client, clear, Live, active_ids, EmptyMap
  <1>1. Heard' = Heard /\ Pending' = Pending /\ Sent' = Sent /\ Said' = Said
    BY <1>0 DEF Heard, Pending, Sent, Said, Rng
  <1>2. /\ \A m \in Heard : m.cmd \in {"OPEN", "CNXN"}
        /\ \A r \in RemoteIds : cl[r] \in Active => cl[r] = "opening" /\ r \in Pending
    BY <1>0 DEF Resetting
  <1>3. own2 \in [RemoteIds -> LocalIds] /\ \A r \in RemoteIds : own2[r] = 0
    BY ZeroOne
  <1> HIDE DEF own2
  <1>4. Ids(own2)'
    BY <1>0, <1>3 DEF Given, Unasked, Tables
  <1>5. Words(own2)'
    <2>a. Answers(own2)'
      <3>1. \A m \in Said : m.cmd \in StreamCmds => m.arg1 \in RemoteIds /\ cl[m.arg1] \notin Active
        BY <1>2 DEF Answers
      <3> QED
        BY <1>0, <1>1, <3>1 DEF Answers
    <2>b. Asks(own2)'
      BY <1>1, <1>2 DEF Asks, StreamCmds
    <2>c. Knows(own2)'
      BY <1>0, <1>2 DEF Knows, Active
    <2> QED
      BY <1>0, <2>a, <2>b, <2>c DEF Handles
  <1>6. Told(own2)'
    BY <1>3 DEF Told
  <1>7. Opens' /\ CnxnLast' /\ CnxnAlone' /\ BannerAwaited' /\ OneBanner' /\ OutputOnly'
    BY <1>0, <1>1 DEF Opens, CnxnLast, CnxnAlone, BannerAwaited, OneBanner, OutputOnly, Rng
  <1>8. Waiting' /\ Resetting' /\ Rising'
    BY <1>0, <1>1 DEF Waiting, Resetting, Rising
  <1>9. Ahead'
    <2>a. \A r \in RemoteIds : 1 <= r
      BY RemoteIdsAssumption, StreamIdsAssumption
    <2> QED
      BY <1>0, <1>1, <2>a DEF Ahead
  <1> QED
    BY <1>4, <1>5, <1>6, <1>7, <1>8, <1>9

--------------------------------
(* What the handler does after a WRTE. *)

(* The chunks of a sync answer carry the ids of the WRTE they answer.      *)
LEMMA ChunksFit ==
  ASSUME NEW own, NEW m, Aimed(own, m), NEW n \in Nat
  PROVE  \A x \in Rng([i \in 1 .. n |-> wrte(m.arg1, m.arg0, "sync")]) :
            x.cmd = "WRTE" /\ Fits(own, x)
  BY DEF Rng, wrte, Aimed, Fits

(* The answer of a sync session, with the CLSE after a QUIT.               *)
LEMMA AnswerSyncUp ==
  ASSUME NEW own, Base, Up(own), ApplySync \/ ApplySyncQuit, UNCHANGED client
  PROVE  Up(own)'
  <1> USE DEF Up, Ids, Words, Turns
  <1>0. /\ pc = "wrte" /\ sendq = <<>> /\ UNCHANGED <<tables, inbox, outbox, wrtes, peer>>
        /\ UNCHANGED <<next_local_id, wrapped>> /\ pc' \in {"begin", "unsync"}
        /\ pc' = "unsync" => msg' = msg
        /\ msg \in PeerMsg
    BY DEF ApplySync, ApplySyncQuit, AnswerSync, At, poll, tables, Base, IInv, TypeOK, ControlOK
  <1>1. Aimed(own, msg) /\ Handles(own)'
    BY <1>0 DEF Handles, Aimed
  <1>2. PICK n, last :
           /\ n \in Nat
           /\ sendq' = [i \in 1 .. n |-> wrte(msg.arg1, msg.arg0, "sync")] \o last
           /\ last \in {<<>>, <<clse(msg.arg1, msg.arg0)>>}
           /\ pc' = "unsync" => last = <<clse(msg.arg1, msg.arg0)>>
    <2>a. CASE ApplySync
      <3>1. PICK n \in 0 .. MaxChunks :
                sendq' = [i \in 1 .. n |-> wrte(msg.arg1, msg.arg0, "sync")] \o <<>>
        BY <2>a DEF ApplySync, AnswerSync
      <3>2. n \in Nat /\ pc' = "begin"
        BY <2>a, MaxChunksAssumption DEF ApplySync
      <3>3. PICK l : l = <<>>
        OBVIOUS
      <3>4. sendq' = [i \in 1 .. n |-> wrte(msg.arg1, msg.arg0, "sync")] \o l
        BY <3>1, <3>3
      <3> QED
        BY <3>2, <3>3, <3>4
    <2>b. CASE ApplySyncQuit
      <3>1. PICK n \in 0 .. MaxChunks :
                sendq' = [i \in 1 .. n |-> wrte(msg.arg1, msg.arg0, "sync")]
                            \o <<clse(msg.arg1, msg.arg0)>>
        BY <2>b DEF ApplySyncQuit, AnswerSync
      <3>2. n \in Nat
        BY MaxChunksAssumption
      <3>3. PICK l : l = <<clse(msg.arg1, msg.arg0)>>
        OBVIOUS
      <3>4. sendq' = [i \in 1 .. n |-> wrte(msg.arg1, msg.arg0, "sync")] \o l
        BY <3>1, <3>3
      <3> QED
        BY <3>2, <3>3, <3>4
    <2> QED
      BY <2>a, <2>b
  <1> DEFINE q == [i \in 1 .. n |-> wrte(msg.arg1, msg.arg0, "sync")]
             a == clse(msg.arg1, msg.arg0)
  <1>3. /\ q \in Seq(DaemonMsg) /\ last \in Seq(DaemonMsg)
        /\ Rng(sendq') = Rng(q) \cup Rng(last) /\ Rng(last) \subseteq {a}
        /\ pc' = "unsync" => a \in Rng(last)
    <2>a. msg.arg1 \in LocalIds /\ msg.arg0 \in RemoteIds \cup {0}
      BY <1>0 DEF PeerMsg
    <2>b. wrte(msg.arg1, msg.arg0, "sync") \in DaemonMsg /\ a \in DaemonMsg
      BY <2>a, WrteType, AnswerType DEF Payloads
    <2>c. q \in Seq(DaemonMsg)
      BY <1>2, <2>b
    <2>d. last \in Seq(DaemonMsg)
      <3>1. <<>> \in Seq(DaemonMsg) /\ <<a>> \in Seq(DaemonMsg)
        BY <2>b
      <3> QED
        BY <1>2, <3>1
    <2>e. Rng(sendq') = Rng(q) \cup Rng(last)
      <3> HIDE DEF q
      <3>1. Rng(q \o last) = Rng(q) \cup Rng(last)
        BY <2>c, <2>d, RngConcat
      <3>2. sendq' = q \o last
        BY <1>2 DEF q
      <3>3. Rng(sendq') = Rng(q \o last)
        BY <3>2
      <3> QED
        BY <3>1, <3>3
    <2>f. Rng(<<a>>) = {a} /\ Rng(<<>>) = {}
      BY RngOne, RngEmpty
    <2> QED
      BY <1>2, <2>c, <2>d, <2>e, <2>f
  <1>4. \A x \in Rng(sendq') : x.cmd \in {"WRTE", "CLSE"} /\ Fits(own, x)
    <2>a. \A x \in Rng(q) : x.cmd = "WRTE" /\ Fits(own, x)
      BY <1>1, <1>2, ChunksFit
    <2>b. a.cmd = "CLSE" /\ Fits(own, a)
      BY <1>1 DEF Aimed, Fits, clse
    <2> QED
      BY <1>3, <2>a, <2>b
  <1> HIDE DEF q
  <1>5. Rng(sendq) = {} /\ Sent' = Sent \cup Rng(sendq') /\ Said' = Said \cup Rng(sendq')
    BY <1>0, RngEmpty DEF Sent, Said, Rng
  <1>6. \A x \in Said' : x \in Said \/ (x.cmd \in StreamCmds /\ Fits(own, x))
    BY <1>4, <1>5 DEF StreamCmds
  <1>7. OneBanner' /\ OutputOnly'
    BY <1>0, <1>4 DEF OneBanner, OutputOnly, Rng
  <1>8. Live' = Live /\ \A l \in Live' : RemoteOf(l)' = RemoteOf(l)
    BY <1>0 DEF tables, Live, active_ids, RemoteOf
  <1>9. Told(own)'
    <2>a. ASSUME NEW r \in RemoteIds, own[r] # 0, Leaving(own[r])'
          PROVE  clse(own[r], r) \in Sent'
      <3>1. pc' = "unsync" /\ msg' = msg /\ own[r] = msg.arg1
        BY <1>0, <2>a DEF Leaving
      <3>2. r = msg.arg0
        BY <1>1, <2>a, <3>1 DEF Given, Aimed
      <3> QED
        BY <1>3, <1>5, <3>1, <3>2
    <2> QED
      BY <1>0, <1>5, <1>8, <2>a, ToldKept
  <1> HIDE DEF a
  <1> QED
    BY <1>0, <1>1, <1>6, <1>7, <1>8, <1>9, StepUp

(* The sync session whose CLSE has gone out is removed. *)
LEMMA FinishSyncQuitUp ==
  ASSUME NEW own, Base, Up(own), FinishSyncQuit, UNCHANGED client
  PROVE  Up(own)'
  <1>0. /\ pc = "unsync" /\ pc' = "begin" /\ sessions' = sessions
        /\ UNCHANGED <<next_local_id, wrapped, inbox, outbox, sendq, wrtes, peer>>
        /\ DOMAIN sync_sessions' = DOMAIN sync_sessions \ {msg.arg1}
        /\ \A l \in DOMAIN sync_sessions' : sync_sessions'[l] = sync_sessions[l]
    BY DEF FinishSyncQuit, At, poll, remove
  <1>1. /\ Live' \subseteq Live /\ \A l \in Live : l # msg.arg1 => l \in Live'
        /\ \A l \in Live' : RemoteOf(l)' = RemoteOf(l)
    BY <1>0 DEF Live, active_ids, RemoteOf
  <1>2. Sent' = Sent /\ Said' = Said
    BY <1>0 DEF Sent, Said, Rng
  <1>3. Told(own)'
    <2>a. \A l \in Live : ~Leaving(l) => l \in Live' /\ ~Leaving(l)'
      BY <1>0, <1>1 DEF Leaving
    <2> QED
      BY <1>0, <1>2, <2>a, ToldKept DEF Up
  <1>4. Handles(own)' /\ OneBanner' /\ OutputOnly'
    BY <1>0 DEF Handles, Up, Turns, OneBanner, OutputOnly, Rng
  <1> QED
    BY <1>0, <1>1, <1>2, <1>3, <1>4, StepUp

--------------------------------
(* The poll. *)

(* A step of the poll keeps all sessions and queues output of one of them. *)
LEMMA PushUp ==
  ASSUME NEW own, Base, Up(own), UNCHANGED client,
         UNCHANGED <<tables, inbox, outbox, sendq, peer>>,
         pc \in {"poll", "stderr"}, pc' \in {"stderr", "wait"},
         NEW id \in active_ids, NEW n, NEW p \in Payloads, Push(id, n, p)
  PROVE  Up(own)'
  <1> DEFINE a == wrte(id, sessions[id].remote, p)
  <1>1. /\ id \in Live /\ RemoteOf(id) = sessions[id].remote /\ id # 0
        /\ RemoteOf(id) \in RemoteIds /\ own[RemoteOf(id)] = id
    BY DEF Live, RemoteOf, Up, Ids, Tables, Turns, Ahead, Base, IInv, IdsFresh
  <1>2. a.cmd = "WRTE" /\ Fits(own, a)
    BY <1>1 DEF wrte, Fits
  <1>3. Rng(wrtes') \subseteq Rng(wrtes) \cup {a}
    <2>a. wrtes \in Seq(DaemonMsg)
      BY DEF Base, IInv, TypeOK, QueuesOK
    <2>b. a \in DaemonMsg
      BY WrteType DEF Base, IInv, TypeOK, TablesOK, Session
    <2> QED
      BY <2>a, <2>b, RngAppend DEF Push
  <1> HIDE DEF a
  <1>4. Sent' = Sent /\ Said' \subseteq Said \cup {a}
    BY <1>3 DEF Sent, Said, Rng
  <1>5. UNCHANGED <<next_local_id, wrapped>> /\ Live' = Live
        /\ \A l \in Live' : RemoteOf(l)' = RemoteOf(l)
    BY DEF tables, Live, active_ids, RemoteOf
  <1>6. Told(own)'
    <2>a. \A l : ~Leaving(l)'
      BY DEF Leaving
    <2> QED
      BY <1>4, <1>5, <2>a, ToldKept DEF Up
  <1>7. Handles(own)' /\ OneBanner' /\ OutputOnly'
    BY <1>2, <1>3 DEF Handles, Up, Turns, OneBanner, OutputOnly, Rng
  <1>8. \A x \in Said' : x \in Said \/ (x.cmd \in StreamCmds /\ Fits(own, x))
    BY <1>2, <1>4 DEF StreamCmds
  <1> QED
    BY <1>5, <1>6, <1>7, <1>8, StepUp

(* Reading stdout and stderr of the session being polled.                  *)
LEMMA PollReadsUp ==
  ASSUME NEW own, Base, Up(own), (\E id \in LocalIds : PollStdout(id)) \/ PollStderr,
         UNCHANGED client
  PROVE  Up(own)'
  <1>1. ASSUME NEW id \in LocalIds, PollStdout(id)
        PROVE  Up(own)'
    <2>a. id \in active_ids
      BY <1>1 DEF PollStdout, Base, IInv, PollSnapshotLive
    <2>b. PICK p : p = IF sessions[id].v2 THEN "stdout" ELSE "raw"
      OBVIOUS
    <2>c. PICK n : Push(id, n, p)
      BY <1>1, <2>b DEF PollStdout
    <2>d. p \in Payloads
      BY <2>b DEF Payloads
    <2> QED
      BY <1>1, <2>a, <2>c, <2>d, PushUp DEF PollStdout, At, poll
  <1>2. CASE PollStderr
    <2>a. cur \in active_ids
      BY <1>2 DEF PollStderr, At, Polling, Base, IInv, PollSnapshotLive
    <2>b. PICK id : id = cur
      OBVIOUS
    <2>c. PICK n : Push(id, n, "stderr")
      BY <1>2, <2>b DEF PollStderr
    <2>d. "stderr" \in Payloads
      BY DEF Payloads
    <2> QED
      BY <1>2, <2>a, <2>b, <2>c, <2>d, PushUp DEF PollStderr, At, poll
  <1> QED
    BY <1>1, <1>2

(* A shell that lives on: what was read of it is sent.                     *)
LEMMA PollAliveUp ==
  ASSUME NEW own, Base, Up(own), PollAlive, UNCHANGED client
  PROVE  Up(own)'
  <1>0. /\ pc' = "poll" /\ sendq = <<>> /\ sendq' = wrtes /\ wrtes' = <<>>
        /\ UNCHANGED <<tables, inbox, outbox, peer, next_local_id, wrapped>>
    BY DEF PollAlive, At, tables
  <1>1. Rng(sendq) = {} /\ Rng(wrtes') = {} /\ Rng(sendq') = Rng(wrtes)
    BY <1>0, RngEmpty
  <1>2. Sent \subseteq Sent' /\ Said' = Said
    BY <1>0, <1>1 DEF Sent, Said, Rng
  <1>3. Live' = Live /\ \A l \in Live' : RemoteOf(l)' = RemoteOf(l)
    BY <1>0 DEF tables, Live, active_ids, RemoteOf
  <1>4. Told(own)'
    <2>a. \A l : ~Leaving(l)'
      BY <1>0 DEF Leaving
    <2> QED
      BY <1>0, <1>2, <1>3, <2>a, ToldKept DEF Up
  <1>5. Handles(own)' /\ OneBanner' /\ OutputOnly'
    BY <1>0, <1>1 DEF Handles, Up, Turns, OneBanner, OutputOnly, Rng
  <1> QED
    BY <1>0, <1>2, <1>3, <1>4, <1>5, StepUp

(* The exit of a shell: its last output, then its CLSE; the session stays  *)
(* until that is out.                                                      *)
LEMMA PollExitedUp ==
  ASSUME NEW own, Base, Up(own), PollExited, UNCHANGED client
  PROVE  Up(own)'
  <1>0. PICK id : id = cur
    OBVIOUS
  <1>1. /\ pc' = "close" /\ sendq = <<>> /\ sendq' = Farewell(id) /\ wrtes' = <<>> /\ cur' = id
        /\ UNCHANGED <<sync_sessions, inbox, outbox, peer, next_local_id, wrapped>>
        /\ id \in active_ids
        /\ sessions' = [sessions EXCEPT ![id].finished = TRUE]
    BY <1>0 DEF PollExited, At, Polling, Base, IInv, PollSnapshotLive
  <1>2. sessions \in [active_ids -> Session]
    BY DEF Base, IInv, TypeOK, TablesOK
  <1>3. DOMAIN sessions' = DOMAIN sessions
        /\ \A l \in DOMAIN sessions : sessions'[l].remote = sessions[l].remote
    BY <1>1, <1>2 DEF Session, active_ids
  <1>4. Live' = Live /\ \A l \in Live' : RemoteOf(l)' = RemoteOf(l)
    BY <1>1, <1>3 DEF Live, active_ids, RemoteOf
  <1> DEFINE r == sessions[id].remote
             a == clse(id, r)
             x == wrte(id, r, "exit")
  <1>5. r \in RemoteIds /\ own[r] = id /\ id # 0 /\ id \in LocalIds
    BY <1>1 DEF Live, RemoteOf, Up, Ids, Tables, Turns, Ahead, Base, IInv, IdsFresh, TypeOK, TablesOK
  <1>6. a.cmd = "CLSE" /\ Fits(own, a) /\ x.cmd = "WRTE" /\ Fits(own, x)
    BY <1>5 DEF clse, wrte, Fits
  <1>7. a \in Rng(sendq') /\ Rng(wrtes) \subseteq Rng(sendq')
        /\ Rng(sendq') \subseteq Rng(wrtes) \cup {x, a}
    <2>a. wrtes \in Seq(DaemonMsg) /\ ExitFrame(id) \in Seq(DaemonMsg) /\ a \in DaemonMsg
      <3>1. x \in DaemonMsg /\ a \in DaemonMsg
        BY <1>5, WrteType, AnswerType DEF Payloads
      <3> QED
        BY <3>1 DEF ExitFrame, Base, IInv, TypeOK, QueuesOK
    <2>b. Rng(ExitFrame(id)) \subseteq {x}
      <3>1. Rng(<<x>>) = {x} /\ Rng(<<>>) = {}
        BY RngOne, RngEmpty
      <3> QED
        BY <3>1 DEF ExitFrame
    <2>c. PICK q : q = wrtes \o ExitFrame(id)
      OBVIOUS
    <2>d. q \in Seq(DaemonMsg) /\ Rng(q) = Rng(wrtes) \cup Rng(ExitFrame(id))
      BY <2>a, <2>c, RngConcat
    <2>e. Rng(Append(q, a)) = Rng(q) \cup {a}
      BY <2>a, <2>d, RngAppend
    <2>f. sendq' = Append(q, a)
      BY <1>1, <2>c DEF Farewell
    <2> HIDE DEF a, x
    <2> QED
      BY <2>b, <2>d, <2>e, <2>f
  <1>8. \A m \in Rng(sendq') : m.cmd \in {"WRTE", "CLSE"} /\ (m \in Rng(wrtes) \/ Fits(own, m))
    BY <1>6, <1>7 DEF Up, Turns, OutputOnly
  <1>9. Rng(sendq) = {} /\ Rng(wrtes') = {}
    BY <1>1, RngEmpty
  <1>10. Sent \subseteq Sent' /\ a \in Sent' /\ Said' \subseteq Said \cup Rng(sendq')
    BY <1>1, <1>7, <1>9 DEF Sent, Said, Rng
  <1> HIDE DEF x
  <1>11. \A m \in Said' : m \in Said \/ (m.cmd \in StreamCmds /\ Fits(own, m))
    BY <1>8, <1>10 DEF StreamCmds, Said
  <1>12. Told(own)'
    <2>a. ASSUME NEW q \in RemoteIds, own[q] # 0, Leaving(own[q])'
          PROVE  clse(own[q], q) \in Sent'
      <3>1. own[q] = id
        BY <1>1, <2>a DEF Leaving
      <3>2. q = r
        BY <1>5, <2>a, <3>1 DEF Up, Ids, Given
      <3> QED
        BY <1>10, <3>1, <3>2
    <2> QED
      BY <1>1, <1>4, <1>10, <2>a, ToldKept DEF Up
  <1>13. Handles(own)' /\ OneBanner' /\ OutputOnly'
    BY <1>1, <1>8, <1>9 DEF Handles, Up, Turns, OneBanner, OutputOnly, Rng
  <1> HIDE DEF a, r
  <1> QED
    BY <1>1, <1>4, <1>11, <1>12, <1>13, StepUp

(* The session is dropped once its CLSE is out.                            *)
LEMMA PollCloseUp ==
  ASSUME NEW own, Base, Up(own), PollClose, UNCHANGED client
  PROVE  Up(own)'
  <1>0. PICK id : id = cur
    OBVIOUS
  <1>1. /\ pc = "close" /\ pc' = "poll" /\ id \in active_ids /\ sync_sessions' = sync_sessions
        /\ UNCHANGED <<next_local_id, wrapped, inbox, outbox, sendq, wrtes, peer>>
        /\ DOMAIN sessions' = DOMAIN sessions \ {id}
        /\ \A l \in DOMAIN sessions' : sessions'[l] = sessions[l]
    BY <1>0 DEF PollClose, At, Forget, remove, Polling, Base, IInv, PollSnapshotLive
  <1>2. active_ids \cap DOMAIN sync_sessions = {}
    BY DEF Up, Turns, Ahead, Base, IInv, IdsFresh
  <1>3. /\ Live' \subseteq Live /\ \A l \in Live : l # id => l \in Live'
        /\ \A l \in Live' : RemoteOf(l)' = RemoteOf(l)
    BY <1>1, <1>2 DEF Live, active_ids, RemoteOf
  <1>4. Sent' = Sent /\ Said' = Said
    BY <1>1 DEF Sent, Said, Rng
  <1>5. Told(own)'
    <2>a. \A l \in Live : ~Leaving(l) => l \in Live' /\ ~Leaving(l)'
      BY <1>0, <1>1, <1>3 DEF Leaving
    <2> QED
      BY <1>1, <1>4, <2>a, ToldKept DEF Up
  <1>6. Handles(own)' /\ OneBanner' /\ OutputOnly'
    BY <1>1 DEF Handles, Up, Turns, OneBanner, OutputOnly, Rng
  <1> QED
    BY <1>1, <1>3, <1>4, <1>5, <1>6, StepUp

--------------------------------
(* Sending. *)

(* A message moves on to the wire, or is lost with a peer that has gone.   *)
LEMMA SendUp ==
  ASSUME NEW own, Base, Up(own), Send, UNCHANGED client
  PROVE  Up(own)'
  <1> DEFINE m == Head(sendq)
  <1>1. /\ sendq # <<>> /\ sendq' = Tail(sendq)
        /\ outbox' = IF peer THEN Append(outbox, m) ELSE outbox
        /\ UNCHANGED <<tables, pc, msg, cur, inbox, wrtes, peer, next_local_id, wrapped>>
        /\ sendq \in Seq(DaemonMsg) /\ outbox \in Seq(DaemonMsg) /\ m \in DaemonMsg
    BY DEF Send, tables, poll, Base, IInv, TypeOK, QueuesOK
  <1>2. /\ Rng(sendq) = {m} \cup Rng(sendq') /\ m \in Rng(sendq)
        /\ Rng(outbox') = IF peer THEN Rng(outbox) \cup {m} ELSE Rng(outbox)
    <2>a. Rng(sendq) = {m} \cup Rng(Tail(sendq))
      BY <1>1, RngTail
    <2>b. Rng(Append(outbox, m)) = Rng(outbox) \cup {m}
      BY <1>1, RngAppend
    <2> QED
      BY <1>1, <2>a, <2>b
  <1>3. Sent' \subseteq Sent /\ Said' \subseteq Said /\ (peer => Sent \subseteq Sent')
    BY <1>1, <1>2 DEF Sent, Said, Rng
  <1>4. OneBanner'
    <2>a. OneBanner
      BY DEF Up, Turns
    <2>b. \A x \in Rng(sendq') : x.cmd # "CNXN"
      <3> SUFFICES ASSUME NEW x \in Rng(sendq'), x.cmd = "CNXN" PROVE FALSE
        OBVIOUS
      <3>1. Len(sendq) = 1
        BY <1>2, <2>a DEF OneBanner
      <3>2. sendq' = <<>>
        BY <1>1, <3>1
      <3> QED
        BY <3>2, RngEmpty
    <2>c. CASE peer /\ m.cmd = "CNXN"
      <3>1. \A n \in Rng(outbox) : n.cmd # "CNXN"
        BY <1>2, <2>a, <2>c DEF OneBanner
      <3>2. /\ Len(outbox') = Len(outbox) + 1 /\ Len(outbox) \in Nat
            /\ \A i \in 1 .. Len(outbox) : outbox'[i] = outbox[i] /\ outbox'[i] \in Rng(outbox)
        BY <1>1, <2>c DEF Rng
      <3>3. \A i \in 1 .. Len(outbox') : outbox'[i].cmd = "CNXN" => i = Len(outbox) + 1
        BY <3>1, <3>2
      <3> QED
        BY <2>b, <3>3 DEF OneBanner
    <2>d. CASE peer /\ m.cmd # "CNXN"
      <3>1. /\ Len(outbox') = Len(outbox) + 1 /\ Len(outbox) \in Nat /\ outbox'[Len(outbox) + 1] = m
            /\ \A i \in 1 .. Len(outbox) : outbox'[i] = outbox[i]
        BY <1>1, <2>d
      <3>2. \A i \in 1 .. Len(outbox') : outbox'[i].cmd = "CNXN" =>
                i \in 1 .. Len(outbox) /\ outbox[i].cmd = "CNXN"
        BY <2>d, <3>1
      <3> QED
        BY <2>a, <2>b, <3>2 DEF OneBanner
    <2>e. CASE ~peer
      BY <1>1, <2>a, <2>b, <2>e DEF OneBanner
    <2> QED
      BY <2>c, <2>d, <2>e
  <1>5. Live' = Live /\ \A l \in Live' : RemoteOf(l)' = RemoteOf(l)
    BY <1>1 DEF tables, Live, active_ids, RemoteOf
  <1>6. Told(own)'
    <2>a. \A l : Leaving(l)' = Leaving(l)
      BY <1>1 DEF Leaving
    <2> QED
      BY <1>1, <1>3, <1>5, <2>a, ToldKept DEF Up
  <1>7. Handles(own)' /\ OutputOnly'
    BY <1>1 DEF Handles, Aimed, Up, Words, Turns, OutputOnly, Rng
  <1> HIDE DEF m
  <1> QED
    BY <1>1, <1>3, <1>4, <1>5, <1>6, <1>7, StepUp

(* The poll's own CLSE to a peer that has gone. *)
LEMMA SendDroppedUp ==
  ASSUME NEW own, Base, Up(own), UNCHANGED client, ~peer, sendq' = <<>>,
         UNCHANGED <<tables, pc, msg, cur, inbox, outbox, wrtes, peer>>
  PROVE  Up(own)'
  <1>1. Rng(sendq') = {}
    BY RngEmpty
  <1>2. Said' \subseteq Said
    BY <1>1 DEF Sent, Said, Rng
  <1>3. Live' = Live /\ (\A l \in Live' : RemoteOf(l)' = RemoteOf(l))
        /\ UNCHANGED <<next_local_id, wrapped>>
    BY DEF tables, Live, active_ids, RemoteOf
  <1>4. Told(own)'
    BY DEF Told
  <1>5. Handles(own)' /\ OneBanner' /\ OutputOnly'
    BY <1>1 DEF Handles, Aimed, Up, Words, Turns, OneBanner, OutputOnly, Rng
  <1> QED
    BY <1>2, <1>3, <1>4, <1>5, StepUp

--------------------------------
(* The daemon, altogether. *)

(* A send that fails ends the connection, or is the poll's own CLSE to a   *)
(* peer that has gone.                                                     *)
LEMMA SendFailsUp ==
  ASSUME NEW own, Base, Up(own), SendFails, UNCHANGED client
  PROVE  pc' = "done" \/ Up(own)'
  <1>1. CASE Return
    BY <1>1 DEF Return
  <1>2. CASE sendq' = <<>> /\ UNCHANGED <<connected, tables, kids, pc, msg, poll, inbox, outbox, peer>>
    <2>a. ~peer /\ UNCHANGED <<tables, pc, msg, cur, inbox, outbox, wrtes, peer>>
      BY <1>2 DEF SendFails, poll
    <2> QED
      BY <1>2, <2>a, SendDroppedUp
  <1> QED
    BY <1>1, <1>2 DEF SendFails

(* Every step of the daemon and its shells keeps the invariant, with other *)
(* ids perhaps, or ends the connection.                                    *)
LEMMA DaemonUp ==
  ASSUME NEW own, Base, Up(own), Daemon \/ Kids \/ Terminated, UNCHANGED client
  PROVE  pc' = "done" \/ \E own2 : Up(own2)'
  <1>1. CASE HandleCnxn
    BY <1>1, HandleCnxnUp
  <1>2. CASE OpenShell \/ OpenShellFails \/ OpenSync \/ OpenOther
    BY <1>2, OpensUp
  <1>3. CASE HandleWrte
    BY <1>3, HandleWrteUp
  <1>4. CASE HandleClse
    BY <1>4, HandleClseUp
  <1>5. CASE HandleOther
    <2>a. /\ UNCHANGED <<tables, wrtes, sendq, outbox, peer>>
          /\ inbox # <<>> /\ inbox' = Tail(inbox) /\ pc' = "begin"
      BY <1>5 DEF HandleOther, poll
    <2> QED
      BY <2>a, QuietUp
  <1>6. CASE ReadFails \/ SendFails
    <2>a. ReadFails => pc' = "done"
      BY DEF ReadFails, Return
    <2> QED
      BY <1>6, <2>a, SendFailsUp
  <1>7. CASE ReadNothing \/ ApplyShell \/ BeginPoll \/ EndPoll
    <2>a. /\ UNCHANGED <<tables, wrtes, sendq, inbox, outbox, peer>>
          /\ pc' \in {"begin", "poll", "read"}
      BY <1>7 DEF ReadNothing, ApplyShell, BeginPoll, EndPoll, poll
    <2> QED
      BY <2>a, QuietUp
  <1>8. CASE FinishCnxn
    BY <1>8, FinishCnxnUp
  <1>9. CASE ApplySync \/ ApplySyncQuit
    BY <1>9, AnswerSyncUp
  <1>10. CASE FinishSyncQuit
    BY <1>10, FinishSyncQuitUp
  <1>11. CASE (\E id \in LocalIds : PollStdout(id)) \/ PollStderr
    BY <1>11, PollReadsUp
  <1>12. CASE PollAlive
    BY <1>12, PollAliveUp
  <1>13. CASE PollExited
    BY <1>13, PollExitedUp
  <1>14. CASE PollClose
    BY <1>14, PollCloseUp
  <1>15. CASE Send
    BY <1>15, SendUp
  <1>16. CASE Kids \/ Terminated
    <2>a. UNCHANGED <<tables, wrtes, sendq, outbox, peer, pc, msg, cur, inbox>>
      BY <1>16 DEF Kids, KidWrites, KidExits, Terminated, vars, poll
    <2> QED
      BY <2>a, QuietUp
  <1> QED
    BY <1>1, <1>2, <1>3, <1>4, <1>5, <1>6, <1>7, <1>8, <1>9, <1>10, <1>11, <1>12, <1>13,
       <1>14, <1>15, <1>16 DEF Daemon, ReadMessage, Finish, PollShells

(* Whatever runs on after the handler has returned changes nothing here.   *)
LEMMA DoneStays ==
  ASSUME Base, Gone, pc = "done", [SysNext]_sysvars
  PROVE  pc' = "done" /\ Gone'
  <1>1. ~peer /\ inbox = <<>> /\ outbox = <<>>
    BY DEF Gone
  <1>2. CASE UNCHANGED vars
    BY <1>2 DEF vars, Gone
  <1>3. CASE Daemon
    BY <1>1, <1>3 DEF Daemon, ReadMessage, HandleCnxn, OpenShell, OpenShellFails, OpenSync,
       OpenOther, OpenAs, HandleWrte, HandleClse, HandleOther, ReadFails, ReadNothing, Read, At,
       Finish, FinishCnxn, ApplySync, ApplySyncQuit, AnswerSync, FinishSyncQuit, ApplyShell,
       PollShells, BeginPoll, EndPoll, PollStdout, PollStderr, PollAlive, PollExited, PollClose,
       Send, SendFails, Return, Gone
  <1>4. CASE Kids \/ Terminated
    BY <1>4 DEF Kids, KidWrites, KidExits, Terminated, vars, Gone
  <1>5. CASE ClientStep
    BY <1>1, <1>5 DEF ClientStep, ClientConnects, ClientOpens, ClientWrites, ClientAcks,
       ClientCloses, ClientReceives, ClientHangsUp, PeerSends, PeerReceives, PeerHangsUp
  <1> QED
    BY <1>2, <1>3, <1>4, <1>5 DEF SysNext, sysvars

--------------------------------
(* The client. *)

(* What a message of the client changes for the daemon: nothing yet.       *)
LEMMA SentByClient ==
  ASSUME NEW own, Base, Up(own), NEW m \in AnyMessage, PeerSends(m)
  PROVE  /\ inbox' = Append(inbox, m) /\ inbox \in Seq(PeerMsg) /\ Len(inbox) \in Nat
         /\ Len(inbox') = Len(inbox) + 1 /\ inbox'[Len(inbox) + 1] = m
         /\ \A i \in 1 .. Len(inbox) : inbox'[i] = inbox[i]
         /\ Heard' = Heard \cup {m}
         /\ UNCHANGED <<sessions, sync_sessions, next_local_id, wrapped, pc, msg, cur, wrtes,
                        sendq, outbox, peer>>
         /\ Live' = Live /\ Sent' = Sent /\ Said' = Said
         /\ OneBanner' /\ OutputOnly' /\ Tables(own)' /\ Given(own)' /\ Handles(own)'
         /\ \A l : RemoteOf(l)' = RemoteOf(l) /\ Leaving(l)' = Leaving(l)
  <1>1. inbox \in Seq(PeerMsg) /\ m \in PeerMsg
    BY AnyMessageType DEF Base, IInv, TypeOK, QueuesOK
  <1>2. inbox' = Append(inbox, m)
        /\ UNCHANGED <<sessions, sync_sessions, next_local_id, wrapped, pc, msg, cur, wrtes,
                       sendq, outbox, peer>>
    BY DEF PeerSends, tables, poll
  <1>3. Heard' = Heard \cup {m}
    <2>a. Rng(Append(inbox, m)) = Rng(inbox) \cup {m}
      BY <1>1, RngAppend
    <2> QED
      BY <1>2, <2>a DEF Heard
  <1>4. /\ Len(inbox) \in Nat /\ Len(inbox') = Len(inbox) + 1 /\ inbox'[Len(inbox) + 1] = m
        /\ \A i \in 1 .. Len(inbox) : inbox'[i] = inbox[i]
    BY <1>1, <1>2
  <1>5. Live' = Live /\ Sent' = Sent /\ Said' = Said
        /\ \A l : RemoteOf(l)' = RemoteOf(l) /\ Leaving(l)' = Leaving(l)
    BY <1>2 DEF Live, active_ids, Sent, Said, Rng, RemoteOf, Leaving
  <1>6. OneBanner' /\ OutputOnly'
    BY <1>2 DEF Up, Turns, OneBanner, OutputOnly, Rng
  <1>7. Tables(own)' /\ Given(own)' /\ Handles(own)'
    BY <1>2, <1>5 DEF Up, Ids, Words, Tables, Given, Handles, Aimed
  <1> QED
    BY <1>1, <1>2, <1>3, <1>4, <1>5, <1>6, <1>7

(* A CNXN gives up every stream the client had.                            *)
LEMMA ClientConnectsUp ==
  ASSUME NEW own, Base, Up(own), ClientConnects
  PROVE  Up(own)'
  <1> DEFINE m == PeerCnxn
  <1> USE DEF Up, Ids, Words, Turns
  <1>0. /\ link # "waiting" /\ PeerSends(m) /\ link' = "waiting" /\ loc' = loc
        /\ m \in AnyMessage /\ m.cmd = "CNXN"
    BY CnxnAllowed DEF ClientConnects, PeerCnxn
  <1>1. /\ \A r \in RemoteIds : cl'[r] = IF cl[r] = "fresh" THEN "fresh" ELSE "closed"
        /\ \A r \in RemoteIds : cl'[r] \notin Active
    BY DEF ClientConnects, Active
  <1> HIDE DEF m
  <1>2. /\ Heard' = Heard \cup {m} /\ Pending' = Pending
        /\ UNCHANGED <<next_local_id, wrapped, pc>> /\ Sent' = Sent /\ Said' = Said
        /\ OneBanner' /\ OutputOnly' /\ Tables(own)' /\ Given(own)' /\ Handles(own)'
    BY <1>0, SentByClient DEF Pending
  <1>3. /\ Len(inbox) \in Nat /\ Len(inbox') = Len(inbox) + 1 /\ inbox'[Len(inbox) + 1] = m
        /\ \A i \in 1 .. Len(inbox) : inbox'[i] = inbox[i]
    BY <1>0, SentByClient
  <1>4. (\A x \in Heard : x.cmd # "CNXN") /\ (\A x \in Sent : x.cmd # "CNXN")
    BY <1>0 DEF CnxnAlone, BannerAwaited
  <1>5. Ids(own)'
    BY <1>1, <1>2 DEF Unasked
  <1>6. Words(own)'
    <2>a. Asks(own)'
      BY <1>0, <1>2 DEF Asks, Aimed, StreamCmds
    <2>b. Answers(own)'
      BY <1>1, <1>2 DEF Answers
    <2>c. Knows(own)'
      BY <1>1 DEF Knows, Active
    <2> QED
      BY <1>2, <2>a, <2>b, <2>c
  <1>7. Told(own)'
    BY <1>1 DEF Told, Active
  <1>8. Opens'
    BY <1>0, <1>1, <1>2 DEF Opens
  <1>9. CnxnLast'
    <2>a. \A i \in 1 .. Len(inbox) : inbox'[i].cmd # "CNXN"
      BY <1>3, <1>4 DEF Heard, Rng
    <2> QED
      BY <1>3, <2>a DEF CnxnLast
  <1>10. CnxnAlone' /\ BannerAwaited'
    BY <1>0, <1>2, <1>4 DEF CnxnAlone, BannerAwaited
  <1>11. Waiting' /\ Resetting'
    BY <1>0, <1>1, <1>2 DEF Waiting, Resetting
  <1>12. Rising'
    <2> SUFFICES ASSUME NEW i \in 1 .. Len(inbox'), NEW j \in 1 .. Len(inbox'), i < j,
                        inbox'[i].cmd = "OPEN", inbox'[j].cmd = "OPEN"
                 PROVE  inbox'[i].arg0 < inbox'[j].arg0
      BY DEF Rising
    <2>a. i \in 1 .. Len(inbox) /\ j \in 1 .. Len(inbox)
      BY <1>0, <1>3
    <2> QED
      BY <1>3, <2>a DEF Rising
  <1>13. Ahead'
    BY <1>1, <1>2 DEF Ahead
  <1> QED
    BY <1>2, <1>5, <1>6, <1>7, <1>8, <1>9, <1>10, <1>11, <1>12, <1>13

(* The client opens its streams in order, so the OPEN it sends has a       *)
(* greater id than those before it.                                        *)
LEMMA ClientOpensUp ==
  ASSUME NEW own, Base, Up(own), NEW r \in RemoteIds, NEW d \in Dests, ClientOpens(r, d)
  PROVE  Up(own)'
  <1> DEFINE m == PeerOpen(r, d)
  <1> USE DEF Up, Ids, Words, Turns
  <1>0. /\ link = "up" /\ cl[r] = "fresh" /\ PeerSends(m) /\ link' = link /\ loc' = loc
        /\ m \in AnyMessage /\ m.cmd = "OPEN" /\ m.arg0 = r
        /\ \A q \in RemoteIds : q < r => cl[q] # "fresh"
    BY DEF ClientOpens, PeerOpen, AnyMessage
  <1>1. cl'[r] = "opening" /\ \A q \in RemoteIds : q # r => cl'[q] = cl[q]
    BY DEF ClientOpens, Base, ClientOK
  <1> HIDE DEF m
  <1>2. /\ Heard' = Heard \cup {m} /\ Pending' = Pending \cup {r}
        /\ UNCHANGED <<next_local_id, wrapped, pc, peer>> /\ Sent' = Sent /\ Said' = Said
        /\ OneBanner' /\ OutputOnly' /\ Tables(own)' /\ Given(own)' /\ Handles(own)'
        /\ Live' = Live /\ \A l : Leaving(l)' = Leaving(l)
    BY <1>0, SentByClient DEF Pending
  <1>3. /\ Len(inbox) \in Nat /\ Len(inbox') = Len(inbox) + 1 /\ inbox'[Len(inbox) + 1] = m
        /\ \A i \in 1 .. Len(inbox) : inbox'[i] = inbox[i]
    BY <1>0, SentByClient
  <1>4. own[r] = 0 /\ next_local_id <= r /\ \A q \in Pending : q < r
    BY <1>0 DEF Unasked, Ahead
  <1>5. Ids(own)'
    BY <1>1, <1>2, <1>4 DEF Unasked
  <1>6. Words(own)'
    <2>a. Asks(own)'
      BY <1>0, <1>2 DEF Asks, Aimed, StreamCmds
    <2>b. Answers(own)'
      <3>1. \A x \in Said : x.cmd \in StreamCmds => x.arg1 # r
        BY <1>0 DEF Answers
      <3> QED
        BY <1>1, <1>2, <3>1 DEF Answers
    <2>c. Knows(own)'
      BY <1>0, <1>1 DEF Knows
    <2> QED
      BY <1>2, <2>a, <2>b, <2>c
  <1>7. Told(own)'
    BY <1>1, <1>2, <1>4 DEF Told
  <1>8. Opens'
    BY <1>0, <1>1, <1>2 DEF Opens
  <1>9. CnxnLast' /\ CnxnAlone' /\ BannerAwaited' /\ Waiting'
    <2>a. \A x \in Heard' : x.cmd # "CNXN"
      BY <1>0, <1>2 DEF CnxnAlone
    <2> QED
      BY <1>0, <1>2, <2>a DEF CnxnLast, Heard, Rng, CnxnAlone, BannerAwaited, Waiting
  <1>10. Resetting'
    BY <1>0, <1>1, <1>2 DEF Resetting
  <1>11. Rising'
    <2> SUFFICES ASSUME NEW i \in 1 .. Len(inbox'), NEW j \in 1 .. Len(inbox'), i < j,
                        inbox'[i].cmd = "OPEN", inbox'[j].cmd = "OPEN"
                 PROVE  inbox'[i].arg0 < inbox'[j].arg0
      BY DEF Rising
    <2>a. i \in 1 .. Len(inbox) /\ inbox'[i] = inbox[i]
      BY <1>3
    <2>b. CASE j \in 1 .. Len(inbox)
      BY <1>3, <2>a, <2>b DEF Rising
    <2>c. CASE j = Len(inbox) + 1
      <3>1. inbox[i].arg0 \in Pending
        BY <2>a DEF Pending, Heard, Rng
      <3> QED
        BY <1>0, <1>3, <1>4, <2>a, <2>c, <3>1
    <2> QED
      BY <1>3, <2>b, <2>c
  <1>12. Ahead'
    <2>a. \A q \in RemoteIds : cl'[q] = "fresh" => cl[q] = "fresh" /\ q # r
      BY <1>1
    <2>b. \A q \in RemoteIds : cl'[q] = "fresh" => r < q
      <3>1. \A q \in RemoteIds : q < r \/ q = r \/ r < q
        BY RemoteIdsAssumption
      <3> QED
        BY <1>0, <2>a, <3>1
    <2> QED
      BY <1>2, <1>4, <2>a, <2>b DEF Ahead
  <1> QED
    BY <1>2, <1>5, <1>6, <1>7, <1>8, <1>9, <1>10, <1>11, <1>12

(* What the client says on a stream it holds, and what it closes.          *)
LEMMA ClientSpeaksUp ==
  ASSUME NEW own, Base, Up(own), NEW r \in RemoteIds,
         ClientWrites(r) \/ ClientAcks(r) \/ ClientCloses(r)
  PROVE  Up(own)'
  <1> USE DEF Up, Ids, Words, Turns
  <1>1. PICK c \in {"OKAY", "CLSE", "WRTE"} : PeerSends(PeerStream(c, r, loc[r]))
    BY DEF ClientWrites, ClientAcks, ClientCloses
  <1>2. PICK m : m = PeerStream(c, r, loc[r])
    OBVIOUS
  <1>3. /\ cl[r] \in {"open", "half"} /\ PeerSends(m) /\ link' = link /\ loc' = loc
        /\ m \in AnyMessage /\ m.cmd \in StreamCmds /\ m.arg0 = r /\ m.arg1 = loc[r]
    <2>a. loc[r] \in LocalIds
      BY DEF Base, ClientOK
    <2>b. m \in AnyMessage
      BY <1>2, <2>a, ClientMessages
    <2> QED
      BY <1>1, <1>2, <2>b DEF ClientWrites, ClientAcks, ClientCloses, client, PeerStream, StreamCmds
  <1>4. \A q \in RemoteIds : cl'[q] = cl[q] \/ (q = r /\ cl'[q] = "closed")
    BY DEF ClientWrites, ClientAcks, ClientCloses, client, Base, ClientOK
  <1>5. /\ Heard' = Heard \cup {m} /\ Pending' = Pending
        /\ UNCHANGED <<next_local_id, wrapped, pc, peer>> /\ Sent' = Sent /\ Said' = Said
        /\ OneBanner' /\ OutputOnly' /\ Tables(own)' /\ Given(own)' /\ Handles(own)'
        /\ Live' = Live /\ \A l : Leaving(l)' = Leaving(l)
    BY <1>3, SentByClient DEF Pending, StreamCmds
  <1>6. /\ Len(inbox) \in Nat /\ Len(inbox') = Len(inbox) + 1 /\ inbox'[Len(inbox) + 1] = m
        /\ \A i \in 1 .. Len(inbox) : inbox'[i] = inbox[i]
    BY <1>3, SentByClient
  <1>7. loc[r] = own[r] /\ own[r] # 0 /\ cl[r] \in Active /\ cl[r] # "opening" /\ link # "waiting"
    BY <1>3 DEF Knows, Active, Waiting
  <1>8. Ids(own)'
    BY <1>4, <1>5 DEF Unasked
  <1>9. Words(own)'
    <2>a. Asks(own)'
      BY <1>3, <1>5, <1>7 DEF Asks, Aimed
    <2>b. Answers(own)'
      BY <1>4, <1>5 DEF Answers, Active
    <2>c. Knows(own)'
      BY <1>3, <1>4 DEF Knows
    <2> QED
      BY <1>5, <2>a, <2>b, <2>c
  <1>10. Told(own)'
    BY <1>4, <1>5 DEF Told
  <1>11. Opens'
    BY <1>3, <1>4, <1>5 DEF Opens, StreamCmds
  <1>12. CnxnLast' /\ CnxnAlone' /\ BannerAwaited' /\ Waiting'
    <2>a. \A x \in Heard' : x.cmd # "CNXN"
      BY <1>3, <1>5, <1>7 DEF CnxnAlone, StreamCmds
    <2> QED
      BY <1>3, <1>5, <1>7, <2>a DEF CnxnLast, Heard, Rng, CnxnAlone, BannerAwaited, Waiting
  <1>13. Resetting'
    <2>a. pc # "cnxn"
      BY <1>7 DEF Resetting
    <2> QED
      BY <1>5, <2>a DEF Resetting
  <1>14. Rising'
    <2> SUFFICES ASSUME NEW i \in 1 .. Len(inbox'), NEW j \in 1 .. Len(inbox'), i < j,
                        inbox'[i].cmd = "OPEN", inbox'[j].cmd = "OPEN"
                 PROVE  inbox'[i].arg0 < inbox'[j].arg0
      BY DEF Rising
    <2>a. i \in 1 .. Len(inbox) /\ j \in 1 .. Len(inbox)
      BY <1>3, <1>6 DEF StreamCmds
    <2> QED
      BY <1>6, <2>a DEF Rising
  <1>15. Ahead'
    BY <1>4, <1>5 DEF Ahead
  <1> QED
    BY <1>5, <1>8, <1>9, <1>10, <1>11, <1>12, <1>13, <1>14, <1>15

(* What the client takes from the wire.  A CNXN makes it ready for new     *)
(* streams; an OKAY names the id the daemon gave the stream.               *)
LEMMA ClientReceivesUp ==
  ASSUME NEW own, Base, Up(own), ClientReceives
  PROVE  Up(own)'
  <1> USE DEF Up, Ids, Words, Turns
  <1>0. PICK m : m = Head(outbox)
    OBVIOUS
  <1>1. /\ outbox # <<>> /\ outbox' = Tail(outbox) /\ outbox \in Seq(DaemonMsg) /\ Takes(m)
        /\ UNCHANGED <<sessions, sync_sessions, next_local_id, wrapped, pc, msg, cur, wrtes,
                       sendq, inbox, peer>>
    BY <1>0 DEF ClientReceives, PeerReceives, tables, poll, Base, IInv, TypeOK, QueuesOK
  <1>2. /\ Rng(outbox) = {m} \cup Rng(outbox') /\ m \in DaemonMsg
    BY <1>0, <1>1, RngTail
  <1>3. /\ m \in Sent /\ Sent' \subseteq Sent /\ Sent \subseteq Sent' \cup {m}
        /\ m \in Said /\ Said' \subseteq Said
        /\ Heard' = Heard /\ Pending' = Pending /\ Live' = Live
        /\ \A l : RemoteOf(l)' = RemoteOf(l) /\ Leaving(l)' = Leaving(l)
    BY <1>1, <1>2 DEF Sent, Said, Rng, Heard, Pending, Live, active_ids, RemoteOf, Leaving
  <1>4. /\ Len(outbox) \in Nat \ {0} /\ Len(outbox') = Len(outbox) - 1 /\ outbox[1] = m
        /\ \A i \in 1 .. Len(outbox') : i + 1 \in 1 .. Len(outbox) /\ outbox'[i] = outbox[i + 1]
    BY <1>0, <1>1
  <1>5. OneBanner' /\ (m.cmd = "CNXN" => \A x \in Sent' : x.cmd # "CNXN")
    <2>a. OneBanner
      OBVIOUS
    <2>b. ASSUME NEW i \in 1 .. Len(outbox'), NEW j \in 1 .. Len(outbox'),
                 outbox'[i].cmd = "CNXN", outbox'[j].cmd = "CNXN"
          PROVE  i = j
      <3>1. /\ i + 1 \in 1 .. Len(outbox) /\ outbox[i + 1].cmd = "CNXN"
            /\ j + 1 \in 1 .. Len(outbox) /\ outbox[j + 1].cmd = "CNXN"
        BY <1>4, <2>b
      <3>2. i + 1 = j + 1
        BY <2>a, <3>1 DEF OneBanner
      <3> QED
        BY <3>2
    <2>c. ASSUME m.cmd = "CNXN", NEW i \in 1 .. Len(outbox'), outbox'[i].cmd = "CNXN"
          PROVE  FALSE
      <3>1. /\ 1 \in 1 .. Len(outbox) /\ outbox[1].cmd = "CNXN"
            /\ i + 1 \in 1 .. Len(outbox) /\ outbox[i + 1].cmd = "CNXN"
        BY <1>4, <2>c
      <3>2. 1 = i + 1
        BY <2>a, <3>1 DEF OneBanner
      <3> QED
        BY <3>2
    <2>d. m.cmd = "CNXN" => \A x \in Rng(sendq) : x.cmd # "CNXN"
      BY <1>2, <2>a DEF OneBanner
    <2>e. \A x \in Rng(sendq') : x.cmd = "CNXN" =>
             Len(sendq') = 1 /\ \A n \in Rng(outbox') : n.cmd # "CNXN"
      BY <1>1, <1>2, <2>a DEF OneBanner, Rng
    <2> QED
      BY <1>1, <2>b, <2>c, <2>d, <2>e DEF OneBanner, Sent, Rng
  <1>6. /\ OutputOnly' /\ Given(own)' /\ Tables(own)' /\ Asks(own)' /\ Handles(own)'
        /\ CnxnLast' /\ Rising'
    BY <1>1, <1>3 DEF OutputOnly, Rng, Given, Tables, Asks, Handles, Aimed, CnxnLast, Rising
  <1>7. (* a message that changes no stream *)
        ASSUME cl' = cl, loc' = loc, link' = link \/ (m.cmd = "CNXN" /\ link' = "up"),
               \A q \in RemoteIds : cl[q] \in {"opening", "open"} => m # clse(own[q], q)
        PROVE  Up(own)'
    <2>a. Unasked(own)' /\ Answers(own)' /\ Knows(own)' /\ Opens' /\ Ahead'
      BY <1>1, <1>3, <1>7 DEF Unasked, Answers, Knows, Opens, Ahead
    <2>b. Told(own)'
      BY <1>1, <1>3, <1>7 DEF Told
    <2>c. CnxnAlone' /\ BannerAwaited'
      BY <1>3, <1>5, <1>7 DEF CnxnAlone, BannerAwaited
    <2>d. Waiting' /\ Resetting'
      BY <1>1, <1>3, <1>7 DEF Waiting, Resetting
    <2> QED
      BY <1>5, <1>6, <2>a, <2>b, <2>c, <2>d
  <1>8. (* one that moves its stream on *)
        ASSUME NEW r \in RemoteIds, r = m.arg1, cl[r] \in {"opening", "open"}, link' = link,
               m.cmd \in {"OKAY", "CLSE"},
               cl'[r] \in {"open", "half", "closed"}, cl'[r] = "open" => m.cmd = "OKAY",
               \A q \in RemoteIds : q # r => cl'[q] = cl[q] /\ loc'[q] = loc[q],
               cl'[r] \in {"open", "half"} => loc'[r] = own[r] /\ own[r] # 0
        PROVE  Up(own)'
    <2>a. r \notin Pending /\ cl[r] \in Active /\ link # "waiting"
      BY <1>3, <1>8 DEF Answers, StreamCmds, Active, Waiting
    <2>b. Unasked(own)' /\ Knows(own)' /\ Opens' /\ Ahead'
      BY <1>1, <1>3, <1>8 DEF Unasked, Knows, Opens, Ahead
    <2>c. Answers(own)'
      BY <1>3, <1>8, <2>a DEF Answers, Active
    <2>d. Told(own)'
      <3> SUFFICES ASSUME NEW q \in RemoteIds, peer, cl'[q] \in {"opening", "open"}, own[q] # 0
                   PROVE  (own[q] \in Live /\ ~Leaving(own[q])) \/ clse(own[q], q) \in Sent'
        BY <1>1, <1>3 DEF Told
      <3>1. cl[q] \in {"opening", "open"}
        BY <1>8
      <3>2. m # clse(own[q], q)
        <4>1. CASE q = r
          <5>1. m.cmd = "OKAY"
            BY <1>8, <4>1
          <5> QED
            BY <5>1 DEF clse
        <4>2. CASE q # r
          BY <1>8, <4>2 DEF clse
        <4> QED
          BY <4>1, <4>2
      <3> QED
        BY <1>3, <3>1, <3>2 DEF Told
    <2>e. CnxnAlone' /\ BannerAwaited' /\ Waiting'
      BY <1>3, <1>8, <2>a DEF CnxnAlone, BannerAwaited, Waiting
    <2>f. Resetting'
      <3>1. pc # "cnxn"
        BY <2>a, <1>8 DEF Resetting
      <3> QED
        BY <1>1, <3>1 DEF Resetting
    <2> QED
      BY <1>5, <1>6, <2>b, <2>c, <2>d, <2>e, <2>f
  <1>9. m.cmd \in StreamCmds => m.arg1 \in RemoteIds
    BY <1>3 DEF Answers
  <1>10. cl \in [RemoteIds -> ClientPhases] /\ loc \in [RemoteIds -> LocalIds]
    BY DEF Base, ClientOK
  <1>11. CASE m.cmd = "CNXN"
    BY <1>1, <1>7, <1>11 DEF Takes, clse
  <1>12. CASE m.cmd = "OKAY" /\ cl[m.arg1] = "opening"
    <2>a. m.arg0 = own[m.arg1] /\ m.arg0 # 0
      BY <1>3, <1>12 DEF Answers, StreamCmds, Active
    <2>b. cl' = [cl EXCEPT ![m.arg1] = "open"] /\ loc' = [loc EXCEPT ![m.arg1] = m.arg0]
          /\ link' = link
      BY <1>1, <1>12 DEF Takes
    <2> QED
      BY <1>8, <1>9, <1>10, <1>12, <2>a, <2>b DEF StreamCmds
  <1>13. CASE m.cmd = "CLSE" /\ cl[m.arg1] = "opening"
    <2>a. cl' = [cl EXCEPT ![m.arg1] = "closed"] /\ loc' = loc /\ link' = link
      BY <1>1, <1>13 DEF Takes
    <2> QED
      BY <1>8, <1>9, <1>10, <1>13, <2>a DEF StreamCmds
  <1>14. CASE m.cmd = "CLSE" /\ cl[m.arg1] = "open"
    <2>a. cl' = [cl EXCEPT ![m.arg1] = "half"] /\ loc' = loc /\ link' = link
      BY <1>1, <1>14 DEF Takes
    <2>b. loc[m.arg1] = own[m.arg1] /\ own[m.arg1] # 0
      BY <1>9, <1>14 DEF Knows, StreamCmds
    <2> QED
      BY <1>8, <1>9, <1>10, <1>14, <2>a, <2>b DEF StreamCmds
  <1>15. CASE m.cmd # "CNXN" /\ ~(m.cmd = "OKAY" /\ cl[m.arg1] = "opening")
              /\ ~(m.cmd = "CLSE" /\ cl[m.arg1] \in {"opening", "open"})
    <2>a. UNCHANGED client
      BY <1>1, <1>15 DEF Takes
    <2> QED
      BY <1>7, <1>15, <2>a DEF client, clse
  <1> QED
    BY <1>11, <1>12, <1>13, <1>14, <1>15

(* After a hangup nobody is left to be told anything.                      *)
LEMMA ClientHangsUpUp ==
  ASSUME NEW own, Base, Up(own), ClientHangsUp
  PROVE  Up(own)'
  <1>1. /\ outbox' = <<>> /\ peer' = FALSE /\ UNCHANGED client
        /\ UNCHANGED <<sessions, sync_sessions, next_local_id, wrapped, pc, msg, cur, wrtes,
                       sendq, inbox>>
    BY DEF ClientHangsUp, PeerHangsUp, tables, poll
  <1>2. Rng(outbox') = {}
    BY <1>1, RngEmpty
  <1>3. Said' \subseteq Said /\ Live' = Live /\ \A l \in Live' : RemoteOf(l)' = RemoteOf(l)
    BY <1>1, <1>2 DEF Said, Sent, Rng, Live, active_ids, RemoteOf
  <1>4. Told(own)'
    BY <1>1 DEF Told
  <1>5. OneBanner'
    BY <1>1, <1>2 DEF Up, Turns, OneBanner, Rng
  <1>6. Handles(own)' /\ OutputOnly'
    BY <1>1 DEF Handles, Aimed, Up, Words, Turns, OutputOnly, Rng
  <1> QED
    BY <1>1, <1>3, <1>4, <1>5, <1>6, StepUp

--------------------------------
(* The theorems. *)

(* At first no stream has an owner and nothing is in flight.               *)
LEMMA CrossInit == SysInit => CrossInv
  <1> SUFFICES ASSUME SysInit PROVE CrossInv
    OBVIOUS
  <1> DEFINE own == [r \in RemoteIds |-> 0]
  <1>1. /\ own \in [RemoteIds -> LocalIds] /\ \A r \in RemoteIds : own[r] = 0
        /\ \A r \in RemoteIds : 1 <= r
    BY ZeroOne, RemoteIdsAssumption, StreamIdsAssumption
  <1> HIDE DEF own
  <1>2. /\ Live = {} /\ Rng(sendq) = {} /\ Rng(wrtes) = {} /\ Rng(outbox) = {} /\ Heard = {}
        /\ pc = "read" /\ next_local_id = 1 /\ ~wrapped /\ peer /\ link = "down"
        /\ Len(outbox) = 0 /\ Len(inbox) = 0
        /\ \A r \in RemoteIds : cl[r] = "fresh"
    BY RngEmpty DEF SysInit, Init, ClientInit, Live, active_ids, EmptyMap, Heard
  <1>3. Sent = {} /\ Said = {} /\ Pending = {}
    BY <1>2 DEF Sent, Said, Pending
  <1>4. Ids(own)
    BY <1>1, <1>2, <1>3 DEF Ids, Given, Unasked, Tables
  <1>5. Words(own) /\ Told(own)
    BY <1>1, <1>2, <1>3 DEF Words, Asks, Handles, Answers, Knows, Told
  <1>6. Turns
    BY <1>1, <1>2, <1>3 DEF Turns, Opens, CnxnLast, CnxnAlone, BannerAwaited, OneBanner, OutputOnly,
       Waiting, Resetting, Rising, Ahead, Active
  <1>7. Gone
    BY <1>2 DEF Gone
  <1> QED
    BY <1>4, <1>5, <1>6, <1>7 DEF CrossInv, Up

(* The handler returns only when the client has hung up: the client never  *)
(* sends what would end the connection otherwise.                          *)
LEMMA GoneStep ==
  ASSUME NEW own, Base, Up(own), Gone, pc # "done", [SysNext]_sysvars
  PROVE  Gone'
  <1>1. pc' = "done" => (ReadFails \/ SendFails) /\ Return
    BY DEF SysNext, sysvars, vars, Daemon, ReadMessage, HandleCnxn, OpenShell, OpenShellFails,
       OpenSync, OpenOther, OpenAs, HandleWrte, HandleClse, HandleOther, ReadFails, ReadNothing,
       Finish, FinishCnxn, ApplySync, ApplySyncQuit, AnswerSync, FinishSyncQuit, ApplyShell,
       PollShells, BeginPoll, EndPoll, PollStdout, PollStderr, PollAlive, PollExited, PollClose,
       Send, SendFails, Return, Kids, KidWrites, KidExits, Terminated,
       ClientStep, ClientConnects, ClientOpens, ClientWrites, ClientAcks, ClientCloses,
       ClientReceives, ClientHangsUp, PeerSends, PeerReceives, PeerHangsUp
  <1>2. pc' = "done" => ~peer /\ inbox' = <<>>
    <2>a. \A m \in Heard : m.cmd # "BAD"
      BY DEF Up, Turns, Opens
    <2> QED
      BY <1>1, <2>a, HeadHeard DEF ReadFails, SendFails, Return
  <1>3. ~peer => peer' = FALSE /\ outbox' = outbox
    BY DEF SysNext, sysvars, vars, Daemon, ReadMessage, HandleCnxn, OpenShell, OpenShellFails,
       OpenSync, OpenOther, OpenAs, HandleWrte, HandleClse, HandleOther, ReadFails, ReadNothing,
       Finish, FinishCnxn, ApplySync, ApplySyncQuit, AnswerSync, FinishSyncQuit, ApplyShell,
       PollShells, BeginPoll, EndPoll, PollStdout, PollStderr, PollAlive, PollExited, PollClose,
       Send, SendFails, Return, Kids, KidWrites, KidExits, Terminated,
       ClientStep, ClientConnects, ClientOpens, ClientWrites, ClientAcks, ClientCloses,
       ClientReceives, ClientHangsUp, PeerSends, PeerReceives, PeerHangsUp
  <1>4. ~peer' /\ peer => outbox' = <<>>
    BY DEF SysNext, sysvars, vars, Daemon, ReadMessage, HandleCnxn, OpenShell, OpenShellFails,
       OpenSync, OpenOther, OpenAs, HandleWrte, HandleClse, HandleOther, ReadFails, ReadNothing,
       Finish, FinishCnxn, ApplySync, ApplySyncQuit, AnswerSync, FinishSyncQuit, ApplyShell,
       PollShells, BeginPoll, EndPoll, PollStdout, PollStderr, PollAlive, PollExited, PollClose,
       Send, SendFails, Return, Kids, KidWrites, KidExits, Terminated,
       ClientStep, ClientConnects, ClientOpens, ClientWrites, ClientAcks, ClientCloses,
       ClientReceives, ClientHangsUp, PeerSends, PeerReceives, PeerHangsUp
  <1> QED
    BY <1>2, <1>3, <1>4 DEF Gone

(* Every step of the system keeps the invariant.                           *)
LEMMA CrossStep ==
  ASSUME Base, CrossInv, [SysNext]_sysvars
  PROVE  CrossInv'
  <1>1. CASE pc = "done"
    BY <1>1, DoneStays DEF CrossInv
  <1>2. CASE pc # "done"
    <2>a. PICK own : Up(own)
      BY <1>2 DEF CrossInv
    <2>b. Gone'
      BY <1>2, <2>a, GoneStep DEF CrossInv
    <2>c. CASE UNCHANGED sysvars
      <3>1. UNCHANGED <<client, tables, wrtes, sendq, outbox, peer, inbox, pc, msg, cur>>
        BY <2>c DEF sysvars, vars, poll
      <3> QED
        BY <2>a, <2>b, <3>1, QuietUp DEF CrossInv
    <2>d. CASE (Daemon \/ Kids \/ Terminated) /\ UNCHANGED client
      BY <2>a, <2>b, <2>d, DaemonUp DEF CrossInv
    <2>e. CASE ClientStep
      BY <2>a, <2>b, <2>e, ClientConnectsUp, ClientOpensUp, ClientSpeaksUp, ClientReceivesUp,
         ClientHangsUpUp DEF ClientStep, CrossInv
    <2> QED
      BY <2>c, <2>d, <2>e DEF SysNext
  <1> QED
    BY <1>1, <1>2

(* Each stream has an id of its own, so what names a live session by its   *)
(* id names it by its stream.                                              *)
LEMMA NoCrossTalkNow ==
  ASSUME Base, CrossInv
  PROVE  NoCrossTalk
  <1>1. CASE pc = "done"
    BY <1>1 DEF CrossInv, Gone, NoCrossTalk
  <1>2. CASE pc # "done"
    <2>a. PICK own : Up(own)
      BY <1>2 DEF CrossInv
    <2> USE DEF Up, Ids, Words
    <2>b. ASSUME NEW m, Aimed(own, m), m.arg1 \in Live
          PROVE  RemoteOf(m.arg1) = m.arg0
      BY <2>a, <2>b DEF Aimed, Tables, Given
    <2>c. pc = "wrte" => Aimed(own, msg)
      BY <2>a DEF Handles
    <2>d. ASSUME NEW i \in 1 .. Len(inbox), inbox[i].cmd \in {"WRTE", "CLSE"}
          PROVE  Aimed(own, inbox[i])
      BY <2>a, <2>d DEF Asks, Heard, Rng, StreamCmds
    <2>e. ASSUME NEW i \in 1 .. Len(outbox), outbox[i].cmd \in {"WRTE", "CLSE"},
                 cl[outbox[i].arg1] = "open"
          PROVE  outbox[i].arg0 = loc[outbox[i].arg1]
      <3>1. outbox[i] \in Said
        BY DEF Said, Sent, Rng
      <3>2. outbox[i].arg1 \in RemoteIds /\ outbox[i].arg0 = own[outbox[i].arg1]
        BY <2>a, <2>e, <3>1 DEF Answers, StreamCmds, Active
      <3> QED
        BY <2>a, <2>e, <3>2 DEF Knows
    <2> HIDE DEF Up, Ids, Words
    <2> QED
      BY <2>b, <2>c, <2>d, <2>e DEF NoCrossTalk
  <1> QED
    BY <1>1, <1>2

(* The id the client knows is the one the daemon gave, so a stream it      *)
(* holds is in the tables or its CLSE is on the way.                       *)
LEMMA OpenOrToldNow ==
  ASSUME Base, CrossInv
  PROVE  OpenOrTold
  <1> SUFFICES ASSUME NEW r \in RemoteIds, cl[r] = "open", peer
               PROVE  \/ loc[r] \in Live /\ RemoteOf(loc[r]) = r
                      \/ \E i \in 1 .. Len(outbox \o sendq) :
                            (outbox \o sendq)[i] = clse(loc[r], r)
    BY DEF OpenOrTold
  <1>1. PICK own : Up(own)
    BY DEF CrossInv, Gone
  <1>2. loc[r] = own[r] /\ own[r] # 0
    BY <1>1 DEF Up, Words, Knows
  <1>3. own[r] \in Live \/ clse(own[r], r) \in Sent
    BY <1>1, <1>2 DEF Up, Told
  <1>4. CASE own[r] \in Live
    BY <1>1, <1>2, <1>4 DEF Up, Ids, Tables, Given
  <1>5. CASE clse(own[r], r) \in Sent
    <2>a. outbox \in Seq(DaemonMsg) /\ sendq \in Seq(DaemonMsg)
      BY DEF Base, IInv, TypeOK, QueuesOK
    <2>b. Rng(outbox \o sendq) = Sent
      BY <2>a, RngConcat DEF Sent
    <2> QED
      BY <1>2, <1>5, <2>b DEF Rng
  <1> QED
    BY <1>3, <1>4, <1>5

(* The invariant holds in every reachable state.  SmallIds is about the    *)
(* constants alone, and is assumed throughout.                             *)
LEMMA CrossInvariance ==
  ASSUME SmallIds
  PROVE  SysSpec => []CrossInv
  <1>1. IInv /\ ClientOK /\ CrossInv /\ [SysNext]_sysvars => CrossInv'
    BY CrossStep DEF Base
  <1> QED
    BY <1>1, CrossInit, SystemInvariance, PTL DEF SysSpec

(* With a conforming client, however often it connects again, no WRTE or   *)
(* CLSE in flight or in hand meets the session of another stream, and what *)
(* the client takes for an open stream is that stream's: finding a stream  *)
(* by its local id alone, with ids that start over at each CNXN, is sound  *)
(* in handle_connection.                                                   *)
THEOREM CrossTalkFree ==
  ASSUME SmallIds
  PROVE  SysSpec => []NoCrossTalk
  <1>1. IInv /\ ClientOK /\ CrossInv => NoCrossTalk
    BY NoCrossTalkNow DEF Base
  <1> QED
    BY <1>1, CrossInvariance, SystemInvariance, PTL

(* A stream the client holds open is in the daemon's tables under the id   *)
(* the client knows, or its CLSE is on the way: no session is dropped, by  *)
(* exit, close, QUIT or reconnect, without the client being told.          *)
THEOREM NoStreamLost ==
  ASSUME SmallIds
  PROVE  SysSpec => []OpenOrTold
  <1>1. IInv /\ ClientOK /\ CrossInv => OpenOrTold
    BY OpenOrToldNow DEF Base
  <1> QED
    BY <1>1, CrossInvariance, SystemInvariance, PTL

(* Two streams the client is not done with have different ids, over any    *)
(* number of opens, closes and connects.                                   *)
THEOREM NoIdTwice ==
  ASSUME SmallIds
  PROVE  SysSpec => []IdsTellApart
  <1>1. IInv /\ ClientOK /\ CrossInv => IdsTellApart
    <2> SUFFICES ASSUME CrossInv, peer, NEW q \in RemoteIds, NEW r \in RemoteIds,
                        q # r, {cl[q], cl[r]} \subseteq {"open", "half"}
                 PROVE  loc[q] # loc[r]
      BY DEF IdsTellApart
    <2>a. PICK own : Up(own)
      BY DEF CrossInv, Gone
    <2>b. loc[q] = own[q] /\ loc[r] = own[r] /\ own[q] # 0
      BY <2>a DEF Up, Words, Knows
    <2> QED
      BY <2>a, <2>b DEF Up, Ids, Given
  <1> QED
    BY <1>1, CrossInvariance, SystemInvariance, PTL

--------------------------------
(* The daemon stays.                                                       *)

(* The handler returns on a message it cannot parse, on the end of the     *)
(* stream and on an error of the socket.  None of the client's messages    *)
(* is of the first kind, which is what is to be shown of all in flight.    *)
WellFormed == \A m \in Heard : m.cmd # "BAD"

(* What a step reads is gone, what it adds is well formed.                 *)
LEMMA WellFormedStep ==
  ASSUME TypeOK, ClientOK, WellFormed, [SysNext]_sysvars
  PROVE  WellFormed'
  <1>0. inbox \in Seq(PeerMsg)
    BY DEF TypeOK, QueuesOK
  <1>1. CASE inbox' = inbox \/ (inbox # <<>> /\ inbox' = Tail(inbox))
    BY <1>1, HeardLess DEF WellFormed
  <1>2. CASE inbox' = <<>>
    BY <1>2, RngEmpty DEF WellFormed, Heard
  <1>3. ASSUME NEW m \in AnyMessage, m.cmd # "BAD", PeerSends(m)
        PROVE  WellFormed'
    <2>a. inbox' = Append(inbox, m) /\ m \in PeerMsg
      BY <1>3, AnyMessageType DEF PeerSends
    <2>b. Heard' = Heard \cup {m}
      BY <1>0, <2>a, RngAppend DEF Heard
    <2> QED
      BY <1>3, <2>b DEF WellFormed
  <1>4. CASE ClientStep
    <2>a. PeerCnxn.cmd # "BAD" /\ PeerCnxn \in AnyMessage
      BY CnxnAllowed DEF PeerCnxn
    <2>b. ASSUME NEW r \in RemoteIds, NEW d \in Dests
          PROVE  PeerOpen(r, d).cmd # "BAD" /\ PeerOpen(r, d) \in AnyMessage
      BY DEF PeerOpen, AnyMessage
    <2>c. ASSUME NEW r \in RemoteIds, NEW c \in {"WRTE", "OKAY", "CLSE"}
          PROVE  PeerStream(c, r, loc[r]).cmd # "BAD" /\ PeerStream(c, r, loc[r]) \in AnyMessage
      BY ClientMessages DEF PeerStream, ClientOK
    <2>d. CASE ClientReceives \/ ClientHangsUp
      BY <1>1, <1>2, <2>d DEF ClientReceives, ClientHangsUp, PeerReceives, PeerHangsUp
    <2> QED
      BY <1>3, <1>4, <2>a, <2>b, <2>c, <2>d
      DEF ClientStep, ClientConnects, ClientOpens, ClientWrites, ClientAcks, ClientCloses
  <1>5. ASSUME Daemon
        PROVE  inbox' = inbox \/ inbox' = <<>> \/ (inbox # <<>> /\ inbox' = Tail(inbox))
    BY <1>5 DEF Daemon, ReadMessage, HandleCnxn, OpenShell, OpenShellFails, OpenSync, OpenOther,
       OpenAs, HandleWrte, HandleClse, HandleOther, ReadFails, ReadNothing, Read,
       Finish, FinishCnxn, ApplySync, ApplySyncQuit, AnswerSync, FinishSyncQuit, ApplyShell,
       PollShells, BeginPoll, EndPoll, PollStdout, PollStderr, PollAlive, PollExited, PollClose,
       Send, SendFails, Return
  <1>6. Kids \/ Terminated \/ UNCHANGED sysvars => inbox' = inbox
    BY DEF Kids, KidWrites, KidExits, Terminated, sysvars, vars
  <1> QED
    BY <1>1, <1>2, <1>4, <1>5, <1>6 DEF SysNext

(* Only those two steps end the handler, and a client that has gone does   *)
(* not come back.                                                          *)
LEMMA StaysStep ==
  ASSUME TypeOK, WellFormed, StaysConnected, [SysNext]_sysvars
  PROVE  StaysConnected'
  <1>1. pc' = "done" => pc = "done" \/ ReadFails \/ SendFails
    BY DEF SysNext, sysvars, vars, Daemon, ReadMessage, HandleCnxn, OpenShell, OpenShellFails,
       OpenSync, OpenOther, OpenAs, HandleWrte, HandleClse, HandleOther, ReadFails, ReadNothing,
       Finish, FinishCnxn, ApplySync, ApplySyncQuit, AnswerSync, FinishSyncQuit, ApplyShell,
       PollShells, BeginPoll, EndPoll, PollStdout, PollStderr, PollAlive, PollExited, PollClose,
       Send, SendFails, Return, Kids, KidWrites, KidExits, Terminated,
       ClientStep, ClientConnects, ClientOpens, ClientWrites, ClientAcks, ClientCloses,
       ClientReceives, ClientHangsUp, PeerSends, PeerReceives, PeerHangsUp
  <1>2. ~peer => peer' = FALSE
    BY DEF SysNext, sysvars, vars, Daemon, ReadMessage, HandleCnxn, OpenShell, OpenShellFails,
       OpenSync, OpenOther, OpenAs, HandleWrte, HandleClse, HandleOther, ReadFails, ReadNothing,
       Finish, FinishCnxn, ApplySync, ApplySyncQuit, AnswerSync, FinishSyncQuit, ApplyShell,
       PollShells, BeginPoll, EndPoll, PollStdout, PollStderr, PollAlive, PollExited, PollClose,
       Send, SendFails, Return, Kids, KidWrites, KidExits, Terminated,
       ClientStep, ClientConnects, ClientOpens, ClientWrites, ClientAcks, ClientCloses,
       ClientReceives, ClientHangsUp, PeerSends, PeerReceives, PeerHangsUp
  <1>3. ReadFails \/ SendFails => ~peer
    <2>a. inbox # <<>> => Head(inbox).cmd # "BAD"
      <3>1. inbox \in Seq(PeerMsg)
        BY DEF TypeOK, QueuesOK
      <3> QED
        BY <3>1, RngTail DEF WellFormed, Heard
    <2> QED
      BY <2>a DEF ReadFails, SendFails
  <1> QED
    BY <1>1, <1>2, <1>3 DEF StaysConnected

(* As long as a conforming client is there, whatever it says, or however   *)
(* long it says nothing, handle_connection does not return and drop the    *)
(* client's streams with the SessionManager: a read that times out is not  *)
(* the end, nor is a process that cannot be started, a stream that is not  *)
(* there, or a message out of turn.                                        *)
THEOREM ClientIsKept == SysSpec => []StaysConnected
  <1>1. SysInit => WellFormed /\ StaysConnected
    BY RngEmpty DEF SysInit, Init, WellFormed, Heard, StaysConnected
  <1>2. IInv /\ ClientOK /\ WellFormed /\ StaysConnected /\ [SysNext]_sysvars
           => WellFormed' /\ StaysConnected'
    BY WellFormedStep, StaysStep DEF IInv
  <1> QED
    BY <1>1, <1>2, SystemInvariance, PTL DEF SysSpec

--------------------------------
(***************************************************************************)
(* AdbSystem implements AdbStreams, for every value of the constants with  *)
(* SmallIds: the property ImplementsStreams.                               *)
(*                                                                         *)
(* The mapping of AdbSystem reads the phase and the id of a stream off the *)
(* daemon's tables, its unread OPENs and the client's view, what has been  *)
(* asked off the daemon's inbox, and the wire off the three queues between *)
(* them.  What makes each action a step of the promise is that an id       *)
(* belongs to one stream (Up), that nothing is queued by a poll when the   *)
(* handler speaks for itself (Drained), that stderr is read for v2 alone   *)
(* (StderrV2), and that a client without a banner has asked for nothing    *)
(* but that (Unconnected): what is read before the CNXN would be dropped   *)
(* without an answer.                                                      *)
(***************************************************************************)

(* The refinement mapping.                                                 *)
Phase == [r \in RemoteIds |-> PhaseOf(r)]
Lid == [r \in RemoteIds |-> IdOf(r)]
Queue == IF peer THEN [i \in 1 .. Len(inbox) |-> AskOf(inbox[i])] ELSE <<>>
Wire == IF peer THEN outbox \o sendq \o wrtes ELSE <<>>

LivePhases == {"v1", "v2", "sync", "answering"}

(* What the steps need besides CrossInv.                                   *)
Drained == pc \notin {"stderr", "wait"} => wrtes = <<>>
StderrV2 == pc = "stderr" => sessions[cur].v2
NothingAsked ==
    /\ link # "up" /\ \A r \in RemoteIds : cl[r] = "fresh"
    /\ \A m \in Heard : m.cmd = "CNXN"
    /\ Sent = {}
Unconnected == ~connected /\ pc \notin {"cnxn", "done"} => NothingAsked
RInv == Drained /\ StderrV2 /\ Unconnected

--------------------------------
(* The steps of the promise, under the mapping.                            *)

(* The two modules have one vocabulary.                                    *)
LEMMA SameWords ==
  /\ \A l, r : Streams!okay(l, r) = okay(l, r) /\ Streams!clse(l, r) = clse(l, r)
  /\ \A l, r, p : Streams!wrte(l, r, p) = wrte(l, r, p)
  /\ Streams!cnxn = cnxn /\ Streams!LocalIds = LocalIds
  BY DEF Streams!okay, okay, Streams!clse, clse, Streams!wrte, wrte, Streams!cnxn, cnxn,
     Streams!LocalIds, LocalIds

(* A message of the client is heard; or nothing is, and nothing asked.     *)
Hearing(c, r) ==
    /\ \A q \in RemoteIds : Phase[q] # "answering"
    /\ Queue # <<>> /\ Head(Queue) = [cmd |-> c, of |-> r] /\ Queue' = Tail(Queue)
    /\ peer' = peer

Asking(c, r) == peer /\ peer' = peer /\ Queue' = Append(Queue, [cmd |-> c, of |-> r])

Unheard == Queue' = Queue /\ peer' = peer

(* The promise's words for these.                                          *)
LEMMA AsHears ==
  ASSUME NEW c, NEW r, Hearing(c, r)
  PROVE  Streams!Hears(c, r)
  BY DEF Hearing, Streams!Hears, Streams!ask, Phase, Queue

LEMMA AsAsks ==
  ASSUME NEW c, NEW r, Asking(c, r)
  PROVE  Streams!Asks(c, r)
  BY DEF Asking, Streams!Asks, Streams!ask, Queue

(* A step that changes nothing of the mapping is a stutter of the promise. *)
LEMMA AsStutter ==
  ASSUME Phase' = Phase, Lid' = Lid, Wire' = Wire, Unheard
  PROVE  UNCHANGED Streams!svars
  BY DEF Streams!svars, Phase, Lid, Wire, Unheard, Queue

(* The client connects.                                                    *)
LEMMA AsConnect ==
  ASSUME Asking("CNXN", 0), Phase' = Phase, Lid' = Lid, Wire' = Wire
  PROVE  Streams!Next
  <1>1. Streams!Connect
    BY AsAsks DEF Streams!Connect, Phase, Lid, Wire, Asking
  <1> QED
    BY <1>1 DEF Streams!Next

(* The client asks for a stream.                                           *)
LEMMA AsRequest ==
  ASSUME NEW r \in RemoteIds, Asking("OPEN", r),
         Phase[r] = "idle", Phase' = [Phase EXCEPT ![r] = "asked"],
         Lid' = Lid, Wire' = Wire
  PROVE  Streams!Next
  <1>1. Streams!Request(r)
    BY AsAsks DEF Streams!Request, Phase, Lid, Wire, Asking
  <1> QED
    BY <1>1 DEF Streams!Next, Streams!StreamStep

(* The client speaks of a stream it has an answer for.                     *)
LEMMA AsSpeak ==
  ASSUME NEW r \in RemoteIds, NEW c \in {"OKAY", "CLSE", "WRTE"}, Asking(c, r),
         Phase[r] \notin {"idle", "asked"}, Phase' = Phase, Lid' = Lid, Wire' = Wire
  PROVE  Streams!Next
  <1>1. Streams!Speak(r)
    BY AsAsks DEF Streams!Speak, Phase, Lid, Wire, Asking
  <1> QED
    BY <1>1 DEF Streams!Next, Streams!StreamStep

(* An OKAY with an id no live stream has opens it.                         *)
LEMMA AsAccept ==
  ASSUME NEW r \in RemoteIds, Hearing("OPEN", r),
         NEW l \in LocalIds, NEW k \in {"v1", "v2", "sync"},
         \A q \in RemoteIds : Phase[q] \in LivePhases => Lid[q] # l,
         Phase' = [Phase EXCEPT ![r] = k], Lid' = [Lid EXCEPT ![r] = l],
         Wire' = Wire \o <<okay(l, r)>>
  PROVE  Streams!Next
  <1>1. Streams!Accept(r)
    BY SameWords, AsHears DEF Streams!Accept, Streams!Say, Streams!Live, Streams!LivePhases,
       LivePhases, Phase, Lid, Wire, Hearing
  <1> QED
    BY <1>1 DEF Streams!Next, Streams!StreamStep

(* A CLSE under the id 0 refuses it.                                       *)
LEMMA AsRefuse ==
  ASSUME NEW r \in RemoteIds, Hearing("OPEN", r),
         Phase' = [Phase EXCEPT ![r] = "closed"], Lid' = [Lid EXCEPT ![r] = 0],
         Wire' = Wire \o <<clse(0, r)>>
  PROVE  Streams!Next
  <1>1. Streams!Refuse(r)
    BY SameWords, AsHears
    DEF Streams!Refuse, Streams!Say, Streams!Ends, Phase, Lid, Wire, Hearing
  <1> QED
    BY <1>1 DEF Streams!Next, Streams!StreamStep

(* A WRTE of a live shell carries what its protocol allows.                *)
LEMMA AsOutput ==
  ASSUME NEW r \in RemoteIds, NEW p,
         \/ Phase[r] = "v1" /\ p = "raw"
         \/ Phase[r] = "v2" /\ p \in {"stdout", "stderr"},
         Phase' = Phase, Lid' = Lid, Wire' = Wire \o <<wrte(Lid[r], r, p)>>, Unheard
  PROVE  Streams!Next
  <1>1. Phase[r] \in {"v1", "v2"} /\ p \in Streams!Carries[Phase[r]]
    BY DEF Streams!Carries
  <1>2. Streams!Say(<<Streams!wrte(Lid[r], r, p)>>)
    BY SameWords DEF Streams!Say, Wire
  <1>3. Streams!Output(r)
    BY <1>1, <1>2 DEF Streams!Output, Streams!Carries, Phase, Lid, Unheard, Queue
  <1> QED
    BY <1>3 DEF Streams!Next, Streams!StreamStep

(* An OKAY for a live stream, or for one that has ended; a sync stream is  *)
(* owed an answer from then on.                                            *)
LEMMA AsAck ==
  ASSUME NEW r \in RemoteIds, NEW l \in LocalIds, Hearing("WRTE", r),
         \/ Phase[r] \in LivePhases /\ Lid[r] = l
         \/ Phase[r] = "closed",
         Phase' = [Phase EXCEPT ![r] = IF Phase[r] = "sync" THEN "answering" ELSE Phase[r]],
         Lid' = Lid, Wire' = Wire \o <<okay(l, r)>>
  PROVE  Streams!Next
  <1>1. l \in IF Streams!Live(r) THEN {Lid[r]} ELSE LocalIds
    BY DEF Streams!Live, Streams!LivePhases, LivePhases, Phase
  <1>2. Streams!Say(<<Streams!okay(l, r)>>)
    BY SameWords DEF Streams!Say, Wire
  <1>3. l \in IF Streams!Live(r) THEN {[q \in RemoteIds |-> IdOf(q)][r]} ELSE Streams!LocalIds
    BY <1>1, SameWords DEF Lid
  <1>4. Streams!Hears("WRTE", r) /\ peer' = peer
    BY AsHears DEF Hearing
  <1>5. [q \in RemoteIds |-> PhaseOf(q)]' =
            [[q \in RemoteIds |-> PhaseOf(q)] EXCEPT ![r] = IF @ = "sync" THEN "answering" ELSE @]
    BY DEF Phase
  <1>6. [q \in RemoteIds |-> IdOf(q)]' = [q \in RemoteIds |-> IdOf(q)]
    BY DEF Lid
  <1>7. Streams!Ack(r)
    BY <1>2, <1>3, <1>4, <1>5, <1>6 DEF Streams!Ack
  <1> QED
    BY <1>7 DEF Streams!Next, Streams!StreamStep

(* A sync stream answers with a few chunks.                                *)
LEMMA AsSyncAnswer ==
  ASSUME NEW r \in RemoteIds, NEW n \in 0 .. MaxChunks, Phase[r] = "answering",
         Phase' = [Phase EXCEPT ![r] = "sync"], Lid' = Lid,
         Wire' = Wire \o [i \in 1 .. n |-> wrte(Lid[r], r, "sync")], Unheard
  PROVE  Streams!Next
  <1>1. Streams!SyncAnswer(r)
    BY SameWords DEF Streams!SyncAnswer, Streams!Answer, Streams!Say, Phase, Lid, Wire,
       Unheard, Queue
  <1> QED
    BY <1>1 DEF Streams!Next, Streams!StreamStep

(* A sync stream answers and ends.                                         *)
LEMMA AsSyncQuit ==
  ASSUME NEW r \in RemoteIds, NEW n \in 0 .. MaxChunks, Phase[r] = "answering",
         Phase' = [Phase EXCEPT ![r] = "closed"], Lid' = [Lid EXCEPT ![r] = 0],
         Wire' = Wire \o Append([i \in 1 .. n |-> wrte(Lid[r], r, "sync")], clse(Lid[r], r)),
         Unheard
  PROVE  Streams!Next
  <1>1. Streams!SyncQuit(r)
    BY SameWords DEF Streams!SyncQuit, Streams!Answer, Streams!Ends, Streams!Say, Phase, Lid,
       Wire, Unheard, Queue
  <1> QED
    BY <1>1 DEF Streams!Next, Streams!StreamStep

(* A shell stream ends with its exit, if it is v2, and its CLSE.           *)
LEMMA AsExit ==
  ASSUME NEW r \in RemoteIds, Phase[r] \in {"v1", "v2"},
         Phase' = [Phase EXCEPT ![r] = "closed"], Lid' = [Lid EXCEPT ![r] = 0],
         Wire' = Wire \o ((IF Phase[r] = "v2" THEN <<wrte(Lid[r], r, "exit")>> ELSE <<>>)
                             \o <<clse(Lid[r], r)>>),
         Unheard
  PROVE  Streams!Next
  <1>1. Streams!Exit(r)
    BY SameWords DEF Streams!Exit, Streams!Carries, Streams!Ends, Streams!Say, Phase, Lid, Wire,
       Unheard, Queue
  <1> QED
    BY <1>1 DEF Streams!Next, Streams!StreamStep

(* A stream the client closed ends with a CLSE.                            *)
LEMMA AsClose ==
  ASSUME NEW r \in RemoteIds, Hearing("CLSE", r), Phase[r] \in LivePhases,
         Phase' = [Phase EXCEPT ![r] = "closed"], Lid' = [Lid EXCEPT ![r] = 0],
         Wire' = Wire \o <<clse(Lid[r], r)>>
  PROVE  Streams!Next
  <1>1. Streams!Close(r)
    BY SameWords, AsHears DEF Streams!Close, Streams!Live, Streams!LivePhases, LivePhases,
       Streams!Ends, Streams!Say, Phase, Lid, Wire, Hearing
  <1> QED
    BY <1>1 DEF Streams!Next, Streams!StreamStep

(* An OKAY, and the CLSE of a stream that is closed, get no answer.        *)
LEMMA AsIgnore ==
  ASSUME NEW r \in RemoteIds,
         Hearing("OKAY", r) \/ (Hearing("CLSE", r) /\ Phase[r] \notin LivePhases),
         Phase' = Phase, Lid' = Lid, Wire' = Wire
  PROVE  Streams!Next
  <1>1. Streams!Hears("OKAY", r) \/ (~Streams!Live(r) /\ Streams!Hears("CLSE", r))
    BY AsHears DEF Streams!Live, Streams!LivePhases, LivePhases, Phase
  <1>2. Streams!Ignore(r)
    BY <1>1 DEF Streams!Ignore, Phase, Lid, Wire, Hearing
  <1> QED
    BY <1>2 DEF Streams!Next, Streams!StreamStep

(* The banner ends every stream.                                           *)
LEMMA AsBanner ==
  ASSUME Hearing("CNXN", 0),
         Phase' = [r \in RemoteIds |->
                      IF Phase[r] \in LivePhases THEN "closed" ELSE Phase[r]],
         Lid' = [r \in RemoteIds |-> 0], Wire' = Wire \o <<cnxn>>
  PROVE  Streams!Next
  <1>1. Streams!Banner
    BY SameWords, AsHears DEF Streams!Banner, Streams!Live, Streams!LivePhases, LivePhases,
       Streams!Say, Phase, Lid, Wire, Hearing
  <1> QED
    BY <1>1 DEF Streams!Next

(* The client takes what comes first.                                      *)
LEMMA AsTake ==
  ASSUME Wire # <<>>, Wire' = Tail(Wire), Phase' = Phase, Lid' = Lid, Unheard
  PROVE  Streams!Next
  <1>1. Streams!Take
    BY DEF Streams!Take, Phase, Lid, Wire, Unheard, Queue
  <1> QED
    BY <1>1 DEF Streams!Next

(* A client that hangs up says and sees nothing more.                      *)
LEMMA AsDown ==
  ASSUME peer, peer' = FALSE
  PROVE  Streams!Next
  <1>1. /\ Phase' = [r \in RemoteIds |-> "closed"] /\ Lid' = [r \in RemoteIds |-> 0]
        /\ Wire' = <<>> /\ Queue' = <<>>
    BY DEF Phase, PhaseOf, Lid, IdOf, Wire, Queue
  <1>2. Streams!Down
    BY <1>1 DEF Streams!Down, Phase, Lid, Wire, Queue
  <1> QED
    BY <1>2 DEF Streams!Next

--------------------------------
(* What has been asked.                                                    *)

(* A message that is read is heard, since nothing is owed between turns.   *)
LEMMA ReadHears ==
  ASSUME Base, peer, peer' = peer, pc = "read", inbox # <<>>, inbox' = Tail(inbox)
  PROVE  Hearing(Head(inbox).cmd, IF Head(inbox).cmd = "CNXN" THEN 0 ELSE Head(inbox).arg0)
  <1>1. \A q \in RemoteIds : Phase[q] # "answering"
    BY DEF Phase, PhaseOf, Owed
  <1>2. inbox \in Seq(PeerMsg)
    BY DEF Base, IInv, TypeOK, QueuesOK
  <1>3. /\ Len(inbox) \in Nat /\ Len(inbox) > 0 /\ Head(inbox) = inbox[1]
        /\ Len(Tail(inbox)) = Len(inbox) - 1
        /\ \A i \in 1 .. Len(inbox) - 1 : Tail(inbox)[i] = inbox[i + 1]
    BY <1>2
  <1> DEFINE q == [i \in 1 .. Len(inbox) |-> AskOf(inbox[i])]
             t == [i \in 1 .. Len(inbox) - 1 |-> AskOf(inbox[i + 1])]
             S == {AskOf(inbox[i]) : i \in 1 .. Len(inbox)}
  <1>4. q \in Seq(S) /\ Len(q) = Len(inbox) /\ q # <<>> /\ \A i \in 1 .. Len(inbox) : q[i] = AskOf(inbox[i])
    BY <1>3
  <1>5. t \in Seq(S) /\ Len(t) = Len(inbox) - 1
    BY <1>3
  <1>6. Tail(q) = t
    <2>a. /\ Tail(q) \in Seq(S) /\ Len(Tail(q)) = Len(inbox) - 1
          /\ \A i \in 1 .. Len(inbox) - 1 : Tail(q)[i] = q[i + 1]
      BY <1>3, <1>4
    <2>b. \A i \in 1 .. Len(inbox) - 1 : q[i + 1] = AskOf(inbox[i + 1])
      BY <1>3, <1>4
    <2>c. \A i \in 1 .. Len(inbox) - 1 : Tail(q)[i] = t[i]
      BY <2>a, <2>b
    <2> QED
      BY <1>5, <2>a, <2>c, SeqEqual
  <1>7. Queue = q
    BY DEF Queue
  <1>8. Queue' = t
    <2>a. Queue' = [i \in 1 .. Len(inbox) - 1 |-> AskOf(Tail(inbox)[i])]
      BY <1>3 DEF Queue
    <2> QED
      BY <1>3, <2>a
  <1>9. Head(q) = AskOf(Head(inbox))
    BY <1>3, <1>4
  <1> HIDE DEF q, t
  <1> QED
    BY <1>1, <1>4, <1>6, <1>7, <1>8, <1>9 DEF Hearing, AskOf

(* A message that is sent is asked.                                        *)
LEMMA SentAsks ==
  ASSUME Base, peer, peer' = peer, NEW m \in PeerMsg, inbox' = Append(inbox, m)
  PROVE  Asking(m.cmd, IF m.cmd = "CNXN" THEN 0 ELSE m.arg0)
  <1>1. inbox \in Seq(PeerMsg)
    BY DEF Base, IInv, TypeOK, QueuesOK
  <1> DEFINE n == Len(inbox)
             q == [i \in 1 .. n |-> AskOf(inbox[i])]
             u == [i \in 1 .. n + 1 |-> AskOf(Append(inbox, m)[i])]
             S == {AskOf(inbox[i]) : i \in 1 .. n} \cup {AskOf(m)}
  <1>2. /\ n \in Nat /\ Len(Append(inbox, m)) = n + 1 /\ Append(inbox, m)[n + 1] = m
        /\ \A i \in 1 .. n : Append(inbox, m)[i] = inbox[i]
    BY <1>1
  <1>3. q \in Seq(S) /\ Len(q) = n /\ \A i \in 1 .. n : q[i] = AskOf(inbox[i])
    BY <1>2
  <1>4. \A i \in 1 .. n + 1 : AskOf(Append(inbox, m)[i]) = IF i = n + 1 THEN AskOf(m) ELSE AskOf(inbox[i])
    BY <1>2
  <1>5. u \in Seq(S) /\ Len(u) = n + 1
        /\ \A i \in 1 .. n + 1 : u[i] = IF i = n + 1 THEN AskOf(m) ELSE AskOf(inbox[i])
    <2>a. \A i \in 1 .. n + 1 : AskOf(Append(inbox, m)[i]) \in S
      BY <1>2, <1>4
    <2> QED
      BY <1>2, <1>4, <2>a
  <1>6. u = Append(q, AskOf(m))
    <2>a. /\ Append(q, AskOf(m)) \in Seq(S) /\ Len(Append(q, AskOf(m))) = n + 1
          /\ \A i \in 1 .. n : Append(q, AskOf(m))[i] = q[i]
          /\ Append(q, AskOf(m))[n + 1] = AskOf(m)
      BY <1>2, <1>3
    <2>b. \A i \in 1 .. n + 1 : u[i] = Append(q, AskOf(m))[i]
      BY <1>2, <1>3, <1>5, <2>a
    <2> QED
      BY <1>5, <2>a, <2>b, SeqEqual
  <1>7. Queue = q /\ Queue' = u
    BY <1>2 DEF Queue
  <1> HIDE DEF q, u
  <1> QED
    BY <1>6, <1>7 DEF Asking, AskOf

(* Otherwise the queue is what it was.                                     *)
LEMMA NothingHeard ==
  ASSUME UNCHANGED <<inbox, peer>>
  PROVE  Unheard
  BY DEF Unheard, Queue

--------------------------------
(* The wire.                                                               *)

(* The three queues the wire is made of.                                   *)
LEMMA WireTypes ==
  ASSUME Base
  PROVE  outbox \in Seq(DaemonMsg) /\ sendq \in Seq(DaemonMsg) /\ wrtes \in Seq(DaemonMsg)
  BY DEF Base, IInv, TypeOK, QueuesOK

(* The library's associativity of \o, for messages.                        *)
LEMMA Assoc ==
  ASSUME NEW p \in Seq(DaemonMsg), NEW q \in Seq(DaemonMsg), NEW u \in Seq(DaemonMsg)
  PROVE  (p \o q) \o u = p \o (q \o u)
  BY ConcatAssociative, SMTT(30)

(* What the handler sends in one go comes last on the wire.                *)
LEMMA SaysWire ==
  ASSUME Base, peer, peer' = peer, NEW q \in Seq(DaemonMsg),
         outbox' = outbox, sendq = <<>>, sendq' = q, wrtes = <<>>, wrtes' = <<>>
  PROVE  Wire' = Wire \o q
  <1>1. outbox \o <<>> \o <<>> = outbox
    BY WireTypes, ConcatEmptySeq
  <1>2. outbox \o q \in Seq(DaemonMsg)
    BY WireTypes, ConcatProperties
  <1>3. outbox \o q \o <<>> = outbox \o q
    BY <1>2, ConcatEmptySeq
  <1> QED
    BY <1>1, <1>3 DEF Wire

(* So does what a poll queues.                                             *)
LEMMA PushWire ==
  ASSUME Base, peer, peer' = peer, NEW a \in DaemonMsg,
         outbox' = outbox, sendq = <<>>, sendq' = sendq, wrtes' = Append(wrtes, a)
  PROVE  Wire' = Wire \o <<a>>
  <1>1. outbox \o <<>> = outbox
    BY WireTypes, ConcatEmptySeq
  <1>2. <<a>> \in Seq(DaemonMsg) /\ Append(wrtes, a) = wrtes \o <<a>>
    BY WireTypes, AppendIsConcat
  <1>3. (outbox \o wrtes) \o <<a>> = outbox \o (wrtes \o <<a>>)
    BY <1>2, WireTypes, Assoc
  <1> QED
    BY <1>1, <1>2, <1>3 DEF Wire

(* What a poll has queued is sent before anything that follows it.         *)
LEMMA FlushWire ==
  ASSUME Base, peer, peer' = peer, NEW x \in Seq(DaemonMsg),
         outbox' = outbox, sendq = <<>>, sendq' = wrtes \o x, wrtes' = <<>>
  PROVE  Wire' = Wire \o x
  <1>1. outbox \o <<>> = outbox
    BY WireTypes, ConcatEmptySeq
  <1>2. outbox \o (wrtes \o x) \in Seq(DaemonMsg)
    BY WireTypes, ConcatProperties
  <1>3. outbox \o (wrtes \o x) \o <<>> = outbox \o (wrtes \o x)
    BY <1>2, ConcatEmptySeq
  <1>4. (outbox \o wrtes) \o x = outbox \o (wrtes \o x)
    <2>a. outbox \in Seq(DaemonMsg) /\ wrtes \in Seq(DaemonMsg)
      BY WireTypes
    <2> QED
      BY <2>a, Assoc
  <1> QED
    BY <1>1, <1>3, <1>4 DEF Wire

(* A message that leaves sendq stays where it was on the wire.             *)
LEMMA SendWire ==
  ASSUME Base, peer, Send
  PROVE  Wire' = Wire
  <1> DEFINE h == Head(sendq)
             t == Tail(sendq)
  <1>1. sendq # <<>> /\ sendq' = t /\ outbox' = Append(outbox, h) /\ wrtes' = wrtes /\ peer' = peer
    BY DEF Send, poll
  <1>2. h \in DaemonMsg /\ t \in Seq(DaemonMsg) /\ <<h>> \in Seq(DaemonMsg)
    BY <1>1, WireTypes
  <1>3. sendq = <<h>> \o t
    <2>a. /\ <<h>> \o t \in Seq(DaemonMsg) /\ Len(<<h>> \o t) = Len(sendq)
          /\ \A i \in 1 .. Len(sendq) : (<<h>> \o t)[i] = sendq[i]
      BY <1>1, <1>2, WireTypes
    <2> QED
      BY <2>a, WireTypes, SeqEqual
  <1>4. Append(outbox, h) = outbox \o <<h>>
    BY <1>2, WireTypes, AppendIsConcat
  <1> HIDE DEF h, t
  <1>5. (outbox \o <<h>>) \o t = outbox \o sendq
    BY <1>2, <1>3, WireTypes, Assoc
  <1> QED
    BY <1>1, <1>4, <1>5 DEF Wire

(* What the client receives is the first message of the wire.              *)
LEMMA TakeWire ==
  ASSUME Base, peer, peer' = peer, outbox # <<>>, outbox' = Tail(outbox),
         sendq' = sendq, wrtes' = wrtes
  PROVE  Wire # <<>> /\ Wire' = Tail(Wire)
  <1> DEFINE q == sendq \o wrtes
  <1>1. q \in Seq(DaemonMsg) /\ Tail(outbox) \in Seq(DaemonMsg)
    BY WireTypes, ConcatProperties
  <1>2. outbox \o sendq \o wrtes = outbox \o q /\ Tail(outbox) \o sendq \o wrtes = Tail(outbox) \o q
    <2>a. outbox \o sendq \o wrtes = outbox \o q
      BY WireTypes, Assoc
    <2>b. Tail(outbox) \o sendq \o wrtes = Tail(outbox) \o q
      BY <1>1, WireTypes, Assoc
    <2> QED
      BY <2>a, <2>b
  <1> HIDE DEF q
  <1>3. outbox \o q # <<>>
    BY <1>1, WireTypes, ConcatProperties
  <1>4. Tail(outbox \o q) = Tail(outbox) \o q
    <2>a. /\ outbox \o q \in Seq(DaemonMsg) /\ Tail(outbox) \o q \in Seq(DaemonMsg)
          /\ Tail(outbox \o q) \in Seq(DaemonMsg)
      BY <1>1, <1>3, WireTypes
    <2>b. /\ Len(Tail(outbox \o q)) = Len(Tail(outbox) \o q)
          /\ \A i \in 1 .. Len(Tail(outbox \o q)) : Tail(outbox \o q)[i] = (Tail(outbox) \o q)[i]
      BY <1>1, <1>3, WireTypes
    <2> QED
      BY <2>a, <2>b, SeqEqual
  <1> QED
    BY <1>2, <1>3, <1>4 DEF Wire

--------------------------------
(* The phases.                                                             *)

(* A stream is asked for as long as its OPEN has not been read.            *)
LEMMA AskedPending ==
  \A r : (Asked(r) <=> r \in Pending) /\ (Asked(r)' <=> r \in Pending')
  BY DEF Asked, Pending, Heard, Rng

(* A live stream has one session, under its own id.                        *)
LEMMA Mine ==
  ASSUME NEW own, Base, Up(own), NEW r \in RemoteIds, NEW l \in Shells(r) \cup Syncs(r)
  PROVE  /\ l = own[r] /\ l # 0 /\ l \in Live /\ RemoteOf(l) = r /\ l \in LocalIds
         /\ cl[r] # "fresh" /\ ~Asked(r) /\ pc # "cnxn"
         /\ l \in active_ids <=> l \notin DOMAIN sync_sessions
  <1>1. active_ids \cap DOMAIN sync_sessions = {} /\ \A k \in Live : k # 0
    BY DEF Up, Turns, Ahead, Base, IInv, IdsFresh
  <1>2. /\ l \in Live /\ RemoteOf(l) = r /\ pc # "cnxn"
        /\ l \in active_ids <=> l \notin DOMAIN sync_sessions
    BY <1>1 DEF Shells, Syncs, Live, RemoteOf
  <1>3. l = own[r] /\ l # 0
    BY <1>1, <1>2 DEF Up, Ids, Tables
  <1>4. cl[r] # "fresh" /\ ~Asked(r)
    BY <1>3, AskedPending DEF Up, Ids, Unasked
  <1>5. l \in LocalIds
    BY <1>3 DEF Up, Ids, Given
  <1> QED
    BY <1>2, <1>3, <1>4, <1>5

(* The phase and the id of a stream with a shell session.                  *)
LEMMA LiveShell ==
  ASSUME NEW own, Base, Up(own), peer, NEW r \in RemoteIds, NEW l \in Shells(r)
  PROVE  /\ Phase[r] = (IF sessions[l].v2 THEN "v2" ELSE "v1") /\ Lid[r] = l
         /\ Shells(r) = {l} /\ Syncs(r) = {} /\ l = own[r]
  <1>1. Shells(r) = {l} /\ Syncs(r) = {} /\ l = own[r] /\ cl[r] # "fresh" /\ ~Asked(r)
    <2>a. \A k \in Shells(r) \cup Syncs(r) : k = l
      BY Mine
    <2>b. l \notin Syncs(r)
      BY Mine DEF Shells, Syncs
    <2> QED
      BY <2>a, <2>b, Mine
  <1>2. PhaseOf(r) = (IF sessions[l].v2 THEN "v2" ELSE "v1") /\ IdOf(r) = l
    BY <1>1 DEF PhaseOf, IdOf
  <1> QED
    BY <1>1, <1>2 DEF Phase, Lid

(* The phase and the id of a stream with a sync session.                   *)
LEMMA LiveSync ==
  ASSUME NEW own, Base, Up(own), peer, NEW r \in RemoteIds, NEW l \in Syncs(r)
  PROVE  /\ Phase[r] = (IF Owed(r) THEN "answering" ELSE "sync") /\ Lid[r] = l
         /\ Shells(r) = {} /\ Syncs(r) = {l} /\ l = own[r]
  <1>1. Syncs(r) = {l} /\ Shells(r) = {} /\ l = own[r] /\ cl[r] # "fresh" /\ ~Asked(r)
    <2>a. \A k \in Shells(r) \cup Syncs(r) : k = l
      BY Mine
    <2>b. l \notin Shells(r)
      BY Mine DEF Shells, Syncs
    <2> QED
      BY <2>a, <2>b, Mine
  <1>2. PhaseOf(r) = (IF Owed(r) THEN "answering" ELSE "sync") /\ IdOf(r) = l
    BY <1>1 DEF PhaseOf, IdOf
  <1> QED
    BY <1>1, <1>2 DEF Phase, Lid

(* What keeps the phase of a stream, and of all.                           *)
Alike(q) ==
    /\ q \in Pending' <=> q \in Pending
    /\ cl'[q] = "fresh" <=> cl[q] = "fresh"
    /\ Shells(q)' = Shells(q) /\ Syncs(q)' = Syncs(q)
    /\ \A l \in Shells(q) : sessions'[l].v2 = sessions[l].v2
    /\ Syncs(q) # {} => (Owed(q)' <=> Owed(q))

(* A stream keeps its id with its sessions.                                *)
LEMMA IdSame ==
  ASSUME NEW q, Shells(q)' = Shells(q), Syncs(q)' = Syncs(q), peer' = peer
  PROVE  IdOf(q)' = IdOf(q)
  BY DEF IdOf

(* An undisturbed stream keeps its phase and its id.                       *)
LEMMA AlikeSame ==
  ASSUME NEW q, Alike(q), peer' = peer
  PROVE  PhaseOf(q)' = PhaseOf(q) /\ IdOf(q)' = IdOf(q)
  <1>1. Asked(q)' <=> Asked(q)
    BY AskedPending DEF Alike
  <1>2. (\E l \in Shells(q)' : sessions'[l].v2) <=> (\E l \in Shells(q) : sessions[l].v2)
    BY DEF Alike
  <1>3. PhaseOf(q)' = PhaseOf(q)
    BY <1>1, <1>2 DEF Alike, PhaseOf
  <1> QED
    BY <1>3, IdSame DEF Alike

(* If all streams are undisturbed, phases and ids stay.                    *)
LEMMA AllAlike ==
  ASSUME \A q \in RemoteIds : Alike(q), peer' = peer
  PROVE  Phase' = Phase /\ Lid' = Lid
  BY AlikeSame DEF Phase, Lid

(* If all but one are, only its own can change.                            *)
LEMMA AlikeBut ==
  ASSUME NEW r \in RemoteIds, \A q \in RemoteIds \ {r} : Alike(q), peer' = peer
  PROVE  /\ Phase' = [Phase EXCEPT ![r] = PhaseOf(r)']
         /\ Lid' = [Lid EXCEPT ![r] = IdOf(r)']
  BY AlikeSame DEF Phase, Lid

(* Where the handler is about to end streams, or owes one an answer.       *)
Speaking == {"cnxn", "close", "unsync", "wrte"}

(* Steps that leave sessions, client and asked streams alone.              *)
LEMMA QuietAlike ==
  ASSUME UNCHANGED <<sessions, sync_sessions, cl>>, Pending' = Pending,
         \/ pc \notin Speaking /\ pc' \notin Speaking
         \/ UNCHANGED <<pc, msg, cur>>
  PROVE  \A q \in RemoteIds : Alike(q)
  <1>1. \A q : Shells(q)' = Shells(q) /\ Syncs(q)' = Syncs(q)
    BY DEF Shells, Syncs, active_ids, Speaking
  <1>2. \A q : Owed(q)' <=> Owed(q)
    BY DEF Owed, Speaking
  <1> QED
    BY <1>1, <1>2 DEF Alike

(* A message that is no OPEN leaves the requests as they were.             *)
LEMMA ReadKeeps ==
  ASSUME Base, inbox # <<>>, inbox' = Tail(inbox), Head(inbox).cmd # "OPEN"
  PROVE  Pending' = Pending
  <1>1. Heard = {Head(inbox)} \cup Heard'
    BY HeadHeard DEF Heard
  <1> QED
    BY <1>1 DEF Pending

(* An OPEN that is read leaves one request less: no other has its id.      *)
LEMMA ReadOpen ==
  ASSUME Base, Rising, inbox # <<>>, inbox' = Tail(inbox), Head(inbox).cmd = "OPEN",
         Head(inbox).arg0 \in RemoteIds
  PROVE  Pending' = Pending \ {Head(inbox).arg0} /\ Head(inbox).arg0 \in Pending
  <1>1. Heard = {Head(inbox)} \cup Heard'
    BY HeadHeard DEF Heard
  <1>2. Pending = {Head(inbox).arg0} \cup Pending'
    BY <1>1 DEF Pending
  <1>3. Head(inbox).arg0 \notin Pending'
    <2>a. Head(inbox).arg0 \in Nat
      BY RemoteIdsAssumption
    <2>b. ~(Head(inbox).arg0 < Head(inbox).arg0)
      BY <2>a
    <2> QED
      BY <2>b, OpenGone
  <1> QED
    BY <1>2, <1>3

--------------------------------
(* Each action of the daemon is a step of the promise.                     *)

(* A CNXN is answered by the banner.                                       *)
LEMMA HandleCnxnRefines ==
  ASSUME NEW own, Base, Up(own), RInv, peer, HandleCnxn, UNCHANGED client
  PROVE  Streams!Next
  <1>1. /\ inbox # <<>> /\ inbox' = Tail(inbox) /\ Head(inbox).cmd = "CNXN" /\ sendq = <<>>
        /\ sendq' = <<cnxn>> /\ pc = "read" /\ pc' = "cnxn"
        /\ UNCHANGED <<outbox, wrtes, peer>> /\ cl' = cl
    BY DEF HandleCnxn, Read, At, poll, client
  <1>2. Pending = {} /\ Pending' = {}
    <2>a. Pending' = Pending
      BY <1>1, ReadKeeps
    <2>b. Len(inbox) = 1
      BY <1>1, HeadHeard DEF Up, Turns, CnxnLast
    <2>c. inbox' = <<>>
      BY <1>1, <2>b, HeadHeard
    <2> QED
      BY <2>a, <2>c, RngEmpty DEF Pending, Heard
  <1>3. \A r \in RemoteIds : PhaseOf(r)' = (IF cl[r] = "fresh" THEN "idle" ELSE "closed")
                            /\ IdOf(r)' = 0
    <2>a. \A r : Shells(r)' = {} /\ Syncs(r)' = {} /\ ~Asked(r)'
      BY <1>1, <1>2, AskedPending DEF Shells, Syncs
    <2> QED
      BY <1>1, <2>a DEF PhaseOf, IdOf
  <1>4. \A r \in RemoteIds : Phase[r] # "asked"
                            /\ (cl[r] = "fresh" => Phase[r] = "idle")
                            /\ (cl[r] # "fresh" => Phase[r] \in LivePhases \cup {"closed"})
    <2>a. \A r : ~Asked(r)
      BY <1>2, AskedPending
    <2> QED
      BY <2>a DEF Phase, PhaseOf, LivePhases
  <1>5. Phase' = [r \in RemoteIds |->
                     IF Phase[r] \in LivePhases THEN "closed" ELSE Phase[r]]
    BY <1>3, <1>4 DEF Phase, LivePhases
  <1>6. Lid' = [r \in RemoteIds |-> 0]
    BY <1>3 DEF Lid
  <1>7. Wire' = Wire \o <<cnxn>>
    <2>a. wrtes = <<>> /\ <<cnxn>> \in Seq(DaemonMsg)
      BY <1>1, CnxnType DEF RInv, Drained
    <2> QED
      BY <1>1, <2>a, SaysWire
  <1> QED
    BY <1>1, <1>5, <1>6, <1>7, ReadHears, AsBanner

(* An OPEN is accepted with the id the session gets.                       *)
LEMMA AcceptRefines ==
  ASSUME NEW own, Base, Up(own), RInv, peer, NEW kinds, OpenAs(kinds), alloc_local_id,
         UNCHANGED client,
         NEW n, n = next_local_id, NEW r, r = Head(inbox).arg0, sendq' = <<okay(n, r)>>,
         NEW k \in {"v1", "v2", "sync"}, PhaseOf(r)' = k, IdOf(r)' = n,
         \A q \in RemoteIds \ {r} : Shells(q)' = Shells(q) /\ Syncs(q)' = Syncs(q),
         \A q \in RemoteIds \ {r} : \A l \in Shells(q) : sessions'[l].v2 = sessions[l].v2
  PROVE  Streams!Next
  <1>1. /\ inbox # <<>> /\ Head(inbox).cmd = "OPEN" /\ inbox' = Tail(inbox)
        /\ pc = "read" /\ pc' = "begin"
        /\ sendq = <<>> /\ UNCHANGED <<wrtes, outbox, peer>> /\ r \in RemoteIds /\ cl' = cl
    BY OpenRead DEF OpenAs, Read, At, client
  <1>2. Pending' = Pending \ {r} /\ r \in Pending
    BY <1>1, ReadOpen DEF Up, Turns
  <1>3. Hearing("OPEN", r)
    BY <1>1, ReadHears
  <1>4. n \in LocalIds /\ \A q \in RemoteIds : own[q] # n
    BY NextId
  <1>5. ASSUME NEW q \in RemoteIds, Phase[q] \in LivePhases
        PROVE  Lid[q] # n
    <2>a. PICK l : l \in Shells(q) \cup Syncs(q)
      BY <1>5 DEF Phase, PhaseOf, LivePhases
    <2>b. Lid[q] = own[q]
      BY <2>a, LiveShell, LiveSync
    <2> QED
      BY <1>4, <2>b
  <1>6. \A q \in RemoteIds \ {r} : Alike(q)
    BY <1>1, <1>2 DEF Alike, Owed
  <1>7. Phase' = [Phase EXCEPT ![r] = k] /\ Lid' = [Lid EXCEPT ![r] = n]
    BY <1>1, <1>6, AlikeBut
  <1>8. Wire' = Wire \o <<okay(n, r)>>
    <2>a. wrtes = <<>> /\ <<okay(n, r)>> \in Seq(DaemonMsg)
      BY <1>1, <1>4, AnswerType DEF RInv, Drained
    <2> QED
      BY <1>1, <2>a, SaysWire
  <1> QED
    BY <1>1, <1>3, <1>4, <1>5, <1>7, <1>8, AsAccept

(* An OPEN that cannot be served is refused.                               *)
LEMMA RefuseRefines ==
  ASSUME NEW own, Base, Up(own), RInv, peer, NEW kinds, OpenAs(kinds), UNCHANGED client,
         sendq' = <<clse(0, Head(inbox).arg0)>>, UNCHANGED <<sessions, sync_sessions>>
  PROVE  Streams!Next
  <1>0. PICK r : r = Head(inbox).arg0
    OBVIOUS
  <1>1. /\ inbox # <<>> /\ Head(inbox).cmd = "OPEN" /\ inbox' = Tail(inbox)
        /\ pc = "read" /\ pc' = "begin"
        /\ sendq = <<>> /\ UNCHANGED <<wrtes, outbox, peer>>
        /\ r \in RemoteIds /\ own[r] = 0 /\ cl' = cl
    BY <1>0, OpenRead DEF OpenAs, Read, At, client
  <1>2. Pending' = Pending \ {r} /\ r \in Pending
    BY <1>0, <1>1, ReadOpen DEF Up, Turns
  <1>3. Hearing("OPEN", r)
    BY <1>0, <1>1, ReadHears
  <1>4. \A q : Shells(q)' = Shells(q) /\ Syncs(q)' = Syncs(q)
    BY <1>1 DEF Shells, Syncs, active_ids
  <1>5. PhaseOf(r)' = "closed" /\ IdOf(r)' = 0
    <2>a. Shells(r) = {} /\ Syncs(r) = {}
      BY <1>1, Mine
    <2>b. ~Asked(r)' /\ cl[r] # "fresh"
      BY <1>2, AskedPending, HeadHeard, <1>0, <1>1 DEF Up, Turns, Opens
    <2> QED
      BY <1>1, <1>4, <2>a, <2>b DEF PhaseOf, IdOf
  <1>6. \A q \in RemoteIds \ {r} : Alike(q)
    BY <1>1, <1>2, <1>4 DEF Alike, Owed
  <1>7. Phase' = [Phase EXCEPT ![r] = "closed"] /\ Lid' = [Lid EXCEPT ![r] = 0]
    BY <1>1, <1>5, <1>6, AlikeBut
  <1>8. Wire' = Wire \o <<clse(0, r)>>
    <2>a. wrtes = <<>> /\ <<clse(0, r)>> \in Seq(DaemonMsg)
      BY <1>1, ZeroOne, AnswerType DEF RInv, Drained
    <2> QED
      BY <1>0, <1>1, <2>a, SaysWire
  <1> QED
    BY <1>1, <1>3, <1>7, <1>8, AsRefuse

(* Each OPEN is accepted or refused.                                       *)
LEMMA OpensRefine ==
  ASSUME NEW own, Base, Up(own), RInv, peer,
         OpenShell \/ OpenShellFails \/ OpenSync \/ OpenOther, UNCHANGED client
  PROVE  Streams!Next
  <1>0. PICK n, r : n = next_local_id /\ r = Head(inbox).arg0
    OBVIOUS
  <1>1. CASE OpenShellFails \/ OpenOther
    BY <1>1, RefuseRefines DEF OpenShellFails, OpenOther, tables
  <1>2. ASSUME NEW kinds, OpenAs(kinds)
        PROVE  /\ inbox # <<>> /\ Head(inbox).cmd = "OPEN" /\ inbox' = Tail(inbox) /\ pc = "read"
               /\ r \in RemoteIds /\ own[r] = 0 /\ cl' = cl /\ pc' = "begin" /\ peer' = peer
               /\ Shells(r) = {} /\ Syncs(r) = {} /\ ~Asked(r)' /\ cl[r] # "fresh"
    <2>a. /\ inbox # <<>> /\ Head(inbox).cmd = "OPEN" /\ inbox' = Tail(inbox) /\ pc = "read"
          /\ r \in RemoteIds /\ own[r] = 0 /\ cl' = cl /\ pc' = "begin" /\ peer' = peer
      BY <1>0, <1>2, OpenRead DEF OpenAs, Read, At, client
    <2>b. Pending' = Pending \ {r} /\ r \in Pending
      BY <1>0, <2>a, ReadOpen DEF Up, Turns
    <2>c. ~Asked(r)' /\ cl[r] # "fresh"
      BY <2>a, <2>b, AskedPending, HeadHeard, <1>0 DEF Up, Turns, Opens
    <2>d. Shells(r) = {} /\ Syncs(r) = {}
      BY <2>a, Mine
    <2> QED
      BY <2>a, <2>c, <2>d
  <1>3. CASE OpenShell
    <2>a. OpenAs({"ShellV1", "ShellV2"}) /\ alloc_local_id
      BY <1>3 DEF OpenShell
    <2>b. n \notin Live
      BY <1>0, <2>a, NextId
    <2>c. /\ sync_sessions' = sync_sessions /\ DOMAIN sessions' = DOMAIN sessions \cup {n}
          /\ sessions'[n].remote = r
          /\ \A l \in DOMAIN sessions : sessions'[l] = sessions[l]
          /\ sendq' = <<okay(n, r)>>
      BY <1>0, <1>3, <2>b DEF OpenShell, insert, Live, active_ids
    <2>d. /\ \A q \in RemoteIds \ {r} : Shells(q)' = Shells(q)
          /\ Shells(r)' = Shells(r) \cup {n}
          /\ \A q : Syncs(q)' = Syncs(q)
      BY <1>2, <2>a, <2>b, <2>c DEF Shells, Syncs, active_ids, Live
    <2>e. \A q : \A l \in Shells(q) : sessions'[l].v2 = sessions[l].v2
      BY <2>c DEF Shells, active_ids
    <2>f. PICK k : k = IF sessions'[n].v2 THEN "v2" ELSE "v1"
      OBVIOUS
    <2>g. PhaseOf(r)' = k /\ IdOf(r)' = n
      BY <1>2, <2>a, <2>d, <2>f DEF PhaseOf, IdOf
    <2> QED
      BY <1>0, <2>a, <2>c, <2>d, <2>e, <2>f, <2>g, AcceptRefines
  <1>4. CASE OpenSync
    <2>a. OpenAs({"Sync"}) /\ alloc_local_id
      BY <1>4 DEF OpenSync
    <2>b. n \notin Live
      BY <1>0, <2>a, NextId
    <2>c. /\ sessions' = sessions /\ DOMAIN sync_sessions' = DOMAIN sync_sessions \cup {n}
          /\ sync_sessions'[n] = r
          /\ \A l \in DOMAIN sync_sessions : sync_sessions'[l] = sync_sessions[l]
          /\ sendq' = <<okay(n, r)>>
      BY <1>0, <1>4, <2>b DEF OpenSync, insert, Live
    <2>d. /\ \A q \in RemoteIds \ {r} : Syncs(q)' = Syncs(q)
          /\ Syncs(r)' = Syncs(r) \cup {n}
          /\ \A q : Shells(q)' = Shells(q)
      BY <1>2, <2>a, <2>b, <2>c DEF Shells, Syncs, active_ids, Live
    <2>e. PhaseOf(r)' = "sync" /\ IdOf(r)' = n
      BY <1>2, <2>a, <2>d DEF PhaseOf, IdOf, Owed
    <2> QED
      BY <1>0, <2>a, <2>c, <2>d, <2>e, AcceptRefines
  <1> QED
    BY <1>1, <1>3, <1>4

(* A message aimed at a live session is for the session's stream.          *)
LEMMA Owned ==
  ASSUME NEW own, Base, Up(own), NEW m, Aimed(own, m)
  PROVE  /\ m.arg0 \in RemoteIds /\ m.arg1 \in LocalIds
         /\ cl[m.arg0] # "fresh" /\ ~Asked(m.arg0)
         /\ m.arg1 \in Live => RemoteOf(m.arg1) = m.arg0
  <1>1. m.arg0 \in RemoteIds /\ m.arg1 = own[m.arg0] /\ m.arg1 # 0
    BY DEF Aimed
  <1>2. m.arg1 \in LocalIds /\ cl[m.arg0] # "fresh" /\ ~Asked(m.arg0)
    BY <1>1, AskedPending DEF Up, Ids, Given, Unasked
  <1>3. m.arg1 \in Live => RemoteOf(m.arg1) = m.arg0
    BY <1>1 DEF Up, Ids, Tables, Given
  <1> QED
    BY <1>1, <1>2, <1>3

(* The wire is as long as its parts stay.                                  *)
LEMMA SameWire ==
  ASSUME UNCHANGED <<outbox, sendq, wrtes, peer>>
  PROVE  Wire' = Wire
  BY DEF Wire

(* A stream ends when its session does.                                    *)
LEMMA Ending ==
  ASSUME NEW own, Base, Up(own), peer, UNCHANGED <<peer, cl>>, Pending' = Pending,
         NEW r \in RemoteIds, NEW l \in Shells(r) \cup Syncs(r),
         \A q : Shells(q)' = Shells(q) \ {l} /\ Syncs(q)' = Syncs(q) \ {l},
         \A k \in active_ids \ {l} : sessions'[k].v2 = sessions[k].v2,
         \A q \in RemoteIds \ {r} : Owed(q)' <=> Owed(q)
  PROVE  /\ Phase' = [Phase EXCEPT ![r] = "closed"]
         /\ Lid' = [Lid EXCEPT ![r] = 0] /\ Lid[r] = l
  <1>1. Shells(r) \cup Syncs(r) = {l} /\ Lid[r] = l
    BY LiveShell, LiveSync
  <1>2. Shells(r)' = {} /\ Syncs(r)' = {}
    BY <1>1
  <1>3. PhaseOf(r)' = "closed" /\ IdOf(r)' = 0
    BY <1>2, Mine, AskedPending DEF PhaseOf, IdOf
  <1>4. ASSUME NEW q \in RemoteIds \ {r}
        PROVE  Alike(q)
    <2>a. l \notin Shells(q) \cup Syncs(q)
      <3>1. RemoteOf(l) = r
        BY Mine
      <3>2. l \in Shells(q) \cup Syncs(q) => RemoteOf(l) = q
        BY Mine
      <3> QED
        BY <3>1, <3>2
    <2>b. \A k \in Shells(q) : k \in active_ids \ {l}
      BY <2>a DEF Shells
    <2> QED
      BY <2>a, <2>b DEF Alike
  <1> QED
    BY <1>1, <1>3, <1>4, AlikeBut

(* A WRTE is acknowledged, whether its session is still there or not.      *)
LEMMA HandleWrteRefines ==
  ASSUME NEW own, Base, Up(own), RInv, peer, HandleWrte, UNCHANGED client
  PROVE  Streams!Next
  <1>0. PICK m : m = Head(inbox)
    OBVIOUS
  <1>1. /\ inbox # <<>> /\ inbox' = Tail(inbox) /\ m.cmd = "WRTE" /\ sendq = <<>> /\ pc = "read"
        /\ sendq' = <<okay(m.arg1, m.arg0)>> /\ UNCHANGED <<outbox, wrtes, peer>> /\ pc' = "wrte"
        /\ UNCHANGED <<sessions, sync_sessions, cl>> /\ msg' = m
    BY <1>0 DEF HandleWrte, Read, At, poll, tables, client
  <1>2. Aimed(own, m)
    BY <1>0, <1>1, HeadHeard DEF Up, Words, Asks, StreamCmds
  <1>3. Pending' = Pending
    BY <1>0, <1>1, ReadKeeps
  <1>4. PICK r \in RemoteIds, l \in LocalIds : r = m.arg0 /\ l = m.arg1
    BY <1>2, Owned
  <1>5. /\ \A q : Shells(q)' = Shells(q) /\ Syncs(q)' = Syncs(q)
        /\ \A q : ~Owed(q) /\ (Owed(q)' <=> q = r)
    <2>a. \A q : Shells(q)' = Shells(q)
      BY <1>1 DEF Shells, active_ids
    <2>b. \A q : Syncs(q)' = Syncs(q)
      BY <1>1 DEF Syncs
    <2>c. \A q : ~Owed(q) /\ (Owed(q)' <=> q = r)
      BY <1>1, <1>4 DEF Owed
    <2> QED
      BY <2>a, <2>b, <2>c
  <1>6. l = own[r] /\ cl[r] # "fresh" /\ ~Asked(r)
    BY <1>2, <1>4, Owned DEF Aimed
  <1>7. (Phase[r] \in LivePhases /\ Lid[r] = l) \/ Phase[r] = "closed"
    <2>a. CASE Shells(r) # {}
      BY <1>6, <2>a, LiveShell DEF LivePhases
    <2>b. CASE Syncs(r) # {}
      BY <1>6, <2>b, LiveSync DEF LivePhases
    <2>c. CASE Shells(r) = {} /\ Syncs(r) = {}
      BY <1>6, <2>c DEF Phase, PhaseOf
    <2> QED
      BY <2>a, <2>b, <2>c
  <1>8. Wire' = Wire \o <<okay(l, r)>>
    <2>a. wrtes = <<>> /\ <<okay(l, r)>> \in Seq(DaemonMsg)
      BY <1>1, AnswerType DEF RInv, Drained
    <2> QED
      BY <1>1, <1>4, <2>a, SaysWire
  <1>9. \A q \in RemoteIds \ {r} : Alike(q)
    BY <1>1, <1>3, <1>5 DEF Alike
  <1>10. /\ PhaseOf(r)' = (IF Phase[r] = "sync" THEN "answering" ELSE Phase[r])
         /\ IdOf(r)' = IdOf(r)
    <2>a. Asked(r)' <=> Asked(r)
      BY <1>3, AskedPending
    <2>b. (\E k \in Shells(r)' : sessions'[k].v2) <=> (\E k \in Shells(r) : sessions[k].v2)
      BY <1>1, <1>5
    <2>c. PhaseOf(r)' = (IF PhaseOf(r) = "sync" THEN "answering" ELSE PhaseOf(r))
      BY <1>1, <1>5, <2>a, <2>b DEF PhaseOf
    <2>d. IdOf(r)' = IdOf(r)
      BY <1>1, <1>5, IdSame
    <2> QED
      BY <2>c, <2>d DEF Phase
  <1>11. /\ Phase' = [Phase EXCEPT ![r] = IF Phase[r] = "sync" THEN "answering" ELSE Phase[r]]
         /\ Lid' = Lid
    <2>a. /\ Phase' = [Phase EXCEPT ![r] = PhaseOf(r)']
          /\ Lid' = [Lid EXCEPT ![r] = IdOf(r)']
      BY <1>1, <1>9, AlikeBut
    <2> QED
      BY <1>10, <2>a DEF Lid
  <1>12. Hearing("WRTE", r)
    BY <1>0, <1>1, <1>4, ReadHears
  <1> QED
    BY <1>7, <1>8, <1>11, <1>12, AsAck

(* A CLSE closes the stream it names, or finds nothing to close.           *)
LEMMA HandleClseRefines ==
  ASSUME NEW own, Base, Up(own), RInv, peer, HandleClse, UNCHANGED client
  PROVE  Streams!Next
  <1>0. PICK m : m = Head(inbox)
    OBVIOUS
  <1>1. /\ inbox # <<>> /\ inbox' = Tail(inbox) /\ m.cmd = "CLSE" /\ sendq = <<>> /\ pc = "read"
        /\ UNCHANGED <<outbox, wrtes, peer>> /\ pc' = "begin" /\ cl' = cl
        /\ DropShell(m.arg1) \/ DropSync(m.arg1) \/ DropNothing(m.arg1)
    BY <1>0 DEF HandleClse, Read, At, poll, client
  <1>2. Aimed(own, m)
    BY <1>0, <1>1, HeadHeard DEF Up, Words, Asks, StreamCmds
  <1>3. Pending' = Pending
    BY <1>0, <1>1, ReadKeeps
  <1>4. PICK r \in RemoteIds, l \in LocalIds : r = m.arg0 /\ l = m.arg1
    BY <1>2, Owned
  <1>5. l \in Live => RemoteOf(l) = r
    BY <1>2, <1>4, Owned
  <1>6. active_ids \cap DOMAIN sync_sessions = {}
    BY DEF Up, Turns, Ahead, Base, IInv, IdsFresh
  <1>11. Hearing("CLSE", r)
    BY <1>0, <1>1, <1>4, ReadHears
  <1>12. \A q : ~Owed(q) /\ ~Owed(q)'
    BY <1>1 DEF Owed
  <1>7. (* a session that is found *)
        ASSUME l \in Shells(r) \cup Syncs(r), sendq' = <<clse(l, r)>>,
               \A q : Shells(q)' = Shells(q) \ {l} /\ Syncs(q)' = Syncs(q) \ {l},
               \A k \in active_ids \ {l} : sessions'[k].v2 = sessions[k].v2
        PROVE  Streams!Next
    <2>a. /\ Phase' = [Phase EXCEPT ![r] = "closed"]
          /\ Lid' = [Lid EXCEPT ![r] = 0] /\ Lid[r] = l
      BY <1>1, <1>3, <1>7, <1>12, Ending
    <2>b. Phase[r] \in LivePhases
      BY <1>7, LiveShell, LiveSync DEF LivePhases
    <2>c. Wire' = Wire \o <<clse(l, r)>>
      <3>1. wrtes = <<>> /\ <<clse(l, r)>> \in Seq(DaemonMsg)
        BY <1>1, AnswerType DEF RInv, Drained
      <3> QED
        BY <1>1, <1>7, <3>1, SaysWire
    <2> QED
      BY <1>11, <2>a, <2>b, <2>c, AsClose
  <1>8. CASE DropShell(l)
    <2>a. /\ l \in active_ids /\ l \notin DOMAIN sync_sessions
          /\ sessions[l].remote = r /\ sendq' = <<clse(l, r)>>
      BY <1>5, <1>6, <1>8 DEF DropShell, Live, RemoteOf
    <2>b. /\ sync_sessions' = sync_sessions /\ DOMAIN sessions' = DOMAIN sessions \ {l}
          /\ \A k \in DOMAIN sessions' : sessions'[k] = sessions[k]
      BY <1>8 DEF DropShell, Forget, remove
    <2>c. \A q : Shells(q)' = Shells(q) \ {l} /\ Syncs(q)' = Syncs(q) \ {l}
      BY <1>1, <2>a, <2>b DEF Shells, Syncs, active_ids
    <2>d. l \in Shells(r) /\ \A k \in active_ids \ {l} : sessions'[k].v2 = sessions[k].v2
      BY <1>1, <2>a, <2>b DEF Shells, active_ids
    <2> QED
      BY <1>7, <2>a, <2>c, <2>d
  <1>9. CASE DropSync(l)
    <2>a. /\ l \in DOMAIN sync_sessions /\ l \notin active_ids
          /\ sync_sessions[l] = r /\ sendq' = <<clse(l, r)>>
      BY <1>5, <1>9 DEF DropSync, Live, RemoteOf
    <2>b. /\ sessions' = sessions /\ DOMAIN sync_sessions' = DOMAIN sync_sessions \ {l}
          /\ \A k \in DOMAIN sync_sessions' : sync_sessions'[k] = sync_sessions[k]
      BY <1>9 DEF DropSync, remove
    <2>c. \A q : Shells(q)' = Shells(q) \ {l} /\ Syncs(q)' = Syncs(q) \ {l}
      BY <1>1, <2>a, <2>b DEF Shells, Syncs, active_ids
    <2>d. l \in Syncs(r) /\ \A k \in active_ids \ {l} : sessions'[k].v2 = sessions[k].v2
      BY <1>1, <2>a, <2>b DEF Syncs
    <2> QED
      BY <1>7, <2>a, <2>c, <2>d
  <1>10. CASE DropNothing(l)
    <2>a. UNCHANGED <<sessions, sync_sessions, sendq>>
      BY <1>10 DEF DropNothing
    <2>b. Phase' = Phase /\ Lid' = Lid
      BY <1>1, <1>3, <2>a, QuietAlike, AllAlike DEF Speaking
    <2>c. Phase[r] \notin LivePhases
      <3>1. Shells(r) = {} /\ Syncs(r) = {}
        <4>1. l \notin Live /\ l = own[r]
          BY <1>2, <1>4, <1>10 DEF DropNothing, Live, Aimed
        <4> QED
          BY <4>1, Mine
      <3> QED
        BY <3>1 DEF Phase, PhaseOf, LivePhases
    <2> QED
      BY <1>1, <1>11, <2>a, <2>b, <2>c, SameWire, AsIgnore
  <1> QED
    BY <1>1, <1>4, <1>8, <1>9, <1>10

(* Steps in which the client sees nothing.                                 *)
LEMMA QuietRefines ==
  ASSUME UNCHANGED <<sessions, sync_sessions, cl, outbox, sendq, wrtes, peer, inbox>>,
         \/ pc \notin Speaking /\ pc' \notin Speaking
         \/ UNCHANGED <<pc, msg, cur>>
  PROVE  UNCHANGED Streams!svars
  <1>1. Phase' = Phase /\ Lid' = Lid
    BY QuietAlike, AllAlike DEF Pending, Heard, Rng
  <1> QED
    BY <1>1, SameWire, NothingHeard, AsStutter

(* Reads that are answered by nothing: OKAYs, since nothing else comes     *)
(* before the CNXN; and a conforming client ends none.                     *)
LEMMA ReadsRefine ==
  ASSUME NEW own, Base, Up(own), RInv, peer,
         HandleOther \/ ReadNothing \/ ReadFails, UNCHANGED client
  PROVE  Streams!Next \/ UNCHANGED Streams!svars
  <1>1. CASE HandleOther
    <2>pick. PICK m : m = Head(inbox)
      OBVIOUS
    <2>a. /\ inbox # <<>> /\ inbox' = Tail(inbox) /\ pc = "read" /\ pc' = "begin"
          /\ UNCHANGED <<sessions, sync_sessions, cl, outbox, sendq, wrtes, peer>>
          /\ m.cmd = "OKAY" \/ (~connected /\ m.cmd \in {"OPEN", "WRTE", "CLSE"})
      BY <1>1, <2>pick DEF HandleOther, At, tables, poll, client
    <2>b. m \in Heard
      BY <2>pick, <2>a, HeadHeard
    <2>c. m.cmd = "OKAY"
      <3>1. ~connected => m.cmd = "CNXN"
        BY <2>a, <2>b DEF RInv, Unconnected, NothingAsked
      <3> QED
        BY <2>a, <3>1
    <2>d. PICK r \in RemoteIds : r = m.arg0
      BY <2>b, <2>c DEF Up, Words, Asks, StreamCmds, Aimed
    <2>e. Hearing("OKAY", r)
      BY <2>pick, <2>a, <2>c, <2>d, ReadHears
    <2>f. Phase' = Phase /\ Lid' = Lid
      BY <2>pick, <2>a, <2>c, ReadKeeps, QuietAlike, AllAlike DEF Speaking
    <2> QED
      BY <2>a, <2>e, <2>f, SameWire, AsIgnore
  <1>2. CASE ReadNothing
    BY <1>2, QuietRefines DEF ReadNothing, At, tables, poll, client, Speaking
  <1>3. ~ReadFails
    BY HeadHeard DEF ReadFails, Up, Turns, Opens
  <1> QED
    BY <1>1, <1>2, <1>3

(* The tables are cleared after the banner has closed their streams.       *)
LEMMA FinishCnxnRefines ==
  ASSUME FinishCnxn, UNCHANGED client
  PROVE  UNCHANGED Streams!svars
  <1>1. /\ pc = "cnxn" /\ sessions' = EmptyMap /\ sync_sessions' = EmptyMap
        /\ UNCHANGED <<outbox, sendq, wrtes, peer, cl, inbox>>
    BY DEF FinishCnxn, At, clear, poll, client
  <1>2. \A q : Shells(q) = {} /\ Syncs(q) = {} /\ Shells(q)' = {} /\ Syncs(q)' = {}
    BY <1>1 DEF Shells, Syncs, active_ids, EmptyMap
  <1>3. \A q \in RemoteIds : Alike(q)
    BY <1>1, <1>2 DEF Alike, Owed, Pending, Heard, Rng
  <1>4. Phase' = Phase /\ Lid' = Lid
    BY <1>1, <1>3, AllAlike
  <1> QED
    BY <1>1, <1>4, SameWire, NothingHeard, AsStutter

(* A sync session answers its own stream.                                  *)
LEMMA AnswerSyncRefines ==
  ASSUME NEW own, Base, Up(own), RInv, peer, ApplySync \/ ApplySyncQuit, UNCHANGED client
  PROVE  Streams!Next
  <1>0. Aimed(own, msg) /\ pc = "wrte" /\ sendq = <<>> /\ msg.arg1 \in DOMAIN sync_sessions
    BY DEF ApplySync, ApplySyncQuit, AnswerSync, At, Up, Words, Handles
  <1>1. PICK r \in RemoteIds, l \in LocalIds : r = msg.arg0 /\ l = msg.arg1
    BY <1>0, Owned
  <1>2. /\ UNCHANGED <<outbox, wrtes, peer, cl, sessions, sync_sessions, inbox>>
        /\ Pending' = Pending /\ wrtes = <<>>
    BY <1>0 DEF ApplySync, ApplySyncQuit, AnswerSync, tables, poll, client, Pending, Heard, Rng,
       RInv, Drained
  <1>3. l \in Syncs(r) /\ l \notin active_ids
    <2>a. active_ids \cap DOMAIN sync_sessions = {}
      BY DEF Up, Turns, Ahead, Base, IInv, IdsFresh
    <2>b. l \in Live /\ l \notin active_ids
      BY <1>0, <1>1, <2>a DEF Live
    <2>c. sync_sessions[l] = r
      BY <1>0, <1>1, <2>b, Owned DEF RemoteOf
    <2> QED
      BY <1>0, <1>1, <2>b, <2>c DEF Syncs
  <1>4. Phase[r] = "answering" /\ Lid[r] = l
    BY <1>0, <1>1, <1>3, LiveSync DEF Owed
  <1>5. ASSUME NEW n \in 0 .. MaxChunks
        PROVE  [i \in 1 .. n |-> wrte(l, r, "sync")] \in Seq(DaemonMsg)
    <2>a. n \in Nat /\ wrte(l, r, "sync") \in DaemonMsg
      BY MaxChunksAssumption DEF wrte, DaemonMsg, Payloads
    <2> QED
      BY <2>a
  <1>6. CASE ApplySync
    <2>a. PICK n \in 0 .. MaxChunks : sendq' = [i \in 1 .. n |-> wrte(l, r, "sync")] \o <<>>
      BY <1>1, <1>6 DEF ApplySync, AnswerSync
    <2>b. sendq' = [i \in 1 .. n |-> wrte(Lid[r], r, "sync")]
      BY <1>4, <1>5, <2>a, ConcatEmptySeq
    <2>c. Wire' = Wire \o [i \in 1 .. n |-> wrte(Lid[r], r, "sync")]
      BY <1>0, <1>2, <1>4, <1>5, <2>b, SaysWire
    <2>d. pc' = "begin"
      BY <1>6 DEF ApplySync
    <2>e. /\ \A q : Shells(q)' = Shells(q) /\ Syncs(q)' = Syncs(q)
          /\ \A q : ~Owed(q)' /\ (Owed(q) <=> q = r)
      BY <1>0, <1>1, <1>2, <2>d DEF Shells, Syncs, active_ids, Owed
    <2>f. \A q \in RemoteIds \ {r} : Alike(q)
      BY <1>2, <2>e DEF Alike
    <2>g. PhaseOf(r)' = "sync" /\ IdOf(r)' = IdOf(r)
      <3>1. Shells(r)' = {} /\ Syncs(r)' = {l} /\ cl'[r] # "fresh" /\ ~Asked(r)'
        BY <1>2, <1>3, <2>e, LiveSync, Mine, AskedPending
      <3> QED
        BY <1>2, <2>e, <3>1 DEF PhaseOf, IdOf
    <2>h. Phase' = [Phase EXCEPT ![r] = "sync"] /\ Lid' = Lid
      <3>1. Phase' = [Phase EXCEPT ![r] = "sync"] /\ Lid' = [Lid EXCEPT ![r] = IdOf(r)]
        BY <1>2, <2>f, <2>g, AlikeBut
      <3> QED
        BY <3>1 DEF Lid
    <2> QED
      BY <1>2, <1>4, <2>c, <2>h, NothingHeard, AsSyncAnswer
  <1>7. CASE ApplySyncQuit
    <2>a. PICK n \in 0 .. MaxChunks :
             sendq' = [i \in 1 .. n |-> wrte(l, r, "sync")] \o <<clse(l, r)>>
      BY <1>1, <1>7 DEF ApplySyncQuit, AnswerSync
    <2>b. clse(l, r) \in DaemonMsg
      BY DEF clse, DaemonMsg, Payloads
    <2>c. PICK c \in Seq(DaemonMsg) : c = [i \in 1 .. n |-> wrte(l, r, "sync")]
      BY <1>5
    <2>d. sendq' = Append(c, clse(l, r)) /\ sendq' \in Seq(DaemonMsg)
      BY <2>a, <2>b, <2>c, AppendIsConcat
    <2>e. Wire' = Wire \o Append(c, clse(l, r))
      BY <1>0, <1>2, <2>d, SaysWire
    <2>f. pc' = "unsync" /\ msg' = msg
      BY <1>7 DEF ApplySyncQuit
    <2>g. \A q : Shells(q)' = Shells(q) \ {l} /\ Syncs(q)' = Syncs(q) \ {l}
      BY <1>0, <1>1, <1>2, <1>3, <2>f DEF Shells, Syncs, active_ids
    <2>h. Phase' = [Phase EXCEPT ![r] = "closed"] /\ Lid' = [Lid EXCEPT ![r] = 0]
      <3>1. \A q \in RemoteIds \ {r} : Owed(q)' <=> Owed(q)
        BY <1>1, <2>f DEF Owed
      <3> QED
        BY <1>2, <1>3, <2>g, <3>1, Ending
    <2> QED
      BY <1>2, <1>4, <2>c, <2>e, <2>h, NothingHeard, AsSyncQuit
  <1> QED
    BY <1>6, <1>7

(* The session goes after its CLSE has closed the stream.                  *)
LEMMA FinishSyncQuitRefines ==
  ASSUME FinishSyncQuit, UNCHANGED client
  PROVE  UNCHANGED Streams!svars
  <1>1. /\ pc = "unsync" /\ pc' = "begin" /\ sync_sessions' = remove(sync_sessions, msg.arg1)
        /\ UNCHANGED <<sessions, outbox, sendq, wrtes, peer, cl, inbox>>
    BY DEF FinishSyncQuit, At, poll, client
  <1>2. /\ DOMAIN sync_sessions' = DOMAIN sync_sessions \ {msg.arg1}
        /\ \A l \in DOMAIN sync_sessions' : sync_sessions'[l] = sync_sessions[l]
    BY <1>1 DEF remove
  <1>3. \A q : Shells(q)' = Shells(q) /\ Syncs(q)' = Syncs(q)
    BY <1>1, <1>2 DEF Shells, Syncs, active_ids
  <1>4. \A q \in RemoteIds : Alike(q)
    BY <1>1, <1>3 DEF Alike, Owed, Pending, Heard, Rng
  <1>5. Phase' = Phase /\ Lid' = Lid
    BY <1>1, <1>4, AllAlike
  <1> QED
    BY <1>1, <1>5, SameWire, NothingHeard, AsStutter

(* A shell's input shows to nobody; no sync stream was owed an answer.     *)
LEMMA ApplyShellRefines ==
  ASSUME NEW own, Base, Up(own), peer, ApplyShell, UNCHANGED client
  PROVE  UNCHANGED Streams!svars
  <1>1. /\ pc = "wrte" /\ pc' = "begin" /\ msg.arg1 \notin DOMAIN sync_sessions
        /\ UNCHANGED <<sessions, sync_sessions, cl, outbox, sendq, wrtes, peer, inbox>>
    BY DEF ApplyShell, At, tables, poll, client
  <1>2. Aimed(own, msg)
    BY <1>1 DEF Up, Words, Handles
  <1>3. \A q : Shells(q)' = Shells(q) /\ Syncs(q)' = Syncs(q)
    BY <1>1 DEF Shells, Syncs, active_ids
  <1>4. ASSUME NEW q \in RemoteIds, Owed(q), NEW k \in Syncs(q)
        PROVE  FALSE
    <2>a. k = own[q]
      BY <1>4, Mine
    <2>b. k = msg.arg1
      BY <1>2, <1>4, <2>a DEF Owed, Aimed
    <2> QED
      BY <1>1, <1>4, <2>b DEF Syncs
  <1>5. \A q \in RemoteIds : Alike(q)
    BY <1>1, <1>3, <1>4 DEF Alike, Owed, Pending, Heard, Rng
  <1>6. Phase' = Phase /\ Lid' = Lid
    BY <1>1, <1>5, AllAlike
  <1> QED
    BY <1>1, <1>6, SameWire, NothingHeard, AsStutter

(* The session being polled.                                               *)
LEMMA Polled ==
  ASSUME NEW own, Base, Up(own), peer, NEW id \in active_ids, pc \in {"poll", "stderr", "wait"}
  PROVE  /\ id \in LocalIds /\ sessions[id].remote \in RemoteIds
         /\ id \in Shells(sessions[id].remote) /\ id \notin DOMAIN sync_sessions
         /\ Phase[sessions[id].remote] = (IF sessions[id].v2 THEN "v2" ELSE "v1")
         /\ Lid[sessions[id].remote] = id
  <1>1. /\ id \in LocalIds /\ id \notin DOMAIN sync_sessions
        /\ sessions[id].remote \in RemoteIds
    <2>a. active_ids \cap DOMAIN sync_sessions = {} /\ active_ids \subseteq LocalIds
      BY DEF Up, Turns, Ahead, Base, IInv, IdsFresh, TypeOK, TablesOK
    <2> QED
      BY <2>a DEF Up, Ids, Tables, Live, RemoteOf
  <1>2. id \in Shells(sessions[id].remote)
    BY DEF Shells
  <1>3. /\ Phase[sessions[id].remote] = (IF sessions[id].v2 THEN "v2" ELSE "v1")
        /\ Lid[sessions[id].remote] = id
    BY <1>1, <1>2, LiveShell
  <1> QED
    BY <1>1, <1>2, <1>3

(* Output that was read is a WRTE of its stream; an empty read is none.    *)
LEMMA PushRefines ==
  ASSUME NEW own, Base, Up(own), RInv, peer, NEW id \in active_ids, NEW n, NEW p,
         pc \in {"poll", "stderr"}, pc' \in {"stderr", "wait"}, Push(id, n, p),
         IF sessions[id].v2 THEN p \in {"stdout", "stderr"} ELSE p = "raw",
         sendq = <<>>,
         UNCHANGED <<sessions, sync_sessions, cl, outbox, sendq, peer, inbox>>
  PROVE  Streams!Next \/ UNCHANGED Streams!svars
  <1>1. Pending' = Pending
    BY DEF Pending, Heard, Rng
  <1>2. CASE n = 0
    BY <1>2, QuietRefines DEF Push, Speaking
  <1>3. CASE n # 0
    <2>pick. PICK r \in RemoteIds : r = sessions[id].remote
      BY Polled
    <2>a. /\ id \in LocalIds /\ Lid[r] = id
          /\ Phase[r] = (IF sessions[id].v2 THEN "v2" ELSE "v1")
      BY <2>pick, Polled
    <2>b. wrte(id, r, p) \in DaemonMsg
      <3>1. p \in Payloads
        BY DEF Payloads
      <3> QED
        BY <2>a, <3>1 DEF wrte, DaemonMsg
    <2>c. wrtes' = Append(wrtes, wrte(id, r, p))
      BY <1>3, <2>pick DEF Push
    <2>d. Wire' = Wire \o <<wrte(id, r, p)>>
      BY <2>b, <2>c, PushWire
    <2>e. Phase' = Phase /\ Lid' = Lid
      BY <1>1, QuietAlike, AllAlike DEF Speaking
    <2> QED
      BY <2>a, <2>d, <2>e, NothingHeard, AsOutput
  <1> QED
    BY <1>2, <1>3

(* A read of stdout or stderr.                                             *)
LEMMA PollReadsRefine ==
  ASSUME NEW own, Base, Up(own), RInv, peer,
         (\E id \in LocalIds : PollStdout(id)) \/ PollStderr, UNCHANGED client
  PROVE  Streams!Next \/ UNCHANGED Streams!svars
  <1>1. ASSUME NEW id \in LocalIds, PollStdout(id)
        PROVE  Streams!Next \/ UNCHANGED Streams!svars
    <2>a. /\ pc = "poll" /\ sendq = <<>> /\ pc' \in {"stderr", "wait"} /\ id \in ids
          /\ UNCHANGED <<sessions, sync_sessions, cl, outbox, sendq, peer, inbox>>
      BY <1>1 DEF PollStdout, At, tables, client
    <2>b. id \in active_ids
      BY <2>a DEF Base, IInv, PollSnapshotLive
    <2>c. PICK n, p : Push(id, n, p) /\ p = IF sessions[id].v2 THEN "stdout" ELSE "raw"
      BY <1>1 DEF PollStdout
    <2> QED
      BY <2>a, <2>b, <2>c, PushRefines
  <1>2. CASE PollStderr
    <2>a. /\ pc = "stderr" /\ sendq = <<>> /\ pc' = "wait"
          /\ UNCHANGED <<sessions, sync_sessions, cl, outbox, sendq, peer, inbox>>
      BY <1>2 DEF PollStderr, At, tables, client
    <2>b. cur \in active_ids /\ sessions[cur].v2
      BY <2>a DEF Base, IInv, PollSnapshotLive, Polling, RInv, StderrV2
    <2>c. PICK n : Push(cur, n, "stderr")
      BY <1>2 DEF PollStderr
    <2> QED
      BY <2>a, <2>b, <2>c, PushRefines
  <1> QED
    BY <1>1, <1>2

(* What was read of a running shell goes from one queue to the next.       *)
LEMMA PollAliveRefines ==
  ASSUME Base, peer, PollAlive, UNCHANGED client
  PROVE  UNCHANGED Streams!svars
  <1>1. /\ pc = "wait" /\ pc' = "poll" /\ sendq = <<>> /\ sendq' = wrtes /\ wrtes' = <<>>
        /\ UNCHANGED <<sessions, sync_sessions, cl, outbox, peer, inbox>>
    BY DEF PollAlive, At, tables, client
  <1>2. Phase' = Phase /\ Lid' = Lid
    BY <1>1, QuietAlike, AllAlike DEF Pending, Heard, Rng, Speaking
  <1>3. Wire' = Wire
    <2>a. outbox \o <<>> = outbox /\ outbox \o wrtes \in Seq(DaemonMsg)
      BY WireTypes, ConcatEmptySeq, ConcatProperties
    <2>b. outbox \o wrtes \o <<>> = outbox \o wrtes
      BY <2>a, ConcatEmptySeq
    <2> QED
      BY <1>1, <2>a, <2>b DEF Wire
  <1> QED
    BY <1>1, <1>2, <1>3, NothingHeard, AsStutter

(* The end of a command: output read before, exit and CLSE, in this order. *)
LEMMA PollExitedRefines ==
  ASSUME NEW own, Base, Up(own), RInv, peer, PollExited, UNCHANGED client
  PROVE  Streams!Next
  <1>0. PICK l, r : l = cur /\ r = sessions[cur].remote
    OBVIOUS
  <1>1. /\ pc = "wait" /\ pc' = "close" /\ cur' = cur /\ sendq = <<>> /\ wrtes' = <<>>
        /\ sendq' = Farewell(l)
        /\ sessions' = [sessions EXCEPT ![l].finished = TRUE]
        /\ UNCHANGED <<sync_sessions, cl, outbox, peer, inbox>>
    BY <1>0 DEF PollExited, At, client
  <1>2. l \in active_ids
    BY <1>0, <1>1 DEF Base, IInv, PollSnapshotLive, Polling
  <1>3. /\ l \in LocalIds /\ r \in RemoteIds /\ l \in Shells(r) /\ l \notin DOMAIN sync_sessions
        /\ Phase[r] = (IF sessions[l].v2 THEN "v2" ELSE "v1") /\ Lid[r] = l
    BY <1>0, <1>1, <1>2, Polled
  <1>4. /\ DOMAIN sessions' = DOMAIN sessions
        /\ \A k \in active_ids :
              sessions'[k].v2 = sessions[k].v2 /\ sessions'[k].remote = sessions[k].remote
    <2>a. sessions \in [active_ids -> Session]
      BY DEF Base, IInv, TypeOK, TablesOK
    <2>b. \A k \in active_ids : sessions'[k] = IF k = l THEN [sessions[k] EXCEPT !.finished = TRUE]
                                               ELSE sessions[k]
      BY <1>1, <2>a
    <2>c. \A k \in active_ids : sessions[k] \in Session
      BY <2>a
    <2> QED
      BY <1>1, <2>a, <2>b, <2>c DEF Session
  <1>5. \A q : Shells(q)' = Shells(q) \ {l} /\ Syncs(q)' = Syncs(q) \ {l}
    BY <1>0, <1>1, <1>3, <1>4 DEF Shells, Syncs, active_ids
  <1>6. Phase' = [Phase EXCEPT ![r] = "closed"] /\ Lid' = [Lid EXCEPT ![r] = 0]
    <2>a. Pending' = Pending
      BY <1>1 DEF Pending, Heard, Rng
    <2>b. \A q : ~Owed(q) /\ ~Owed(q)'
      BY <1>1 DEF Owed
    <2> QED
      BY <1>1, <1>3, <1>4, <1>5, <2>a, <2>b, Ending
  <1>7. PICK x : x = ExitFrame(l) \o <<clse(l, r)>>
    OBVIOUS
  <1>8. clse(l, r) \in DaemonMsg /\ ExitFrame(l) \in Seq(DaemonMsg) /\ x \in Seq(DaemonMsg)
    <2>a. clse(l, r) \in DaemonMsg /\ wrte(l, r, "exit") \in DaemonMsg
      BY <1>3, AnswerType, WrteType DEF Payloads
    <2>b. ExitFrame(l) \in Seq(DaemonMsg)
      BY <1>0, <2>a DEF ExitFrame
    <2> QED
      BY <1>7, <2>a, <2>b, ConcatProperties
  <1>9. Farewell(l) = wrtes \o x
    <2>a. wrtes \o ExitFrame(l) \in Seq(DaemonMsg)
      BY <1>8, WireTypes, ConcatProperties
    <2>b. Append(wrtes \o ExitFrame(l), clse(l, r)) = (wrtes \o ExitFrame(l)) \o <<clse(l, r)>>
      BY <1>8, <2>a, AppendIsConcat
    <2>c. <<clse(l, r)>> \in Seq(DaemonMsg)
      BY <1>8
    <2>d. (wrtes \o ExitFrame(l)) \o <<clse(l, r)>> = wrtes \o x
      BY <1>7, <1>8, <2>c, WireTypes, Assoc
    <2> QED
      BY <1>0, <2>b, <2>d DEF Farewell
  <1>10. Wire' = Wire \o x
    BY <1>1, <1>8, <1>9, FlushWire
  <1>11. x = (IF Phase[r] = "v2" THEN <<wrte(Lid[r], r, "exit")>> ELSE <<>>) \o <<clse(Lid[r], r)>>
    BY <1>0, <1>3, <1>7 DEF ExitFrame
  <1> QED
    BY <1>1, <1>3, <1>6, <1>10, <1>11, NothingHeard, AsExit

(* The session goes after its CLSE has closed the stream.                  *)
LEMMA PollCloseRefines ==
  ASSUME PollClose, UNCHANGED client
  PROVE  UNCHANGED Streams!svars
  <1>1. /\ pc = "close" /\ pc' = "poll" /\ sessions' = remove(sessions, cur)
        /\ UNCHANGED <<sync_sessions, outbox, sendq, wrtes, peer, cl, inbox>>
    BY DEF PollClose, Forget, At, client
  <1>2. /\ DOMAIN sessions' = DOMAIN sessions \ {cur}
        /\ \A l \in DOMAIN sessions' : sessions'[l] = sessions[l]
    BY <1>1 DEF remove
  <1>3. \A q : Shells(q)' = Shells(q) /\ Syncs(q)' = Syncs(q)
    BY <1>1, <1>2 DEF Shells, Syncs, active_ids
  <1>4. \A q : \A l \in Shells(q) : sessions'[l].v2 = sessions[l].v2
    BY <1>1, <1>2 DEF Shells, active_ids
  <1>5. \A q \in RemoteIds : Alike(q)
    BY <1>1, <1>3, <1>4 DEF Alike, Owed, Pending, Heard, Rng
  <1>6. Phase' = Phase /\ Lid' = Lid
    BY <1>1, <1>5, AllAlike
  <1> QED
    BY <1>1, <1>6, SameWire, NothingHeard, AsStutter

(* A message that leaves the daemon was on the wire already.               *)
LEMMA SendsRefine ==
  ASSUME Base, peer, Send \/ SendFails, UNCHANGED client
  PROVE  UNCHANGED Streams!svars
  <1>1. Send
    BY DEF SendFails
  <1>2. UNCHANGED <<sessions, sync_sessions, cl, pc, msg, cur, peer, inbox>>
    BY <1>1 DEF Send, tables, poll, client
  <1>3. Phase' = Phase /\ Lid' = Lid
    BY <1>2, QuietAlike, AllAlike DEF Pending, Heard, Rng
  <1> QED
    BY <1>1, <1>2, <1>3, SendWire, NothingHeard, AsStutter

(* Every step of the daemon and its shells, while the client is there.     *)
LEMMA DaemonRefines ==
  ASSUME NEW own, Base, Up(own), RInv, peer, Daemon \/ Kids \/ Terminated, UNCHANGED client
  PROVE  Streams!Next \/ UNCHANGED Streams!svars
  <1>1. CASE HandleCnxn \/ OpenShell \/ OpenShellFails \/ OpenSync \/ OpenOther \/ HandleWrte
    BY <1>1, HandleCnxnRefines, OpensRefine, HandleWrteRefines
  <1>2. CASE HandleClse
    BY <1>2, HandleClseRefines
  <1>3. CASE HandleOther \/ ReadNothing \/ ReadFails
    BY <1>3, ReadsRefine
  <1>4. CASE FinishCnxn \/ ApplySyncQuit \/ FinishSyncQuit \/ ApplySync
    BY <1>4, FinishCnxnRefines, AnswerSyncRefines, FinishSyncQuitRefines
  <1>5. CASE ApplyShell \/ BeginPoll \/ EndPoll
    BY <1>5, ApplyShellRefines, QuietRefines
    DEF BeginPoll, EndPoll, At, tables, poll, client, Speaking
  <1>6. CASE (\E id \in LocalIds : PollStdout(id)) \/ PollStderr
    BY <1>6, PollReadsRefine
  <1>7. CASE PollAlive \/ PollExited \/ PollClose
    BY <1>7, PollAliveRefines, PollExitedRefines, PollCloseRefines
  <1>8. CASE Send \/ SendFails
    BY <1>8, SendsRefine
  <1>9. CASE Kids \/ Terminated
    BY <1>9, QuietRefines DEF Kids, KidWrites, KidExits, Terminated, vars, tables, poll, client
  <1> QED
    BY <1>1, <1>2, <1>3, <1>4, <1>5, <1>6, <1>7, <1>8, <1>9
    DEF Daemon, ReadMessage, Finish, PollShells

--------------------------------
(* The client's steps.                                                     *)

(* What the client's word adds to the requests.                            *)
LEMMA SendsPending ==
  ASSUME Base, NEW m \in PeerMsg, inbox' = Append(inbox, m)
  PROVE  Pending' = Pending \cup (IF m.cmd = "OPEN" THEN {m.arg0} ELSE {})
  <1>1. inbox \in Seq(PeerMsg)
    BY DEF Base, IInv, TypeOK, QueuesOK
  <1>2. Heard' = Heard \cup {m}
    BY <1>1, RngAppend DEF Heard
  <1> QED
    BY <1>2 DEF Pending

(* What the client says about streams it has, or says anew, changes none.  *)
LEMMA SpeaksAlike ==
  ASSUME Base, NEW m \in PeerMsg, m.cmd # "OPEN", PeerSends(m),
         \A r \in RemoteIds : cl'[r] = "fresh" <=> cl[r] = "fresh"
  PROVE  /\ Phase' = Phase /\ Lid' = Lid /\ Wire' = Wire
         /\ Asking(m.cmd, IF m.cmd = "CNXN" THEN 0 ELSE m.arg0)
  <1>1. /\ UNCHANGED <<sessions, sync_sessions, pc, msg, cur, outbox, sendq, wrtes, peer>>
        /\ inbox' = Append(inbox, m) /\ peer
    BY DEF PeerSends, tables, poll
  <1>2. Pending' = Pending
    BY <1>1, SendsPending
  <1>3. \A q : Shells(q)' = Shells(q) /\ Syncs(q)' = Syncs(q) /\ (Owed(q)' <=> Owed(q))
    BY <1>1 DEF Shells, Syncs, active_ids, Owed
  <1>4. \A q \in RemoteIds : Alike(q)
    BY <1>1, <1>2, <1>3 DEF Alike
  <1>5. Phase' = Phase /\ Lid' = Lid
    BY <1>1, <1>4, AllAlike
  <1> QED
    BY <1>1, <1>5, SameWire, SentAsks

(* A message for a stream is sent once its OPEN has been answered.         *)
LEMMA SpeaksRefine ==
  ASSUME NEW own, Base, Up(own), NEW r \in RemoteIds,
         ClientWrites(r) \/ ClientAcks(r) \/ ClientCloses(r)
  PROVE  Streams!Next
  <1>1. PICK c \in {"OKAY", "CLSE", "WRTE"} : PeerSends(PeerStream(c, r, loc[r]))
    BY DEF ClientWrites, ClientAcks, ClientCloses
  <1>2. PICK m \in PeerMsg : m = PeerStream(c, r, loc[r])
    BY DEF PeerStream, PeerMsg, Base, ClientOK
  <1>3. m.cmd = c /\ m.arg0 = r
    BY <1>2 DEF PeerStream
  <1>4. \A q \in RemoteIds : cl'[q] = "fresh" <=> cl[q] = "fresh"
    BY DEF ClientWrites, ClientAcks, ClientCloses, client, Base, ClientOK
  <1>5. Phase' = Phase /\ Lid' = Lid /\ Wire' = Wire /\ Asking(c, r)
    BY <1>1, <1>2, <1>3, <1>4, SpeaksAlike
  <1>6. cl[r] \in {"open", "half"} /\ own[r] # 0
    BY DEF ClientWrites, ClientAcks, ClientCloses, Up, Words, Knows
  <1>7. ~Asked(r)
    BY <1>6, AskedPending DEF Up, Ids, Unasked
  <1>8. Phase[r] \notin {"idle", "asked"}
    BY <1>6, <1>7 DEF Phase, PhaseOf
  <1> QED
    BY <1>5, <1>8, AsSpeak

(* An OPEN is a request for a stream that was idle.                        *)
LEMMA ClientOpensRefines ==
  ASSUME NEW own, Base, Up(own), peer, NEW r \in RemoteIds, NEW d \in Dests, ClientOpens(r, d)
  PROVE  Streams!Next
  <1>1. /\ UNCHANGED <<sessions, sync_sessions, pc, msg, cur, outbox, sendq, wrtes, peer>>
        /\ inbox' = Append(inbox, PeerOpen(r, d))
        /\ cl[r] = "fresh" /\ cl' = [cl EXCEPT ![r] = "opening"]
    BY DEF ClientOpens, PeerSends, tables, poll
  <1>2. PeerOpen(r, d) \in PeerMsg /\ PeerOpen(r, d).cmd = "OPEN" /\ PeerOpen(r, d).arg0 = r
    BY ZeroOne DEF PeerOpen, PeerMsg
  <1>3. Pending' = Pending \cup {r}
    BY <1>1, <1>2, SendsPending
  <1>4. r \notin Pending
    BY <1>1 DEF Up, Turns, Opens, Pending
  <1>5. \A q : Shells(q)' = Shells(q) /\ Syncs(q)' = Syncs(q) /\ (Owed(q)' <=> Owed(q))
    BY <1>1 DEF Shells, Syncs, active_ids, Owed
  <1>6. \A q \in RemoteIds \ {r} : Alike(q)
    BY <1>1, <1>3, <1>5 DEF Alike, Base, ClientOK
  <1>7. Phase[r] = "idle" /\ PhaseOf(r)' = "asked"
    BY <1>1, <1>3, <1>4, AskedPending DEF Phase, PhaseOf
  <1>8. IdOf(r)' = Lid[r]
    <2>a. Shells(r)' = Shells(r) /\ Syncs(r)' = Syncs(r) /\ peer' = peer
      BY <1>1, <1>5
    <2>b. IdOf(r)' = IdOf(r)
      BY <2>a DEF IdOf
    <2> QED
      BY <2>b DEF Lid
  <1>9. Phase' = [Phase EXCEPT ![r] = "asked"] /\ Lid' = Lid
    <2>a. Phase' = [Phase EXCEPT ![r] = "asked"] /\ Lid' = [Lid EXCEPT ![r] = Lid[r]]
      BY <1>1, <1>6, <1>7, <1>8, AlikeBut
    <2> QED
      BY <2>a DEF Lid
  <1> QED
    BY <1>1, <1>2, <1>7, <1>9, SameWire, SentAsks, AsRequest

(* The client takes a message off the wire.                                *)
LEMMA ClientReceivesRefines ==
  ASSUME Base, peer, ClientReceives
  PROVE  Streams!Next
  <1>1. /\ UNCHANGED <<sessions, sync_sessions, pc, msg, cur, inbox, sendq, wrtes, peer>>
        /\ outbox # <<>> /\ outbox' = Tail(outbox) /\ Takes(Head(outbox))
    BY DEF ClientReceives, PeerReceives, tables, poll
  <1>2. \A r \in RemoteIds : cl'[r] = "fresh" <=> cl[r] = "fresh"
    BY <1>1 DEF Takes, client, Base, ClientOK
  <1>3. \A q : Shells(q)' = Shells(q) /\ Syncs(q)' = Syncs(q) /\ (Owed(q)' <=> Owed(q))
    BY <1>1 DEF Shells, Syncs, active_ids, Owed
  <1>4. \A q \in RemoteIds : Alike(q)
    BY <1>1, <1>2, <1>3 DEF Alike, Pending, Heard, Rng
  <1>5. Phase' = Phase /\ Lid' = Lid
    BY <1>1, <1>4, AllAlike
  <1> QED
    BY <1>1, <1>5, TakeWire, NothingHeard, AsTake

(* Every step of the client, until it hangs up.                            *)
LEMMA ClientRefines ==
  ASSUME NEW own, Base, Up(own), peer, ClientStep
  PROVE  Streams!Next
  <1>1. CASE ClientConnects
    <2>a. PeerCnxn \in PeerMsg /\ PeerCnxn.cmd = "CNXN"
      BY ZeroOne DEF PeerCnxn, PeerMsg
    <2>b. \A r \in RemoteIds : cl'[r] = "fresh" <=> cl[r] = "fresh"
      BY <1>1 DEF ClientConnects
    <2>c. Phase' = Phase /\ Lid' = Lid /\ Wire' = Wire /\ Asking("CNXN", 0)
      BY <1>1, <2>a, <2>b, SpeaksAlike DEF ClientConnects
    <2> QED
      BY <2>c, AsConnect
  <1>2. CASE ClientHangsUp
    BY <1>2, AsDown DEF ClientHangsUp, PeerHangsUp
  <1> QED
    BY <1>1, <1>2, SpeaksRefine, ClientOpensRefines, ClientReceivesRefines DEF ClientStep

--------------------------------
(* The rest of the invariant.                                              *)

(* At first nothing is queued and no connection is up.                     *)
LEMMA RInit == SysInit => RInv
  <1> SUFFICES ASSUME SysInit PROVE RInv
    OBVIOUS
  <1>1. /\ wrtes = <<>> /\ inbox = <<>> /\ outbox = <<>> /\ sendq = <<>>
        /\ pc = "read" /\ link = "down" /\ \A r \in RemoteIds : cl[r] = "fresh"
    BY DEF SysInit, Init, ClientInit
  <1>2. Heard = {} /\ Sent = {}
    BY <1>1, RngEmpty DEF Heard, Sent
  <1> QED
    BY <1>1, <1>2 DEF RInv, Drained, StderrV2, Unconnected, NothingAsked

(* What a poll queues is taken over before the next begins.                *)
LEMMA DrainedStep ==
  ASSUME Drained, [SysNext]_sysvars
  PROVE  Drained'
  BY DEF Drained, SysNext, sysvars, vars, poll, Daemon, ReadMessage, HandleCnxn, OpenShell,
     OpenShellFails, OpenSync, OpenOther, OpenAs, HandleWrte, HandleClse, HandleOther, ReadFails,
     ReadNothing, Read, At, Finish, FinishCnxn, ApplySync, ApplySyncQuit, AnswerSync,
     FinishSyncQuit, ApplyShell, PollShells, BeginPoll, EndPoll, PollStdout, PollStderr, PollAlive,
     PollExited, PollClose, Send, SendFails, Return, Kids, KidWrites, KidExits, Terminated,
     ClientStep, ClientConnects, ClientOpens, ClientWrites, ClientAcks, ClientCloses,
     ClientReceives, ClientHangsUp, PeerSends, PeerReceives, PeerHangsUp

(* Only a v2 session's stderr is read.                                     *)
LEMMA StderrStep ==
  ASSUME StderrV2, [SysNext]_sysvars
  PROVE  StderrV2'
  BY DEF StderrV2, SysNext, sysvars, vars, poll, tables, Daemon, ReadMessage, HandleCnxn, OpenShell,
     OpenShellFails, OpenSync, OpenOther, OpenAs, HandleWrte, HandleClse, HandleOther, ReadFails,
     ReadNothing, Read, At, Finish, FinishCnxn, ApplySync, ApplySyncQuit, AnswerSync,
     FinishSyncQuit, ApplyShell, PollShells, BeginPoll, EndPoll, PollStdout, PollStderr, PollAlive,
     PollExited, PollClose, Send, SendFails, Return, Kids, KidWrites, KidExits, Terminated,
     ClientStep, ClientConnects, ClientOpens, ClientWrites, ClientAcks, ClientCloses,
     ClientReceives, ClientHangsUp, PeerSends, PeerReceives, PeerHangsUp

(* Before the first banner is on the wire the client has opened nothing.   *)
LEMMA UnconnectedStep ==
  ASSUME Base, Unconnected, [SysNext]_sysvars
  PROVE  Unconnected'
  <1> SUFFICES ASSUME ~connected', pc' \notin {"cnxn", "done"}
               PROVE  NothingAsked'
    BY DEF Unconnected
  <1>1. ~connected
    BY DEF SysNext, sysvars, vars, Daemon, ReadMessage, HandleCnxn, OpenShell, OpenShellFails,
       OpenSync, OpenOther, OpenAs, HandleWrte, HandleClse, HandleOther, ReadFails, ReadNothing,
       Finish, FinishCnxn, ApplySync, ApplySyncQuit, AnswerSync, FinishSyncQuit, ApplyShell,
       PollShells, BeginPoll, EndPoll, PollStdout, PollStderr, PollAlive, PollExited, PollClose,
       Send, SendFails, Return, Kids, KidWrites, KidExits, Terminated,
       ClientStep, ClientConnects, ClientOpens, ClientWrites, ClientAcks, ClientCloses,
       ClientReceives, ClientHangsUp, PeerSends, PeerReceives, PeerHangsUp
  <1>2. pc \notin {"cnxn", "done"}
    BY <1>1 DEF SysNext, sysvars, vars, Daemon, ReadMessage, HandleCnxn, OpenShell, OpenShellFails,
       OpenSync, OpenOther, OpenAs, HandleWrte, HandleClse, HandleOther, ReadFails, ReadNothing,
       Finish, FinishCnxn, ApplySync, ApplySyncQuit, AnswerSync, FinishSyncQuit, ApplyShell,
       Read, At,
       PollShells, BeginPoll, EndPoll, PollStdout, PollStderr, PollAlive, PollExited, PollClose,
       Send, SendFails, Return, Kids, KidWrites, KidExits, Terminated,
       ClientStep, ClientConnects, ClientOpens, ClientWrites, ClientAcks, ClientCloses,
       ClientReceives, ClientHangsUp, PeerSends, PeerReceives, PeerHangsUp
  <1>3. NothingAsked
    BY <1>1, <1>2 DEF Unconnected
  <1>4. Live = {} /\ wrtes = <<>>
    BY <1>1 DEF Base, IInv, HandshakeGate
  <1>5. (* a step that says nothing *)
        ASSUME link' = link, cl' = cl,
               inbox' = inbox \/ (inbox # <<>> /\ inbox' = Tail(inbox)),
               Sent' \subseteq Sent
        PROVE  NothingAsked'
    <2>a. Heard' \subseteq Heard
      BY <1>5, HeardLess DEF Base, IInv
    <2> QED
      BY <1>3, <1>5, <2>a DEF NothingAsked
  <1>6. CASE UNCHANGED sysvars
    BY <1>5, <1>6 DEF sysvars, vars, client, Sent, Rng
  <1>7. CASE (ReadMessage \/ ReadNothing) /\ UNCHANGED client
    <2>a. HandleOther \/ ReadNothing
      BY <1>1, <1>7 DEF ReadMessage, HandleCnxn, OpenShell, OpenShellFails, OpenSync, OpenOther,
         OpenAs, HandleWrte, HandleClse, ReadFails, Return
    <2> QED
      BY <1>5, <1>7, <2>a DEF HandleOther, ReadNothing, client, Sent, Rng
  <1>8. CASE Finish /\ UNCHANGED client
    <2>a. FinishSyncQuit \/ ApplyShell
      BY <1>4, <1>8, <1>2 DEF Finish, FinishCnxn, At, ApplySync, ApplySyncQuit, AnswerSync, Live
    <2> QED
      BY <1>5, <1>8, <2>a DEF FinishSyncQuit, ApplyShell, client, Sent, Rng
  <1>9. CASE PollShells /\ UNCHANGED client
    <2>a. ids = {} /\ pc \notin Polling
      BY <1>4 DEF Live, Base, IInv, PollSnapshotLive
    <2>b. BeginPoll \/ EndPoll
      BY <1>9, <2>a DEF PollShells, PollStdout, PollStderr, PollAlive, PollExited, PollClose,
         At, Polling
    <2> QED
      BY <1>5, <1>9, <2>b DEF BeginPoll, EndPoll, client, poll, Sent, Rng
  <1>10. CASE (Send \/ SendFails) /\ UNCHANGED client
    <2>a. inbox' = inbox /\ link' = link /\ cl' = cl /\ Sent' \subseteq Sent
      <3>1. CASE Send
        <4>1. /\ sendq # <<>> /\ sendq' = Tail(sendq) /\ inbox' = inbox
              /\ outbox' = (IF peer THEN Append(outbox, Head(sendq)) ELSE outbox)
          BY <3>1 DEF Send
        <4>2. outbox \in Seq(DaemonMsg) /\ sendq \in Seq(DaemonMsg) /\ Head(sendq) \in DaemonMsg
          BY <4>1, WireTypes
        <4>3. Rng(sendq') \subseteq Rng(sendq) /\ Head(sendq) \in Rng(sendq)
          BY <4>1, <4>2, RngTail
        <4>4. Rng(outbox') \subseteq Rng(outbox) \cup {Head(sendq)}
          BY <4>1, <4>2, RngAppend
        <4> QED
          BY <1>10, <4>1, <4>3, <4>4 DEF Sent, client, Rng
      <3>2. CASE SendFails
        <4>1. sendq' = <<>> /\ outbox' = outbox /\ inbox' = inbox
          BY <3>2 DEF SendFails, Return
        <4>2. Rng(sendq') = {}
          BY <4>1, RngEmpty
        <4> QED
          BY <1>10, <4>1, <4>2 DEF Sent, client, Rng
      <3> QED
        BY <1>10, <3>1, <3>2
    <2> QED
      BY <1>5, <2>a
  <1>11. CASE (Kids \/ Terminated) /\ UNCHANGED client
    BY <1>5, <1>11 DEF Kids, KidWrites, KidExits, Terminated, vars, client, Sent, Rng
  <1>12. CASE ClientConnects
    <2>a. PeerCnxn \in PeerMsg /\ PeerCnxn.cmd = "CNXN"
      BY ZeroOne DEF PeerCnxn, PeerMsg
    <2>b. /\ inbox' = Append(inbox, PeerCnxn) /\ link' = "waiting"
          /\ UNCHANGED <<outbox, sendq>>
          /\ \A r \in RemoteIds : cl[r] = "fresh" => cl'[r] = "fresh"
      BY <1>12 DEF ClientConnects, PeerSends
    <2>c. Heard' = Heard \cup {PeerCnxn}
      BY <2>a, <2>b, RngAppend DEF Heard, Base, IInv, TypeOK, QueuesOK
    <2> QED
      BY <1>3, <2>a, <2>b, <2>c DEF NothingAsked, Sent, Rng
  <1>13. \A r \in RemoteIds : ~ClientWrites(r) /\ ~ClientAcks(r) /\ ~ClientCloses(r)
    BY <1>3 DEF NothingAsked, ClientWrites, ClientAcks, ClientCloses
  <1>15. CASE ClientReceives
    <2>a. outbox # <<>> /\ outbox' = Tail(outbox) /\ UNCHANGED <<inbox, sendq>>
      BY <1>15 DEF ClientReceives, PeerReceives
    <2>b. outbox \in Seq(DaemonMsg)
      BY WireTypes
    <2>c. Head(outbox) \in Sent
      BY <2>a, <2>b, RngTail DEF Sent, Rng
    <2> QED
      BY <1>3, <2>c DEF NothingAsked
  <1>16. CASE ClientHangsUp
    <2>a. outbox' = <<>> /\ UNCHANGED <<inbox, sendq, link, cl>>
      BY <1>16 DEF ClientHangsUp, PeerHangsUp, client
    <2>b. Rng(outbox') = {}
      BY <2>a, RngEmpty
    <2> QED
      BY <1>5, <2>a, <2>b DEF Sent, Rng
  <1>17. \A r \in RemoteIds, d \in Dests : ~ClientOpens(r, d)
    BY <1>3 DEF ClientOpens, NothingAsked
  <1> QED
    BY <1>6, <1>7, <1>8, <1>9, <1>10, <1>11, <1>12, <1>13, <1>15, <1>16, <1>17
    DEF SysNext, Daemon, ClientStep

(* All three are kept.                                                     *)
LEMMA RStep ==
  ASSUME Base, RInv, [SysNext]_sysvars
  PROVE  RInv'
  BY DrainedStep, StderrStep, UnconnectedStep DEF RInv

--------------------------------
(* The theorem.                                                            *)

(* The first state is the promise's first.                                 *)
LEMMA RefInit == SysInit => Streams!Init
  <1> SUFFICES ASSUME SysInit PROVE Streams!Init
    OBVIOUS
  <1>1. /\ sessions = EmptyMap /\ sync_sessions = EmptyMap /\ peer = TRUE
        /\ outbox = <<>> /\ sendq = <<>> /\ wrtes = <<>> /\ inbox = <<>>
        /\ \A r \in RemoteIds : cl[r] = "fresh"
    BY DEF SysInit, Init, ClientInit
  <1>2. \A r : Shells(r) = {} /\ Syncs(r) = {} /\ ~Asked(r)
    <2>a. Pending = {}
      BY <1>1, RngEmpty DEF Pending, Heard
    <2>b. \A r : ~Asked(r)
      BY <2>a, AskedPending
    <2>c. DOMAIN sessions = {} /\ DOMAIN sync_sessions = {}
      BY <1>1 DEF EmptyMap
    <2> QED
      BY <2>b, <2>c DEF Shells, Syncs, active_ids
  <1>3. ASSUME NEW r \in RemoteIds
        PROVE  PhaseOf(r) = "idle" /\ IdOf(r) = 0
    <2>a. PhaseOf(r) = "idle"
      BY <1>1, <1>2 DEF PhaseOf
    <2>b. Shells(r) \cup Syncs(r) = {}
      BY <1>2
    <2>c. IdOf(r) = 0
      BY <2>b DEF IdOf
    <2> QED
      BY <2>a, <2>c
  <1>4. outbox \o sendq \o wrtes = <<>>
    BY <1>1
  <1>5. [i \in 1 .. Len(inbox) |-> AskOf(inbox[i])] = <<>>
    <2> DEFINE q == [i \in 1 .. Len(inbox) |-> AskOf(inbox[i])]
    <2>a. Len(inbox) = 0
      BY <1>1
    <2>b. q \in Seq({AskOf(inbox[i]) : i \in 1 .. Len(inbox)}) /\ Len(q) = 0
      BY <2>a
    <2> QED
      BY <2>b, EmptySeq
  <1> QED
    BY <1>1, <1>3, <1>4, <1>5 DEF Streams!Init

(* Nobody sees what happens after the client has gone.                     *)
LEMMA HungUp ==
  ASSUME ~peer, [SysNext]_sysvars
  PROVE  UNCHANGED Streams!svars
  <1>1. peer' = peer
    BY DEF SysNext, sysvars, vars, Daemon, ReadMessage, HandleCnxn, OpenShell, OpenShellFails,
       OpenSync, OpenOther, OpenAs, HandleWrte, HandleClse, HandleOther, ReadFails, ReadNothing,
       Finish, FinishCnxn, ApplySync, ApplySyncQuit, AnswerSync, FinishSyncQuit, ApplyShell,
       PollShells, BeginPoll, EndPoll, PollStdout, PollStderr, PollAlive, PollExited, PollClose,
       Send, SendFails, Return, Kids, KidWrites, KidExits, Terminated,
       ClientStep, ClientConnects, ClientOpens, ClientWrites, ClientAcks, ClientCloses,
       ClientReceives, ClientHangsUp, PeerSends, PeerReceives, PeerHangsUp
  <1>2. Phase' = Phase /\ Lid' = Lid /\ Wire' = Wire /\ Unheard
    BY <1>1 DEF Phase, PhaseOf, Lid, IdOf, Wire, Unheard, Queue
  <1> QED
    BY <1>2, AsStutter

(* Each step of the system is one of the promise or a stutter.             *)
LEMMA RefStep ==
  ASSUME Base, CrossInv, RInv, [SysNext]_sysvars
  PROVE  Streams!Next \/ UNCHANGED Streams!svars
  <1>1. CASE ~peer
    BY <1>1, HungUp
  <1>2. CASE peer
    <2>a. PICK own : Up(own)
      BY <1>2 DEF CrossInv, Gone
    <2>b. CASE UNCHANGED sysvars
      <3>1. /\ UNCHANGED <<sessions, sync_sessions, cl, outbox, sendq, wrtes, peer>>
            /\ UNCHANGED <<inbox, pc, msg, cur>>
        BY <2>b DEF sysvars, vars, tables, poll, client
      <3> QED
        BY <3>1, QuietRefines
    <2> QED
      BY <1>2, <2>a, <2>b, DaemonRefines, ClientRefines DEF SysNext
  <1> QED
    BY <1>1, <1>2

(* The daemon with a conforming client implements AdbStreams: each stream  *)
(* gets one answer to its OPEN, output only while it lives and under its   *)
(* own id, the exit right before the CLSE, one CLSE, and nothing but       *)
(* acknowledgements after it, however handler, shells and client meet.     *)
THEOREM StreamsImplemented ==
  ASSUME SmallIds
  PROVE  SysSpec => ImplementsStreams
  <1>1. IInv /\ ClientOK /\ RInv /\ [SysNext]_sysvars => RInv'
    BY RStep DEF Base
  <1>2. IInv /\ ClientOK /\ CrossInv /\ RInv /\ [SysNext]_sysvars
           => [Streams!Next]_Streams!svars
    BY RefStep DEF Base
  <1> QED
    BY <1>1, <1>2, RInit, RefInit, CrossInvariance, SystemInvariance, PTL
    DEF SysSpec, ImplementsStreams, Streams!Spec

--------------------------------
(* What the promise is worth: the theorems of AdbStreamsProofs, read on    *)
(* the daemon's own wire.  Promise maps AdbStreams as Streams does.        *)

Promise == INSTANCE AdbStreamsProofs WITH
    MaxAnswer <- MaxChunks,
    up    <- peer,
    phase <- [r \in RemoteIds |-> PhaseOf(r)],
    lid   <- [r \in RemoteIds |-> IdOf(r)],
    asks  <- IF peer THEN [i \in 1 .. Len(inbox) |-> AskOf(inbox[i])] ELSE <<>>,
    wire  <- IF peer THEN outbox \o sendq \o wrtes ELSE <<>>

(* What AdbStreams asks of its constants holds of the daemon's.            *)
LEMMA PromiseAssumptions ==
  /\ 0 \notin RemoteIds /\ MaxChunks \in Nat /\ RemoteIds \subseteq Nat
  /\ IdSpace \in Nat /\ IdSpace > 1 /\ Dests \subseteq Promise!DestSyntax
  <1>1. Dests \subseteq Promise!DestSyntax
    BY DestsAssumption, Zenon DEF Promise!DestSyntax, DestSyntax
  <1> QED
    BY <1>1, StreamIdsAssumption, MaxChunksAssumption, RemoteIdsAssumption, IdSpaceAssumption

(* AdbStreams is the same specification under both names.                  *)
LEMMA SameInit == Streams!Init => Promise!Init
  BY Zenon DEF Streams!Init, Promise!Init

LEMMA SameNext == [Streams!Next]_Streams!svars => [Promise!Next]_Promise!svars
  BY Zenon DEF Streams!Next, Promise!Next, Streams!svars, Promise!svars,
    Streams!StreamStep, Promise!StreamStep,
    Streams!Request, Promise!Request, Streams!Speak, Promise!Speak,
    Streams!Accept, Promise!Accept, Streams!Refuse, Promise!Refuse,
    Streams!Ack, Promise!Ack, Streams!SyncAnswer, Promise!SyncAnswer,
    Streams!SyncQuit, Promise!SyncQuit, Streams!Close, Promise!Close,
    Streams!Ignore, Promise!Ignore, Streams!Output, Promise!Output,
    Streams!Exit, Promise!Exit, Streams!Connect, Promise!Connect,
    Streams!Banner, Promise!Banner, Streams!Take, Promise!Take,
    Streams!Down, Promise!Down, Streams!Asks, Promise!Asks, Streams!ask, Promise!ask,
    Streams!Hears, Promise!Hears, Streams!Say, Promise!Say, Streams!Ends, Promise!Ends,
    Streams!Live, Promise!Live, Streams!LivePhases, Promise!LivePhases,
    Streams!Carries, Promise!Carries, Streams!Answer, Promise!Answer,
    Streams!okay, Promise!okay, Streams!clse, Promise!clse,
    Streams!wrte, Promise!wrte, Streams!cnxn, Promise!cnxn,
    Streams!LocalIds, Promise!LocalIds

(* The streams, and the wire a conforming client reads, keep what          *)
(* AdbStreams promises: nothing but acknowledgements after a stream's      *)
(* CLSE, each exit with its CLSE right behind it, one stream to a live id, *)
(* and no OPEN without its one answer, however handler, shells and client  *)
(* meet.                                                                   *)
THEOREM OnTheWire ==
  ASSUME SmallIds
  PROVE  SysSpec => [](/\ Streams!ClseIsLast /\ Streams!ExitThenClse
                       /\ Streams!LidsDistinct /\ Streams!Answerable)
  <1>1. SysSpec => Streams!Spec
    BY StreamsImplemented DEF ImplementsStreams
  <1>2. Streams!Spec => Promise!Spec
    BY SameInit, SameNext, PTL DEF Streams!Spec, Promise!Spec
  <1>3. Promise!Spec => []Promise!SInv
    BY Promise!StreamsInvariance, PromiseAssumptions
  <1>4. Promise!SInv => /\ Streams!ClseIsLast /\ Streams!ExitThenClse
                        /\ Streams!LidsDistinct /\ Streams!Answerable
    <2>a. Promise!ClseIsLast => Streams!ClseIsLast
      BY Zenon DEF Promise!ClseIsLast, Streams!ClseIsLast,
                   Promise!QuietAfterClse, Streams!QuietAfterClse
    <2>b. Promise!ExitThenClse => Streams!ExitThenClse
      BY Zenon DEF Promise!ExitThenClse, Streams!ExitThenClse,
                   Promise!ExitsClosed, Streams!ExitsClosed, Promise!clse, Streams!clse
    <2>c. Promise!LidsDistinct => Streams!LidsDistinct
      BY Zenon DEF Promise!LidsDistinct, Streams!LidsDistinct, Promise!Live, Streams!Live,
                   Promise!LivePhases, Streams!LivePhases
    <2>d. Promise!Answerable => Streams!Answerable
      BY Zenon DEF Promise!Answerable, Streams!Answerable
    <2> QED
      BY <2>a, <2>b, <2>c, <2>d DEF Promise!SInv
  <1> QED
    BY <1>1, <1>2, <1>3, <1>4, PTL

================================
