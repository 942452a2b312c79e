-------- MODULE ShellProcsProofs --------
(* What holds of descriptors and pids with any number of connections,      *)
(* sessions, pids and descriptors.                                         *)
EXTENDS ShellProcs, SequenceTheorems, WellFoundedInduction, TLAPS

--------------------------------
(* Descriptor numbers. *)

LEMMA LowestIn ==
    ASSUME NEW S, S \subseteq Numbers, S # {}
    PROVE  Lowest(S) \in S
<1> DEFINE Less == OpToRel(<, Nat)
<1>1. S \subseteq Nat
  BY MaxFdAssumption DEF Numbers
<1>2. IsWellFoundedOn(Less, Nat)
  BY NatLessThanWellFounded
<1>3. PICK x \in S : \A y \in S : ~ (<<y, x>> \in Less)
  <2> HIDE DEF Less
  <2>. QED BY <1>1, <1>2, WFMin
<1>4. \A y \in S : x <= y
  <2> SUFFICES ASSUME NEW y \in S, ~ (x <= y) PROVE FALSE
    OBVIOUS
  <2>a. x \in Nat /\ y \in Nat /\ y < x
    BY <1>1
  <2>b. <<y, x>> \in Less
    BY <2>a DEF OpToRel
  <2>. QED BY <1>3, <2>b
<1>. QED BY <1>4 DEF Lowest

LEMMA FreeNumber ==
    ASSUME HaveOne
    PROVE  First \in Numbers /\ fdt[First] = Free
<1>1. First \in FreeNumbers
  BY LowestIn DEF HaveOne, First, FreeNumbers
<1>. QED BY <1>1 DEF FreeNumbers

LEMMA FreeNumberPair ==
    ASSUME HaveTwo
    PROVE  /\ First \in Numbers /\ fdt[First] = Free
           /\ Second \in Numbers /\ fdt[Second] = Free
           /\ First # Second
<1>1. Second \in FreeNumbers \ {First}
  BY LowestIn DEF HaveTwo, Second, FreeNumbers
<1>. QED BY <1>1, FreeNumber DEF HaveTwo, FreeNumbers

--------------------------------
(* Types, and which fields of a session mean something in which phase. *)

Opening == {"pipe_out", "stderr", "fork"}
Forked == {"kid_ends", "live", "closing", "kill", "wait"}

(* Which of its numbers a session has in which phase. *)
ShapeOf(s) ==
    /\ phase[s] \in Opening \cup {"kid_ends", "live"} <=> ours[s].stdin_fd # NoFd
    /\ phase[s] \in {"stderr", "fork", "kid_ends", "live"} <=> ours[s].stdout_fd # NoFd
    /\ phase[s] \in Opening <=> theirs[s].stdin_read # NoFd
    /\ phase[s] \in {"stderr", "fork"} <=> theirs[s].stdout_write # NoFd
    /\ ours[s].stderr_fd # NoFd => phase[s] \in {"fork", "kid_ends", "live"}
    /\ theirs[s].stderr_write # NoFd => phase[s] = "fork"
    /\ phase[s] \in {"kid_ends", "closing"} <=> closing[s] # <<>>

Shape == \A s \in Sess : ShapeOf(s)

TInv == ProcsOK /\ Shape

Proc == [state : {"none", "alive", "zombie"}, of : Sess \cup {"none"},
         term : BOOLEAN, holds : SUBSET Ends]

LEMMA ConstantFacts ==
    /\ Numbers \subseteq Int /\ 0 \in Numbers /\ NoFd \notin Numbers
    /\ Numbers \subseteq Fd /\ NoFd \in Fd
    /\ \A n \in Fd : n # NoFd => n \in Numbers
    /\ "none" \notin Pids
BY MaxFdAssumption, PidsAssumption DEF Numbers, NoFd, Fd

LEMMA EndTypes ==
    /\ Free \in Ends \cup {Free} /\ Std \in Ends
    /\ \A c \in Conns : Socket(c) \in Ends
    /\ \A s \in Sess : \A part \in Parts : End(s, part) \in Ends
BY DEF Ends

LEMMA FdsTypes ==
    /\ NotOurs \in [stdin_fd : Fd, stdout_fd : Fd, stderr_fd : Fd]
    /\ NotTheirs \in [stdin_read : Fd, stdout_write : Fd, stderr_write : Fd]
BY ConstantFacts DEF NotOurs, NotTheirs, Ours, Theirs

LEMMA InitT == Init => TInv
<1> SUFFICES ASSUME Init PROVE TInv
  OBVIOUS
<1>1. fdt \in [Numbers -> Ends \cup {Free}]
  BY EndTypes DEF Init
<1>2. conns \in [Conns -> [state : {"new", "open", "ending", "gone"}, fd : Fd]]
  BY ConstantFacts DEF Init
<1>3. phase \in [Sess -> Phases] /\ conn \in [Sess -> Conns \cup {"none"}]
  BY DEF Init, Phases
<1>4. kind \in [Sess -> Kinds]
  BY DEF Init, Kinds
<1>5. ours \in [Sess -> [stdin_fd : Fd, stdout_fd : Fd, stderr_fd : Fd]]
  BY FdsTypes DEF Init
<1>6. theirs \in [Sess -> [stdin_read : Fd, stdout_write : Fd, stderr_write : Fd]]
  BY FdsTypes DEF Init
<1>7. closing \in [Sess -> Seq(Numbers)] /\ child_pid \in [Sess -> Pids \cup {"none"}]
  BY DEF Init
<1>8. procs \in [Pids -> [state : {"none", "alive", "zombie"}, of : Sess \cup {"none"},
                          term : BOOLEAN, holds : SUBSET Ends]]
  BY DEF Init, NoProc
<1>9. blind \in BOOLEAN /\ stale \in BOOLEAN
  BY DEF Init
<1>10. \A s \in Sess : child_pid[s] \in Pids
                          <=> phase[s] \in {"kid_ends", "live", "closing", "kill", "wait"}
  BY ConstantFacts DEF Init
<1>11. Shape
  BY DEF Init, Shape, ShapeOf, NotOurs, NotTheirs, Ours, Theirs, Opening
<1>. QED BY <1>1, <1>2, <1>3, <1>4, <1>5, <1>6, <1>7, <1>8, <1>9, <1>10, <1>11
         DEF TInv, ProcsOK

(* A session's numbers, typed. *)
LEMMA NumbersOf ==
    ASSUME TInv, NEW s \in Sess
    PROVE  /\ ours[s].stdin_fd \in Fd /\ ours[s].stdout_fd \in Fd /\ ours[s].stderr_fd \in Fd
           /\ theirs[s].stdin_read \in Fd /\ theirs[s].stdout_write \in Fd
           /\ theirs[s].stderr_write \in Fd
           /\ closing[s] \in Seq(Numbers)
BY DEF TInv, ProcsOK

(* A record of numbers. *)
LEMMA OursRecord ==
    ASSUME NEW i \in Fd, NEW o \in Fd, NEW e \in Fd
    PROVE  /\ Ours(i, o, e) \in [stdin_fd : Fd, stdout_fd : Fd, stderr_fd : Fd]
           /\ Ours(i, o, e).stdin_fd = i /\ Ours(i, o, e).stdout_fd = o
           /\ Ours(i, o, e).stderr_fd = e
BY DEF Ours

LEMMA TheirsRecord ==
    ASSUME NEW i \in Fd, NEW o \in Fd, NEW e \in Fd
    PROVE  /\ Theirs(i, o, e) \in [stdin_read : Fd, stdout_write : Fd, stderr_write : Fd]
           /\ Theirs(i, o, e).stdin_read = i /\ Theirs(i, o, e).stdout_write = o
           /\ Theirs(i, o, e).stderr_write = e
BY DEF Theirs

LEMMA FdsFunctions ==
    ASSUME TInv
    PROVE  /\ ours \in [Sess -> [stdin_fd : Fd, stdout_fd : Fd, stderr_fd : Fd]]
           /\ theirs \in [Sess -> [stdin_read : Fd, stdout_write : Fd, stderr_write : Fd]]
BY DEF TInv, ProcsOK

(* The listener, the end of a connection, and a shell that exits. *)
LEMMA AroundT ==
    ASSUME TInv,
           (\E c \in Conns : Accept(c) \/ HangUp(c) \/ CloseSocket(c))
               \/ \E p \in Pids : ShellExits(p)
    PROVE  TInv'
<1> USE DEF sess, fds
<1>1. ASSUME NEW c \in Conns, Accept(c) PROVE TInv'
  <2>a. fdt' \in [Numbers -> Ends \cup {Free}]
    BY <1>1, EndTypes, FreeNumber DEF Accept, TInv, ProcsOK
  <2>b. conns' \in [Conns -> [state : {"new", "open", "ending", "gone"}, fd : Fd]]
    BY <1>1, FreeNumber, ConstantFacts DEF Accept, TInv, ProcsOK
  <2>. QED BY <1>1, <2>a, <2>b DEF Accept, TInv, ProcsOK, Shape, ShapeOf
<1>2. ASSUME NEW c \in Conns, HangUp(c) PROVE TInv'
  <2>a. conns' \in [Conns -> [state : {"new", "open", "ending", "gone"}, fd : Fd]]
    <3> DEFINE Conn == [state : {"new", "open", "ending", "gone"}, fd : Fd]
    <3>1. conns \in [Conns -> Conn] /\ conns[c] \in Conn
      BY DEF TInv, ProcsOK
    <3>2. [conns[c] EXCEPT !.state = "ending"] \in Conn
      BY <3>1
    <3>3. conns' = [conns EXCEPT ![c] = [conns[c] EXCEPT !.state = "ending"]]
      BY <1>2, <3>1 DEF HangUp
    <3> HIDE DEF Conn
    <3>4. conns' \in [Conns -> Conn]
      BY <3>1, <3>2, <3>3
    <3>. QED BY <3>4 DEF Conn
  <2>. QED BY <1>2, <2>a DEF HangUp, TInv, ProcsOK, Shape, ShapeOf
<1>3. ASSUME NEW c \in Conns, CloseSocket(c) PROVE TInv'
  <2>a. fdt' \in [Numbers -> Ends \cup {Free}]
    <3>1. fdt' = [fdt EXCEPT ![conns[c].fd] = Free]
      BY <1>3 DEF CloseSocket, Closed
    <3>. QED BY <3>1, EndTypes DEF TInv, ProcsOK
  <2>b. conns' \in [Conns -> [state : {"new", "open", "ending", "gone"}, fd : Fd]]
    BY <1>3, ConstantFacts DEF CloseSocket, TInv, ProcsOK
  <2>. QED BY <1>3, <2>a, <2>b DEF CloseSocket, TInv, ProcsOK, Shape, ShapeOf
<1>4. ASSUME NEW p \in Pids, ShellExits(p) PROVE TInv'
  <2>a. procs' \in [Pids -> [state : {"none", "alive", "zombie"}, of : Sess \cup {"none"},
                             term : BOOLEAN, holds : SUBSET Ends]]
    <3>1. procs \in [Pids -> Proc] /\ procs[p] \in Proc
      BY DEF TInv, ProcsOK, Proc
    <3>2. [procs[p] EXCEPT !.state = "zombie", !.holds = {}] \in Proc
      BY <3>1 DEF Proc
    <3>3. procs' = [procs EXCEPT ![p] = [procs[p] EXCEPT !.state = "zombie", !.holds = {}]]
      BY <1>4, <3>1 DEF ShellExits
    <3>4. procs' \in [Pids -> Proc]
      BY <3>1, <3>2, <3>3
    <3>. QED BY <3>4 DEF Proc
  <2>. QED BY <1>4, <2>a DEF ShellExits, TInv, ProcsOK, Shape, ShapeOf
<1>. QED BY <1>1, <1>2, <1>3, <1>4

(* A row of closes has all the numbers it is made of, each once. *)
IsRowOf(row, n, m, l) ==
    /\ row \in Seq(Numbers) /\ row # <<>>
    /\ {row[i] : i \in DOMAIN row} = {n, m, l} \ {NoFd}
    /\ (l # NoFd => l \notin {n, m}) =>
          \A i, j \in DOMAIN row : i # j => row[i] # row[j]

LEMMA RowOf ==
    ASSUME NEW n \in Numbers, NEW m \in Numbers, NEW l \in Fd
    PROVE  IsRowOf(Each(n, m, l), n, m, l)
<1>0. PICK row : row = Each(n, m, l)
  OBVIOUS
<1> SUFFICES IsRowOf(row, n, m, l)
  BY <1>0
<1> USE DEF IsRowOf
<1>1. CASE n = m /\ l = NoFd
  <2>a. row = <<n>>
    BY <1>0, <1>1, ConstantFacts DEF Each
  <2>b. /\ row \in Seq(Numbers) /\ row # <<>> /\ DOMAIN row = {1}
        /\ row[1] = n
    BY <2>a
  <2>. QED BY <1>1, <2>b, ConstantFacts
<1>2. CASE n = m /\ l # NoFd
  <2>a. row = <<n, l>> /\ l \in Numbers
    BY <1>0, <1>2, ConstantFacts DEF Each
  <2>b. /\ row \in Seq(Numbers) /\ row # <<>> /\ DOMAIN row = {1, 2}
        /\ row[1] = n /\ row[2] = l
    BY <2>a
  <2>. QED BY <1>2, <2>b, ConstantFacts
<1>3. CASE n # m /\ l = NoFd
  <2>a. row = <<n, m>>
    BY <1>0, <1>3, ConstantFacts DEF Each
  <2>b. /\ row \in Seq(Numbers) /\ row # <<>> /\ DOMAIN row = {1, 2}
        /\ row[1] = n /\ row[2] = m
    BY <2>a
  <2>. QED BY <1>3, <2>b, ConstantFacts
<1>4. CASE n # m /\ l # NoFd
  <2>a. row = <<n, m, l>> /\ l \in Numbers
    BY <1>0, <1>4, ConstantFacts DEF Each
  <2>b. /\ row \in Seq(Numbers) /\ row # <<>> /\ DOMAIN row = {1, 2, 3}
        /\ row[1] = n /\ row[2] = m /\ row[3] = l
    BY <2>a
  <2>. QED BY <1>4, <2>b, ConstantFacts
<1>. QED BY <1>1, <1>2, <1>3, <1>4

(* ShellSession::new up to the fork. *)
LEMMA OpenT ==
    ASSUME TInv, NEW c \in Conns, NEW s \in Sess, NEW k \in Kinds,
           OpenPty(c, s, k) \/ PipeIn(c, s, k)
    PROVE  TInv'
<1>1. conn' \in [Sess -> Conns \cup {"none"}] /\ kind' \in [Sess -> Kinds]
  <2>a. Opens(c, s, k)
    BY DEF OpenPty, PipeIn
  <2>. QED BY <2>a DEF Opens, TInv, ProcsOK
<1>2. AfterPipes(k) \in {"stderr", "fork"}
  BY DEF AfterPipes
<1>3. /\ phase[s] = "unused" /\ closing[s] = <<>>
      /\ phase' = [phase EXCEPT ![s] = phase'[s]]
      /\ UNCHANGED <<conns, closing, child_pid, procs, stale>>
  BY DEF OpenPty, PipeIn, Opens, Goes, TInv, ProcsOK, Shape, ShapeOf, Opening
<1>4. CASE OpenPty(c, s, k)
  <2>a. First \in Numbers /\ Second \in Numbers
    BY <1>4, FreeNumberPair DEF OpenPty
  <2>b. fdt' \in [Numbers -> Ends \cup {Free}]
    <3>1. End(s, "master") \in Ends /\ End(s, "slave") \in Ends
      BY DEF Ends, Parts, OurParts, KidParts
    <3>. QED BY <1>4, <2>a, <3>1 DEF OpenPty, TInv, ProcsOK
  <2>c. /\ ours' = [ours EXCEPT ![s] = Ours(First, First, NoFd)]
        /\ theirs' = [theirs EXCEPT ![s] = Theirs(Second, Second, NoFd)]
        /\ phase' = [phase EXCEPT ![s] = AfterPipes(k)] /\ blind' = blind
    BY <1>4 DEF OpenPty, Goes
  <2>d. ours' \in [Sess -> [stdin_fd : Fd, stdout_fd : Fd, stderr_fd : Fd]]
    BY <2>a, <2>c, ConstantFacts DEF Ours, TInv, ProcsOK
  <2>e. theirs' \in [Sess -> [stdin_read : Fd, stdout_write : Fd, stderr_write : Fd]]
    BY <2>a, <2>c, ConstantFacts DEF Theirs, TInv, ProcsOK
  <2>f. ProcsOK'
    BY <1>1, <1>2, <1>3, <2>b, <2>c, <2>d, <2>e
       DEF TInv, ProcsOK, Phases, Transit, Making
  <2>g. ShapeOf(s)'
    BY <1>2, <1>3, <2>a, <2>c, ConstantFacts
       DEF TInv, ProcsOK, ShapeOf, Ours, Theirs, Opening
  <2>h. \A t \in Sess \ {s} : ShapeOf(t)'
    BY <1>3, <2>c DEF TInv, ProcsOK, Shape, ShapeOf
  <2>. QED BY <2>f, <2>g, <2>h DEF TInv, Shape
<1>5. CASE PipeIn(c, s, k)
  <2>a. PICK n \in Numbers, m \in Numbers :
            /\ ours' = [ours EXCEPT ![s] = Ours(n, NoFd, NoFd)]
            /\ theirs' = [theirs EXCEPT ![s] = Theirs(m, NoFd, NoFd)]
    BY <1>5, FreeNumberPair, ConstantFacts DEF PipeIn
  <2>b. fdt' \in [Numbers -> Ends \cup {Free}] /\ blind' \in BOOLEAN
    <3>1. End(s, "in_r") \in Ends /\ End(s, "in_w") \in Ends
      BY DEF Ends, Parts, OurParts, KidParts
    <3>2. CASE HaveTwo
      BY <1>5, <3>1, <3>2, FreeNumberPair DEF PipeIn, TInv, ProcsOK
    <3>3. CASE ~HaveTwo
      BY <1>5, <3>3 DEF PipeIn, TInv, ProcsOK
    <3>. QED BY <3>2, <3>3
  <2>c. phase' = [phase EXCEPT ![s] = "pipe_out"]
    BY <1>5 DEF PipeIn, Goes
  <2>d. ours' \in [Sess -> [stdin_fd : Fd, stdout_fd : Fd, stderr_fd : Fd]]
    BY <2>a, ConstantFacts DEF Ours, TInv, ProcsOK
  <2>e. theirs' \in [Sess -> [stdin_read : Fd, stdout_write : Fd, stderr_write : Fd]]
    BY <2>a, ConstantFacts DEF Theirs, TInv, ProcsOK
  <2>f. ProcsOK'
    BY <1>1, <1>3, <2>b, <2>c, <2>d, <2>e DEF TInv, ProcsOK, Phases, Transit, Making
  <2>g. ShapeOf(s)'
    BY <1>3, <2>a, <2>c, ConstantFacts
       DEF TInv, ProcsOK, ShapeOf, Ours, Theirs, Opening
  <2>h. \A t \in Sess \ {s} : ShapeOf(t)'
    BY <1>3, <2>a, <2>c DEF TInv, ProcsOK, Shape, ShapeOf
  <2>. QED BY <2>f, <2>g, <2>h DEF TInv, Shape
<1>. QED BY <1>4, <1>5

LEMMA PipesT ==
    ASSUME TInv, NEW s \in Sess, PipeOut(s) \/ StderrPipe(s)
    PROVE  TInv'
<1>1. AfterPipes(kind[s]) \in {"stderr", "fork"}
  BY DEF AfterPipes
<1>2. UNCHANGED <<conns, conn, kind, closing, child_pid, procs, stale>>
  BY DEF PipeOut, StderrPipe
<1>3. CASE PipeOut(s)
  <2>a. PICK n \in Numbers, m \in Numbers :
            /\ ours' = [ours EXCEPT ![s] =
                          Ours(ours[s].stdin_fd, n, ours[s].stderr_fd)]
            /\ theirs' = [theirs EXCEPT ![s] =
                            Theirs(theirs[s].stdin_read, m, theirs[s].stderr_write)]
    <3>1. PICK n \in Numbers, m \in Numbers :
              /\ ours' = [ours EXCEPT ![s].stdout_fd = n]
              /\ theirs' = [theirs EXCEPT ![s].stdout_write = m]
      BY <1>3, FreeNumberPair, ConstantFacts DEF PipeOut
    <3>2. /\ ours \in [Sess -> [stdin_fd : Fd, stdout_fd : Fd, stderr_fd : Fd]]
          /\ theirs \in [Sess -> [stdin_read : Fd, stdout_write : Fd, stderr_write : Fd]]
      BY DEF TInv, ProcsOK
    <3>3. [ours[s] EXCEPT !.stdout_fd = n] = Ours(ours[s].stdin_fd, n, ours[s].stderr_fd)
      BY <3>2 DEF Ours
    <3>4. [theirs[s] EXCEPT !.stdout_write = m]
              = Theirs(theirs[s].stdin_read, m, theirs[s].stderr_write)
      BY <3>2 DEF Theirs
    <3>. QED BY <3>1, <3>3, <3>4
  <2>b. fdt' \in [Numbers -> Ends \cup {Free}] /\ blind' \in BOOLEAN
    <3>1. End(s, "out_r") \in Ends /\ End(s, "out_w") \in Ends
      BY DEF Ends, Parts, OurParts, KidParts
    <3>2. CASE HaveTwo
      <4>1. /\ fdt' = [fdt EXCEPT ![First] = End(s, "out_r"), ![Second] = End(s, "out_w")]
            /\ blind' = blind
        BY <1>3, <3>2 DEF PipeOut
      <4>2. First \in Numbers /\ Second \in Numbers
        BY <3>2, FreeNumberPair
      <4>. QED BY <3>1, <4>1, <4>2 DEF TInv, ProcsOK
    <3>3. CASE ~HaveTwo
      BY <1>3, <3>3 DEF PipeOut, TInv, ProcsOK
    <3>. QED BY <3>2, <3>3
  <2>c. phase[s] = "pipe_out" /\ phase' = [phase EXCEPT ![s] = AfterPipes(kind[s])]
    BY <1>3 DEF PipeOut, Goes
  <2>d. /\ ours' \in [Sess -> [stdin_fd : Fd, stdout_fd : Fd, stderr_fd : Fd]]
        /\ ours'[s].stdin_fd = ours[s].stdin_fd /\ ours'[s].stdout_fd = n
        /\ ours'[s].stderr_fd = ours[s].stderr_fd
        /\ \A t \in Sess \ {s} : ours'[t] = ours[t]
    <3>1. n \in Fd /\ ours[s].stdin_fd \in Fd /\ ours[s].stderr_fd \in Fd
      BY NumbersOf, ConstantFacts
    <3>. QED BY <2>a, <3>1, OursRecord, FdsFunctions
  <2>e. /\ theirs' \in [Sess -> [stdin_read : Fd, stdout_write : Fd, stderr_write : Fd]]
        /\ theirs'[s].stdin_read = theirs[s].stdin_read /\ theirs'[s].stdout_write = m
        /\ theirs'[s].stderr_write = theirs[s].stderr_write
        /\ \A t \in Sess \ {s} : theirs'[t] = theirs[t]
    <3>1. m \in Fd /\ theirs[s].stdin_read \in Fd /\ theirs[s].stderr_write \in Fd
      BY NumbersOf, ConstantFacts
    <3>. QED BY <2>a, <3>1, TheirsRecord, FdsFunctions
  <2>f. ProcsOK'
    BY <1>1, <1>2, <2>b, <2>c, <2>d, <2>e DEF TInv, ProcsOK, Phases, Transit, Making
  <2>g. ShapeOf(s)'
    BY <1>1, <1>2, <2>c, <2>d, <2>e, ConstantFacts
       DEF TInv, ProcsOK, Shape, ShapeOf, Opening
  <2>h. \A t \in Sess \ {s} : ShapeOf(t)'
    BY <1>2, <2>c, <2>d, <2>e DEF TInv, ProcsOK, Shape, ShapeOf
  <2>. QED BY <2>f, <2>g, <2>h DEF TInv, Shape
<1>4. CASE StderrPipe(s)
  <2>a. First \in Numbers /\ Second \in Numbers
    BY <1>4, FreeNumberPair DEF StderrPipe
  <2>b. fdt' \in [Numbers -> Ends \cup {Free}]
    <3>1. End(s, "err_r") \in Ends /\ End(s, "err_w") \in Ends
      BY DEF Ends, Parts, OurParts, KidParts
    <3>. QED BY <1>4, <2>a, <3>1 DEF StderrPipe, TInv, ProcsOK
  <2>c. /\ phase[s] = "stderr" /\ phase' = [phase EXCEPT ![s] = "fork"] /\ blind' = blind
        /\ ours' = [ours EXCEPT ![s] =
                      Ours(ours[s].stdin_fd, ours[s].stdout_fd, First)]
        /\ theirs' = [theirs EXCEPT ![s] =
                        Theirs(theirs[s].stdin_read, theirs[s].stdout_write, Second)]
    <3>1. /\ ours \in [Sess -> [stdin_fd : Fd, stdout_fd : Fd, stderr_fd : Fd]]
          /\ theirs \in [Sess -> [stdin_read : Fd, stdout_write : Fd, stderr_write : Fd]]
      BY DEF TInv, ProcsOK
    <3>2. [ours[s] EXCEPT !.stderr_fd = First]
              = Ours(ours[s].stdin_fd, ours[s].stdout_fd, First)
      BY <3>1 DEF Ours
    <3>3. [theirs[s] EXCEPT !.stderr_write = Second]
              = Theirs(theirs[s].stdin_read, theirs[s].stdout_write, Second)
      BY <3>1 DEF Theirs
    <3>. QED BY <1>4, <3>2, <3>3 DEF StderrPipe, Goes
  <2>d. /\ ours' \in [Sess -> [stdin_fd : Fd, stdout_fd : Fd, stderr_fd : Fd]]
        /\ ours'[s].stdin_fd = ours[s].stdin_fd /\ ours'[s].stdout_fd = ours[s].stdout_fd
        /\ ours'[s].stderr_fd = First
        /\ \A t \in Sess \ {s} : ours'[t] = ours[t]
    <3>1. First \in Fd /\ ours[s].stdin_fd \in Fd /\ ours[s].stdout_fd \in Fd
      BY <2>a, NumbersOf, ConstantFacts
    <3>. QED BY <2>c, <3>1, OursRecord, FdsFunctions
  <2>e. /\ theirs' \in [Sess -> [stdin_read : Fd, stdout_write : Fd, stderr_write : Fd]]
        /\ theirs'[s].stdin_read = theirs[s].stdin_read
        /\ theirs'[s].stdout_write = theirs[s].stdout_write
        /\ theirs'[s].stderr_write = Second
        /\ \A t \in Sess \ {s} : theirs'[t] = theirs[t]
    <3>1. Second \in Fd /\ theirs[s].stdin_read \in Fd /\ theirs[s].stdout_write \in Fd
      BY <2>a, NumbersOf, ConstantFacts
    <3>. QED BY <2>c, <3>1, TheirsRecord, FdsFunctions
  <2>f. ProcsOK'
    BY <1>2, <2>b, <2>c, <2>d, <2>e DEF TInv, ProcsOK, Phases, Transit, Making
  <2>g. ShapeOf(s)'
    <3>1. First # NoFd /\ Second # NoFd
      BY <2>a, ConstantFacts
    <3>2. phase'[s] = "fork" /\ closing'[s] = closing[s]
      BY <1>2, <2>c DEF TInv, ProcsOK
    <3>. QED BY <2>c, <2>d, <2>e, <3>1, <3>2 DEF TInv, Shape, ShapeOf, Opening
  <2>h. \A t \in Sess \ {s} : ShapeOf(t)'
    BY <1>2, <2>c, <2>d, <2>e DEF TInv, ProcsOK, Shape, ShapeOf
  <2>. QED BY <2>f, <2>g, <2>h DEF TInv, Shape
<1>. QED BY <1>3, <1>4

LEMMA FailsT ==
    ASSUME TInv, NEW s \in Sess, StderrPipeFails(s) \/ ForkFails(s)
    PROVE  TInv'
<1>1. /\ phase[s] \in {"stderr", "fork"} /\ phase' = [phase EXCEPT ![s] = "failed"]
      /\ ours' = [ours EXCEPT ![s] = NotOurs] /\ theirs' = [theirs EXCEPT ![s] = NotTheirs]
      /\ UNCHANGED <<fdt, conns, conn, kind, closing, child_pid, procs, blind, stale>>
  BY DEF StderrPipeFails, ForkFails, Fails, Goes
<1>2. /\ ours' \in [Sess -> [stdin_fd : Fd, stdout_fd : Fd, stderr_fd : Fd]]
      /\ theirs' \in [Sess -> [stdin_read : Fd, stdout_write : Fd, stderr_write : Fd]]
  BY <1>1, FdsTypes DEF TInv, ProcsOK
<1>3. ProcsOK'
  BY <1>1, <1>2 DEF TInv, ProcsOK, Phases
<1>4. ShapeOf(s)'
  BY <1>1 DEF TInv, ProcsOK, Shape, ShapeOf, Opening, NotOurs, NotTheirs, Ours, Theirs
<1>5. \A t \in Sess \ {s} : ShapeOf(t)'
  BY <1>1 DEF TInv, ProcsOK, Shape, ShapeOf
<1>. QED BY <1>3, <1>4, <1>5 DEF TInv, Shape

(* What a new process holds. *)
LEMMA InheritedT ==
    ASSUME TInv, NEW s \in Sess
    PROVE  Inherited(s) \subseteq Ends
<1>1. Free.part \notin Parts
  BY DEF Free, End, Parts, OurParts, KidParts
<1>. QED BY <1>1 DEF Inherited, TInv, ProcsOK

LEMMA ForkT ==
    ASSUME TInv, NEW s \in Sess, NEW p \in Pids, Fork(s, p)
    PROVE  TInv'
<1>1. /\ phase[s] = "fork" /\ phase' = [phase EXCEPT ![s] = "kid_ends"]
      /\ child_pid' = [child_pid EXCEPT ![s] = p]
      /\ closing' = [closing EXCEPT ![s] = KidEnds(s)]
      /\ theirs' = [theirs EXCEPT ![s] = NotTheirs]
      /\ UNCHANGED <<fdt, conns, conn, kind, ours, blind>>
  BY DEF Fork, Goes
<1>2. procs' \in [Pids -> [state : {"none", "alive", "zombie"}, of : Sess \cup {"none"},
                           term : BOOLEAN, holds : SUBSET Ends]]
  BY InheritedT DEF Fork, TInv, ProcsOK
<1>3. stale' \in BOOLEAN
  BY DEF Fork, TInv, ProcsOK
<1>4. KidEnds(s) \in Seq(Numbers) /\ KidEnds(s) # <<>>
  <2>a. theirs[s].stdin_read \in Numbers /\ theirs[s].stdout_write \in Numbers
    BY <1>1, NumbersOf, ConstantFacts DEF TInv, Shape, ShapeOf, Opening
  <2>b. theirs[s].stderr_write \in Fd
    BY NumbersOf
  <2>c. PICK n \in Numbers, m \in Numbers, l \in Fd : KidEnds(s) = Each(n, m, l)
    BY <2>a, <2>b DEF KidEnds
  <2>. QED BY <2>c, RowOf DEF IsRowOf
<1>5. theirs' \in [Sess -> [stdin_read : Fd, stdout_write : Fd, stderr_write : Fd]]
  BY <1>1, FdsTypes DEF TInv, ProcsOK
<1>6. ProcsOK'
  BY <1>1, <1>2, <1>3, <1>4, <1>5 DEF TInv, ProcsOK, Phases, Transit
<1>7. ShapeOf(s)'
  BY <1>1, <1>4 DEF TInv, ProcsOK, Shape, ShapeOf, Opening, NotTheirs, Theirs
<1>8. \A t \in Sess \ {s} : ShapeOf(t)'
  BY <1>1 DEF TInv, ProcsOK, Shape, ShapeOf
<1>. QED BY <1>6, <1>7, <1>8 DEF TInv, Shape

(* One close takes the head of the row, and the last one ends it. *)
LEMMA CloseT ==
    ASSUME TInv, NEW s \in Sess, CloseNext(s)
    PROVE  TInv'
<1>1. /\ phase[s] \in {"kid_ends", "closing"}
      /\ fdt' = [fdt EXCEPT ![Head(closing[s])] = Free]
      /\ closing' = [closing EXCEPT ![s] = Tail(closing[s])]
      /\ UNCHANGED <<conns, conn, kind, ours, theirs, child_pid, procs, blind, stale>>
  BY DEF CloseNext, Closed, TInv, ProcsOK
<1>2. PICK next : /\ phase' = [phase EXCEPT ![s] = next]
                  /\ Len(closing[s]) > 1 => next = phase[s]
                  /\ ~ (Len(closing[s]) > 1) =>
                        next = IF phase[s] = "kid_ends" THEN "live" ELSE "kill"
  <2>a. CASE Len(closing[s]) > 1
    <3>1. phase' = [phase EXCEPT ![s] = phase[s]]
      BY <2>a DEF CloseNext, Goes
    <3>. QED BY <2>a, <3>1, Zenon
  <2>b. CASE ~ (Len(closing[s]) > 1) /\ phase[s] = "kid_ends"
    <3>1. phase' = [phase EXCEPT ![s] = "live"]
      BY <2>b DEF CloseNext, Goes
    <3>. QED BY <2>b, <3>1, Zenon
  <2>c. CASE ~ (Len(closing[s]) > 1) /\ phase[s] # "kid_ends"
    <3>1. phase' = [phase EXCEPT ![s] = "kill"]
      BY <2>c DEF CloseNext, Goes
    <3>. QED BY <2>c, <3>1, Zenon
  <2>. QED BY <2>a, <2>b, <2>c
<1>3. closing[s] \in Seq(Numbers) /\ closing[s] # <<>>
  BY <1>1 DEF TInv, ProcsOK, Shape, ShapeOf
<1>4. /\ Tail(closing[s]) \in Seq(Numbers)
      /\ Tail(closing[s]) = <<>> <=> ~ (Len(closing[s]) > 1)
  <2>a. /\ Tail(closing[s]) \in Seq(Numbers)
        /\ Len(Tail(closing[s])) = Len(closing[s]) - 1
    BY <1>3, HeadTailProperties
  <2>b. Len(closing[s]) \in Nat /\ Len(closing[s]) # 0
    BY <1>3, EmptySeq, LenProperties
  <2>c. Tail(closing[s]) = <<>> <=> Len(Tail(closing[s])) = 0
    BY <2>a, EmptySeq
  <2>d. PICK n \in Nat \ {0} : n = Len(closing[s]) /\ Len(Tail(closing[s])) = n - 1
    BY <2>a, <2>b, Zenon
  <2>e. n > 1 <=> n - 1 # 0
    OBVIOUS
  <2>. QED BY <2>a, <2>c, <2>d, <2>e, Zenon
<1>5. fdt' \in [Numbers -> Ends \cup {Free}]
  BY <1>1, EndTypes DEF TInv, ProcsOK
<1>6. closing' \in [Sess -> Seq(Numbers)]
  BY <1>1, <1>4 DEF TInv, ProcsOK
<1>7. next \in {"kid_ends", "closing", "live", "kill"}
  BY <1>1, <1>2
<1>8. ProcsOK'
  BY <1>1, <1>2, <1>5, <1>6, <1>7 DEF TInv, ProcsOK, Phases, Transit
<1>9. ShapeOf(s)'
  <2>a. /\ phase[s] = "closing" => next \in {"closing", "kill"}
        /\ phase[s] = "kid_ends" => next \in {"kid_ends", "live"}
        /\ next \in {"kid_ends", "closing"} <=> Len(closing[s]) > 1
    BY <1>1, <1>2
  <2>b. phase'[s] = next /\ closing'[s] = Tail(closing[s])
    BY <1>1, <1>2 DEF TInv, ProcsOK
  <2>. QED BY <1>1, <1>4, <2>a, <2>b DEF TInv, Shape, ShapeOf, Opening
<1>10. \A t \in Sess \ {s} : ShapeOf(t)'
  BY <1>1, <1>2 DEF TInv, ProcsOK, Shape, ShapeOf
<1>. QED BY <1>8, <1>9, <1>10 DEF TInv, Shape

(* What the three ways to drop a session do to its fields. *)
LEMMA DropT ==
    ASSUME TInv, NEW s \in Sess, TryWait(s) \/ CloseStream(s) \/ DropLive(s)
    PROVE  TInv'
<1>1. /\ phase[s] = "live" /\ phase' = [phase EXCEPT ![s] = "closing"]
      /\ closing' = [closing EXCEPT ![s] = OurEnds(s)]
      /\ ours' = [ours EXCEPT ![s] = NotOurs]
      /\ UNCHANGED <<fdt, conns, conn, kind, theirs, child_pid, blind, stale>>
  BY DEF TryWait, CloseStream, DropLive, Dropped, Goes
<1>2. procs' \in [Pids -> [state : {"none", "alive", "zombie"}, of : Sess \cup {"none"},
                           term : BOOLEAN, holds : SUBSET Ends]]
  <2>a. \/ procs' = procs
        \/ procs' = [procs EXCEPT ![child_pid[s]] = NoProc]
    BY DEF TryWait, CloseStream, DropLive
  <2>b. procs \in [Pids -> Proc] /\ NoProc \in Proc
    BY DEF TInv, ProcsOK, Proc, NoProc
  <2>c. procs' \in [Pids -> Proc]
    BY <2>a, <2>b
  <2>. QED BY <2>c DEF Proc
<1>3. OurEnds(s) \in Seq(Numbers) /\ OurEnds(s) # <<>>
  <2>a. ours[s].stdin_fd \in Numbers /\ ours[s].stdout_fd \in Numbers
    BY <1>1, NumbersOf, ConstantFacts DEF TInv, Shape, ShapeOf, Opening
  <2>b. ours[s].stderr_fd \in Fd
    BY NumbersOf
  <2>c. PICK n \in Numbers, m \in Numbers, l \in Fd : OurEnds(s) = Each(n, m, l)
    BY <2>a, <2>b DEF OurEnds
  <2>. QED BY <2>c, RowOf DEF IsRowOf
<1>4. ours' \in [Sess -> [stdin_fd : Fd, stdout_fd : Fd, stderr_fd : Fd]]
  BY <1>1, FdsTypes DEF TInv, ProcsOK
<1>5. closing' \in [Sess -> Seq(Numbers)]
  BY <1>1, <1>3 DEF TInv, ProcsOK
<1>6. ProcsOK'
  BY <1>1, <1>2, <1>4, <1>5 DEF TInv, ProcsOK, Phases, Transit
<1>7. ShapeOf(s)'
  BY <1>1, <1>3 DEF TInv, ProcsOK, Shape, ShapeOf, Opening, NotOurs, Ours
<1>8. \A t \in Sess \ {s} : ShapeOf(t)'
  BY <1>1 DEF TInv, ProcsOK, Shape, ShapeOf
<1>. QED BY <1>6, <1>7, <1>8 DEF TInv, Shape

(* The rest of cleanup. *)
LEMMA CleanupT ==
    ASSUME TInv, NEW s \in Sess, Kill(s) \/ WaitOnce(s)
    PROVE  TInv'
<1>1. CASE Kill(s)
  <2>a. /\ phase[s] = "kill" /\ phase' = [phase EXCEPT ![s] = "wait"]
        /\ UNCHANGED <<fdt, conns, conn, kind, ours, theirs, closing, child_pid,
                       blind, stale>>
    BY <1>1 DEF Kill, Goes, fds
  <2>b. procs' \in [Pids -> Proc]
    <3>1. procs \in [Pids -> Proc] /\ child_pid[s] \in Pids
      BY <2>a DEF TInv, ProcsOK, Proc
    <3>2. [procs[child_pid[s]] EXCEPT !.term = TRUE] \in Proc
      BY <3>1 DEF Proc
    <3>3. \/ procs' = procs
          \/ procs' = [procs EXCEPT ![child_pid[s]] =
                                    [procs[child_pid[s]] EXCEPT !.term = TRUE]]
      BY <1>1, <3>1 DEF Kill
    <3>. QED BY <3>1, <3>2, <3>3
  <2>c. ProcsOK'
    BY <2>a, <2>b DEF TInv, ProcsOK, Phases, Transit, Proc
  <2>. QED BY <2>a, <2>c DEF TInv, ProcsOK, Shape, ShapeOf, Opening
<1>2. CASE WaitOnce(s)
  <2>a. /\ phase[s] = "wait" /\ phase' = [phase EXCEPT ![s] = "gone"]
        /\ child_pid' = [child_pid EXCEPT ![s] = "none"]
        /\ UNCHANGED <<fdt, conns, conn, kind, ours, theirs, closing, blind, stale>>
    BY <1>2 DEF WaitOnce, Gone, Goes, fds
  <2>b. procs' \in [Pids -> [state : {"none", "alive", "zombie"}, of : Sess \cup {"none"},
                             term : BOOLEAN, holds : SUBSET Ends]]
    BY <1>2 DEF WaitOnce, TInv, ProcsOK, NoProc
  <2>c. ProcsOK'
    BY <2>a, <2>b, ConstantFacts DEF TInv, ProcsOK, Phases
  <2>. QED BY <2>a, <2>c DEF TInv, ProcsOK, Shape, ShapeOf, Opening
<1>. QED BY <1>1, <1>2

LEMMA NextT == TInv /\ [Next]_vars => TInv'
<1> SUFFICES ASSUME TInv, [Next]_vars PROVE TInv'
  OBVIOUS
<1>1. CASE UNCHANGED vars
  <2>a. UNCHANGED <<fdt, conns, phase, conn, kind, ours, theirs, closing, child_pid,
                    procs, blind, stale>>
    BY <1>1 DEF vars, sess, fds
  <2>. QED BY <2>a DEF TInv, ProcsOK, Shape, ShapeOf
<1>2. CASE (\E c \in Conns : Accept(c) \/ HangUp(c) \/ CloseSocket(c))
               \/ \E p \in Pids : ShellExits(p)
  BY <1>2, AroundT
<1>3. CASE \E c \in Conns, s \in Sess, k \in Kinds : OpenPty(c, s, k) \/ PipeIn(c, s, k)
  BY <1>3, OpenT
<1>4. ASSUME NEW s \in Sess, Works(s) \/ CloseStream(s) PROVE TInv'
  BY <1>4, PipesT, FailsT, ForkT, CloseT, DropT, CleanupT DEF Works
<1>. QED BY <1>1, <1>2, <1>3, <1>4 DEF Next

(* Every state the daemon reaches is well typed, with any number of        *)
(* connections, sessions, pids and descriptors.                            *)
THEOREM ProcsTypes == Spec => []ProcsOK
<1>1. Spec => []TInv
  BY InitT, NextT, PTL DEF Spec
<1>2. TInv => ProcsOK
  BY DEF TInv
<1>. QED BY <1>1, <1>2, PTL

--------------------------------
(* Processes. *)

(* A shell that runs has been told to stop, or its session will see to it. *)
Minded ==
    \A p \in Pids :
        procs[p].state = "alive" =>
            /\ procs[p].of \in Sess
            /\ \/ procs[p].term
               \/ /\ phase[procs[p].of] \in {"kid_ends", "live", "closing", "kill"}
                  /\ child_pid[procs[p].of] = p

(* No pid is gone by twice. *)
OnePid ==
    ~stale => \A s, t \in Sess :
                 child_pid[s] # "none" /\ child_pid[s] = child_pid[t] => s = t

PInv == TInv /\ Minded /\ OnePid /\ ExitIsOurs

LEMMA InitP == Init => PInv
<1> SUFFICES ASSUME Init PROVE PInv
  OBVIOUS
<1>1. Minded /\ OnePid /\ ExitIsOurs
  BY DEF Init, Minded, OnePid, ExitIsOurs, NoProc
<1>. QED BY <1>1, InitT DEF PInv

(* A step that leaves processes and pids alone, and takes no session to a  *)
(* phase that has a pid or from one.                                       *)
LEMMA NoPidP ==
    ASSUME PInv, UNCHANGED <<procs, child_pid, stale>>,
           \A s \in Sess :
              LET seen == {"kid_ends", "live"}
                  minds == {"kid_ends", "live", "closing", "kill"}
              IN  /\ phase'[s] \in seen => phase[s] \in seen
                  /\ phase[s] \in minds => phase'[s] \in minds
    PROVE  Minded' /\ OnePid' /\ ExitIsOurs'
<1>1. Minded'
  BY DEF PInv, Minded
<1>2. OnePid'
  BY DEF PInv, OnePid
<1>3. ExitIsOurs'
  BY DEF PInv, ExitIsOurs
<1>. QED BY <1>1, <1>2, <1>3

LEMMA ForkP ==
    ASSUME PInv, NEW s \in Sess, NEW p \in Pids, Fork(s, p)
    PROVE  Minded' /\ OnePid' /\ ExitIsOurs'
<1> DEFINE shell == [state |-> "alive", of |-> s, term |-> FALSE, holds |-> Inherited(s)]
<1>1. /\ phase[s] = "fork" /\ phase' = [phase EXCEPT ![s] = "kid_ends"]
      /\ child_pid' = [child_pid EXCEPT ![s] = p]
      /\ procs' = [procs EXCEPT ![p] = shell]
      /\ stale' = (stale \/ \E other \in Sess : child_pid[other] = p)
  BY DEF Fork, Goes
<1>2. shell.state = "alive" /\ shell.of = s
  OBVIOUS
<1> HIDE DEF shell
<1>3. /\ DOMAIN procs = Pids /\ DOMAIN phase = Sess /\ DOMAIN child_pid = Sess
      /\ p # "none"
  BY ConstantFacts DEF PInv, TInv, ProcsOK
<1>4. Minded'
  BY <1>1, <1>2, <1>3 DEF PInv, Minded
<1>5. OnePid'
  <2>a. SUFFICES ASSUME ~stale', NEW t \in Sess, NEW u \in Sess,
                        child_pid'[t] # "none", child_pid'[t] = child_pid'[u]
                 PROVE  t = u
    BY Zenon DEF OnePid
  <2>b. ~stale /\ \A other \in Sess : child_pid[other] # p
    BY <1>1, <2>a
  <2>. QED BY <1>1, <1>3, <2>a, <2>b DEF PInv, OnePid
<1>6. ExitIsOurs'
  <2>a. SUFFICES ASSUME ~stale', NEW t \in Sess, phase'[t] \in {"kid_ends", "live"}
                 PROVE  /\ procs'[child_pid'[t]].of = t
                        /\ procs'[child_pid'[t]].state # "none"
    BY Zenon DEF ExitIsOurs
  <2>b. ~stale /\ \A other \in Sess : child_pid[other] # p
    BY <1>1, <2>a
  <2>c. CASE t = s
    BY <1>1, <1>2, <1>3, <2>c
  <2>d. CASE t # s
    <3>1. child_pid'[t] = child_pid[t] /\ child_pid[t] # p /\ phase'[t] = phase[t]
      BY <1>1, <1>3, <2>b, <2>d
    <3>2. procs'[child_pid[t]] = procs[child_pid[t]]
      BY <1>1, <3>1, <2>a DEF PInv, TInv, ProcsOK
    <3>. QED BY <2>a, <2>b, <3>1, <3>2 DEF PInv, ExitIsOurs
  <2>. QED BY <2>c, <2>d
<1>. QED BY <1>4, <1>5, <1>6

(* A process is waited for, or left alone, and a session goes on. *)
LEMMA ReapP ==
    ASSUME PInv, NEW s \in Sess,
           TryWait(s) \/ CloseStream(s) \/ DropLive(s) \/ WaitOnce(s)
    PROVE  Minded' /\ OnePid' /\ ExitIsOurs'
<1>1. /\ \/ phase[s] = "live" /\ phase' = [phase EXCEPT ![s] = "closing"]
            /\ child_pid' = child_pid
         \/ phase[s] = "wait" /\ phase' = [phase EXCEPT ![s] = "gone"]
            /\ child_pid' = [child_pid EXCEPT ![s] = "none"]
      /\ stale' = stale
  BY DEF TryWait, CloseStream, DropLive, WaitOnce, Dropped, Gone, Goes
<1>2. \/ procs' = procs
      \/ /\ procs[child_pid[s]].state = "zombie"
         /\ procs' = [procs EXCEPT ![child_pid[s]] = NoProc]
  BY DEF TryWait, CloseStream, DropLive, WaitOnce
<1>3. /\ DOMAIN procs = Pids /\ DOMAIN phase = Sess /\ DOMAIN child_pid = Sess
      /\ child_pid[s] \in Pids /\ child_pid[s] # "none"
  BY <1>1, ConstantFacts DEF PInv, TInv, ProcsOK
<1>4. NoProc.state = "none"
  BY DEF NoProc
<1>5. \A p \in Pids : procs'[p].state = "alive" => procs'[p] = procs[p]
  BY <1>2, <1>3, <1>4
<1>6. Minded'
  BY <1>1, <1>3, <1>5 DEF PInv, Minded
<1>7. OnePid'
  BY <1>1, <1>3 DEF PInv, OnePid
<1>8. ExitIsOurs'
  <2>a. SUFFICES ASSUME ~stale', NEW t \in Sess, phase'[t] \in {"kid_ends", "live"}
                 PROVE  /\ procs'[child_pid'[t]].of = t
                        /\ procs'[child_pid'[t]].state # "none"
    BY Zenon DEF ExitIsOurs
  <2>b. t # s /\ phase'[t] = phase[t] /\ child_pid'[t] = child_pid[t] /\ ~stale
    BY <1>1, <1>3, <2>a
  <2>c. child_pid[t] \in Pids /\ child_pid[t] # child_pid[s]
    BY <1>3, <2>a, <2>b, ConstantFacts DEF PInv, OnePid, TInv, ProcsOK
  <2>d. procs'[child_pid[t]] = procs[child_pid[t]]
    BY <1>2, <1>3, <2>c
  <2>. QED BY <2>a, <2>b, <2>d DEF PInv, ExitIsOurs
<1>. QED BY <1>6, <1>7, <1>8

(* A process gets a signal, or ends. *)
LEMMA SignalP ==
    ASSUME PInv, (\E s \in Sess : Kill(s)) \/ \E p \in Pids : ShellExits(p)
    PROVE  Minded' /\ OnePid' /\ ExitIsOurs'
<1>1. ASSUME NEW s \in Sess, Kill(s) PROVE Minded' /\ OnePid' /\ ExitIsOurs'
  <2>a. /\ phase[s] = "kill" /\ phase' = [phase EXCEPT ![s] = "wait"]
        /\ child_pid' = child_pid /\ stale' = stale
    BY <1>1 DEF Kill, Goes
  <2>b. child_pid[s] \in Pids /\ procs \in [Pids -> Proc]
    BY <2>a DEF PInv, TInv, ProcsOK, Proc
  <2>c. \A p \in Pids :
           /\ procs'[p].state = procs[p].state /\ procs'[p].of = procs[p].of
           /\ procs'[p].term = (procs[p].term \/ (p = child_pid[s] /\ procs[p].state = "alive"))
    BY <1>1, <2>b DEF Kill, Proc
  <2>d. /\ DOMAIN phase = Sess
        /\ \A t \in Sess : phase[t] \in {"kid_ends", "live"} => child_pid[t] \in Pids
    BY DEF PInv, TInv, ProcsOK
  <2>e. Minded'
    <3>1. SUFFICES ASSUME NEW p \in Pids, procs'[p].state = "alive"
                   PROVE  /\ procs'[p].of \in Sess
                          /\ \/ procs'[p].term
                             \/ /\ phase'[procs'[p].of]
                                       \in {"kid_ends", "live", "closing", "kill"}
                                /\ child_pid'[procs'[p].of] = p
      BY Zenon DEF Minded
    <3>2. PICK t \in Sess : procs[p].of = t
      BY <2>c, <3>1 DEF PInv, Minded
    <3>3. CASE procs[p].term
      BY <2>c, <3>2, <3>3
    <3>4. CASE ~procs[p].term
      <4>1. phase[t] \in {"kid_ends", "live", "closing", "kill"} /\ child_pid[t] = p
        BY <2>c, <3>1, <3>2, <3>4 DEF PInv, Minded
      <4>2. CASE t = s
        BY <2>c, <3>1, <3>2, <4>1, <4>2
      <4>3. CASE t # s
        BY <2>a, <2>c, <2>d, <3>2, <4>1, <4>3
      <4>. QED BY <4>2, <4>3
    <3>. QED BY <3>3, <3>4
  <2>f. OnePid' /\ ExitIsOurs'
    BY <2>a, <2>c, <2>d DEF PInv, OnePid, ExitIsOurs
  <2>. QED BY <2>e, <2>f
<1>2. ASSUME NEW p \in Pids, ShellExits(p) PROVE Minded' /\ OnePid' /\ ExitIsOurs'
  <2>a. phase' = phase /\ child_pid' = child_pid /\ stale' = stale
    BY <1>2 DEF ShellExits, sess
  <2>b. procs \in [Pids -> Proc]
    BY DEF PInv, TInv, ProcsOK, Proc
  <2>c. \A q \in Pids :
           /\ q # p => procs'[q] = procs[q]
           /\ procs'[q].of = procs[q].of
           /\ procs'[p].state = "zombie"
    BY <1>2, <2>b DEF ShellExits, Proc
  <2>d. \A t \in Sess : phase[t] \in {"kid_ends", "live"} => child_pid[t] \in Pids
    BY DEF PInv, TInv, ProcsOK
  <2>e. Minded'
    BY <2>a, <2>c DEF PInv, Minded
  <2>f. OnePid' /\ ExitIsOurs'
    BY <2>a, <2>c, <2>d DEF PInv, OnePid, ExitIsOurs
  <2>. QED BY <2>e, <2>f
<1>. QED BY <1>1, <1>2

LEMMA NextP == PInv /\ [Next]_vars => PInv'
<1> SUFFICES ASSUME PInv, [Next]_vars PROVE PInv'
  OBVIOUS
<1>1. TInv'
  BY NextT DEF PInv
<1> SUFFICES Minded' /\ OnePid' /\ ExitIsOurs'
  BY <1>1 DEF PInv
<1>2. DOMAIN phase = Sess
  BY DEF PInv, TInv, ProcsOK
<1>3. CASE UNCHANGED vars
  <2>a. UNCHANGED <<procs, child_pid, stale, phase>>
    BY <1>3 DEF vars, sess
  <2>. QED BY <2>a, NoPidP
<1>4. CASE \E c \in Conns : Accept(c) \/ HangUp(c) \/ CloseSocket(c)
  <2>a. UNCHANGED <<procs, child_pid, stale, phase>>
    BY <1>4 DEF Accept, HangUp, CloseSocket, sess
  <2>. QED BY <2>a, NoPidP
<1>5. CASE \E c \in Conns, s \in Sess, k \in Kinds : OpenPty(c, s, k) \/ PipeIn(c, s, k)
  <2>a. PICK s \in Sess : /\ phase[s] = "unused"
                          /\ phase' = [phase EXCEPT ![s] = phase'[s]]
                          /\ phase'[s] \in {"pipe_out", "stderr", "fork"}
                          /\ UNCHANGED <<procs, child_pid, stale>>
    BY <1>2, <1>5 DEF OpenPty, PipeIn, Opens, Goes, AfterPipes
  <2>. QED BY <1>2, <2>a, NoPidP
<1>6. ASSUME NEW s \in Sess,
             PipeOut(s) \/ StderrPipe(s) \/ StderrPipeFails(s) \/ ForkFails(s)
      PROVE  Minded' /\ OnePid' /\ ExitIsOurs'
  <2>a. /\ phase[s] \in {"pipe_out", "stderr", "fork"}
        /\ phase' = [phase EXCEPT ![s] = phase'[s]]
        /\ phase'[s] \in {"stderr", "fork", "failed"}
        /\ UNCHANGED <<procs, child_pid, stale>>
    BY <1>2, <1>6 DEF PipeOut, StderrPipe, StderrPipeFails, ForkFails, Fails, Goes, AfterPipes
  <2>. QED BY <1>2, <2>a, NoPidP
<1>7. ASSUME NEW s \in Sess, CloseNext(s) PROVE Minded' /\ OnePid' /\ ExitIsOurs'
  <2>a. /\ phase' = [phase EXCEPT ![s] = phase'[s]]
        /\ \/ phase[s] = "kid_ends" /\ phase'[s] \in {"kid_ends", "live"}
           \/ phase[s] = "closing" /\ phase'[s] \in {"closing", "kill"}
        /\ UNCHANGED <<procs, child_pid, stale>>
    BY <1>2, <1>7 DEF CloseNext, Goes
  <2>. QED BY <1>2, <2>a, NoPidP
<1>8. ASSUME NEW s \in Sess, Works(s) \/ CloseStream(s) PROVE Minded' /\ OnePid' /\ ExitIsOurs'
  BY <1>6, <1>7, <1>8, ForkP, ReapP, SignalP DEF Works
<1>. QED BY <1>3, <1>4, <1>5, <1>8, SignalP DEF Next

(* A live session's pid is its own shell's, running or not yet waited for, *)
(* as long as no pid that a session goes by was given again.               *)
THEOREM ExitStatusIsOurs == Spec => []ExitIsOurs
<1>1. Spec => []PInv
  BY InitP, NextP, PTL DEF Spec
<1>2. PInv => ExitIsOurs
  BY DEF PInv
<1>. QED BY <1>1, <1>2, PTL

(* Every shell whose session is gone was told to stop. *)
THEOREM NoShellForgotten == Spec => []NoneForgotten
<1>1. Spec => []PInv
  BY InitP, NextP, PTL DEF Spec
<1>2. PInv => NoneForgotten
  BY DEF PInv, Minded, NoneForgotten
<1>. QED BY <1>1, <1>2, PTL

--------------------------------
(* Descriptors. *)

OursOf(s) == {ours[s].stdin_fd, ours[s].stdout_fd, ours[s].stderr_fd} \ {NoFd}
TheirsOf(s) ==
    {theirs[s].stdin_read, theirs[s].stdout_write, theirs[s].stderr_write} \ {NoFd}
Row(s) == {closing[s][i] : i \in DOMAIN closing[s]}

(* What a session means by its numbers. *)
Owns(s) ==
    /\ \A n \in OursOf(s) : fdt[n].of = s /\ fdt[n].part \in OurParts
    /\ \A n \in TheirsOf(s) : fdt[n].of = s /\ fdt[n].part \in KidParts
    /\ \A n \in Row(s) :
          /\ fdt[n].of = s
          /\ fdt[n].part \in (IF phase[s] = "kid_ends" THEN KidParts ELSE OurParts)

(* No number of a row is in it twice, or would be in the next. *)
Apart(s) ==
    /\ \A i, j \in DOMAIN closing[s] : i # j => closing[s][i] # closing[s][j]
    /\ ours[s].stderr_fd # NoFd =>
          ours[s].stderr_fd \notin {ours[s].stdin_fd, ours[s].stdout_fd}
    /\ theirs[s].stderr_write # NoFd =>
          theirs[s].stderr_write \notin {theirs[s].stdin_read, theirs[s].stdout_write}

(* A session that has not failed has all that is its own. *)
Keeps(s) ==
    phase[s] # "failed" =>
        \A n \in Numbers : IsEndOf(n, s) => n \in OursOf(s) \cup TheirsOf(s) \cup Row(s)

HasSocket(c) ==
    /\ conns[c].state \in {"new", "gone"} => conns[c].fd = NoFd
    /\ conns[c].state \in {"open", "ending"} =>
          conns[c].fd \in Numbers /\ fdt[conns[c].fd] = Socket(c)
    /\ \A n \in Numbers : fdt[n] = Socket(c) => conns[c].fd = n

(* No shell holds the daemon's side of its own session. *)
Apt(p) == \A e \in procs[p].holds : e.of = procs[p].of => e.part \in KidParts

Tidy(s) == Owns(s) /\ Apart(s) /\ Keeps(s)

Sound ==
    /\ \A s \in Sess : Tidy(s)
    /\ \A c \in Conns : HasSocket(c)
    /\ \A p \in Pids : Apt(p)

FInv == TInv /\ (~blind => Sound)

LEMMA EndFacts ==
    /\ \A s \in Sess, part \in Parts : End(s, part).of = s /\ End(s, part).part = part
    /\ \A c \in Conns : Socket(c).of = c /\ Socket(c).part = "socket"
    /\ Free.part = "free" /\ "free" \notin Parts /\ "socket" \notin Parts
    /\ OurParts \subseteq Parts /\ KidParts \subseteq Parts
    /\ \A part \in OurParts : part \notin KidParts
BY DEF End, Socket, Free, Parts, OurParts, KidParts

LEMMA KnownNumbers ==
    ASSUME TInv, NEW s \in Sess
    PROVE  OursOf(s) \subseteq Numbers /\ TheirsOf(s) \subseteq Numbers /\ Row(s) \subseteq Numbers
<1>1. OursOf(s) \subseteq Numbers /\ TheirsOf(s) \subseteq Numbers
  BY NumbersOf, ConstantFacts DEF OursOf, TheirsOf
<1>2. Row(s) \subseteq Numbers
  <2>a. closing[s] \in Seq(Numbers)
    BY NumbersOf
  <2>. QED BY <2>a, LenProperties DEF Row
<1>. QED BY <1>1, <1>2

LEMMA InitF == Init => FInv
<1> SUFFICES ASSUME Init PROVE FInv
  OBVIOUS
<1>1. \A n \in Numbers : fdt[n].part \notin Parts /\ fdt[n].part # "socket"
  BY DEF Init, Std, Free, End, Parts, OurParts, KidParts
<1>2. ASSUME NEW s \in Sess PROVE Tidy(s)
  <2>a. OursOf(s) = {} /\ TheirsOf(s) = {} /\ closing[s] = <<>>
    BY <1>2 DEF Init, OursOf, TheirsOf, NotOurs, NotTheirs, Ours, Theirs
  <2>b. ours[s].stderr_fd = NoFd /\ theirs[s].stderr_write = NoFd
    BY <1>2 DEF Init, NotOurs, NotTheirs, Ours, Theirs
  <2>. QED BY <1>1, <2>a, <2>b DEF Tidy, Owns, Apart, Keeps, Row, IsEndOf
<1>3. ASSUME NEW c \in Conns PROVE HasSocket(c)
  BY <1>1, <1>3, EndFacts DEF Init, HasSocket
<1>4. ASSUME NEW p \in Pids PROVE Apt(p)
  BY <1>4 DEF Init, Apt, NoProc
<1>. QED BY <1>2, <1>3, <1>4, InitT DEF FInv, Sound

(* A session stays tidy when the step neither takes nor gives it an end.   *)
LEMMA Untouched ==
    ASSUME TInv, NEW s \in Sess, Tidy(s),
           ours'[s] = ours[s], theirs'[s] = theirs[s], closing'[s] = closing[s],
           phase'[s] = phase[s],
           \A n \in Numbers : fdt'[n] = fdt[n] \/ (~IsEndOf(n, s) /\ ~IsEndOf(n, s)')
    PROVE  Tidy(s)'
<1>1. OursOf(s)' = OursOf(s) /\ TheirsOf(s)' = TheirsOf(s) /\ Row(s)' = Row(s)
  BY DEF OursOf, TheirsOf, Row
<1>2. Apart(s)'
  BY DEF Tidy, Apart
<1>3. \A n \in OursOf(s) \cup TheirsOf(s) \cup Row(s) : n \in Numbers /\ fdt'[n] = fdt[n]
  <2>a. \A n \in OursOf(s) \cup TheirsOf(s) \cup Row(s) : IsEndOf(n, s)
    BY EndFacts DEF Tidy, Owns, IsEndOf
  <2>. QED BY <2>a, KnownNumbers
<1>4. Owns(s)'
  BY <1>1, <1>3 DEF Tidy, Owns
<1>5. Keeps(s)'
  BY <1>1 DEF Tidy, Keeps, IsEndOf
<1>. QED BY <1>2, <1>4, <1>5 DEF Tidy

(* Two free numbers become the ends of something that s makes. *)
Gives(s, n, m) ==
    /\ n # m /\ fdt[n] = Free /\ fdt[m] = Free
    /\ fdt'[n].of = s /\ fdt'[n].part \in OurParts
    /\ fdt'[m].of = s /\ fdt'[m].part \in KidParts
    /\ \A x \in Numbers \ {n, m} : fdt'[x] = fdt[x]
    /\ OursOf(s)' = OursOf(s) \cup {n} /\ TheirsOf(s)' = TheirsOf(s) \cup {m}
    /\ closing[s] = <<>> /\ closing' = closing /\ phase[s] # "failed"
    /\ \A t \in Sess \ {s} :
          ours'[t] = ours[t] /\ theirs'[t] = theirs[t] /\ phase'[t] = phase[t]
    /\ conns' = conns /\ procs' = procs

LEMMA NewEnds ==
    ASSUME TInv, Sound, NEW s \in Sess, NEW n \in Numbers, NEW m \in Numbers,
           Gives(s, n, m), Apart(s)'
    PROVE  Sound'
<1> USE DEF Gives
<1>1. fdt'[n].part \in Parts /\ fdt'[m].part \in Parts
  BY EndFacts
<1>2. ASSUME NEW t \in Sess, t # s PROVE Tidy(t)'
  <2>a. \A x \in Numbers : fdt'[x] = fdt[x] \/ (~IsEndOf(x, t) /\ ~IsEndOf(x, t)')
    BY <1>1, <1>2, EndFacts DEF IsEndOf
  <2>. QED BY <1>2, <2>a, Untouched DEF Sound
<1>3. Tidy(s)'
  <2>a. /\ Tidy(s) /\ Row(s) = {} /\ Row(s)' = {}
    BY DEF Sound, Row
  <2>b. \A x \in OursOf(s) \cup TheirsOf(s) : x \in Numbers /\ x # n /\ x # m
    BY <2>a, KnownNumbers, EndFacts DEF Tidy, Owns
  <2>c. Owns(s)'
    BY <1>1, <2>a, <2>b DEF Tidy, Owns
  <2>d. Keeps(s)'
    BY <1>1, <2>a, <2>b DEF Tidy, Keeps, IsEndOf
  <2>. QED BY <2>c, <2>d DEF Tidy
<1>4. ASSUME NEW c \in Conns PROVE HasSocket(c)'
  <2>a. HasSocket(c) /\ fdt'[n] # Socket(c) /\ fdt'[m] # Socket(c)
    BY <1>1, <1>4, EndFacts DEF Sound
  <2>b. fdt[n] # Socket(c) /\ fdt[m] # Socket(c)
    BY <1>4, EndFacts
  <2>. QED BY <2>a, <2>b DEF HasSocket
<1>5. ASSUME NEW p \in Pids PROVE Apt(p)'
  BY <1>5 DEF Sound, Apt
<1>. QED BY <1>2, <1>3, <1>4, <1>5 DEF Sound

(* ShellSession::new up to the fork, when no pipe fails. *)
LEMMA OpenF ==
    ASSUME FInv, NEW c \in Conns, NEW s \in Sess, NEW k \in Kinds,
           OpenPty(c, s, k) \/ PipeIn(c, s, k), ~blind'
    PROVE  Sound'
<1>1. /\ phase[s] = "unused" /\ closing[s] = <<>> /\ closing' = closing
      /\ conns' = conns /\ procs' = procs
      /\ \A t \in Sess \ {s} : phase'[t] = phase[t]
      /\ OursOf(s) = {} /\ TheirsOf(s) = {}
  <2>a. ShapeOf(s) /\ phase \in [Sess -> Phases]
    BY DEF FInv, TInv, Shape, ProcsOK
  <2>b. /\ phase[s] = "unused" /\ closing' = closing /\ conns' = conns /\ procs' = procs
        /\ \A t \in Sess \ {s} : phase'[t] = phase[t]
    BY <2>a DEF OpenPty, PipeIn, Opens, Goes
  <2>. QED BY <2>a, <2>b DEF ShapeOf, Opening, OursOf, TheirsOf
<1>2. PICK n \in Numbers, m \in Numbers, a \in OurParts, b \in KidParts, o \in Fd, w \in Fd :
          /\ n # m /\ fdt[n] = Free /\ fdt[m] = Free
          /\ fdt' = [fdt EXCEPT ![n] = End(s, a), ![m] = End(s, b)]
          /\ ours' = [ours EXCEPT ![s] = Ours(n, o, NoFd)] /\ o \in {n, NoFd}
          /\ theirs' = [theirs EXCEPT ![s] = Theirs(m, w, NoFd)] /\ w \in {m, NoFd}
          /\ ~blind
  <2>a. CASE OpenPty(c, s, k)
    <3>1. HaveTwo /\ ~blind
      BY <2>a DEF OpenPty
    <3>2. "master" \in OurParts /\ "slave" \in KidParts
      BY DEF OurParts, KidParts
    <3>3. First \in Fd /\ Second \in Fd
      BY <3>1, FreeNumberPair, ConstantFacts
    <3>. QED BY <2>a, <3>1, <3>2, <3>3, FreeNumberPair DEF OpenPty
  <2>b. CASE PipeIn(c, s, k)
    <3>1. /\ HaveTwo /\ ~blind
          /\ fdt' = [fdt EXCEPT ![First] = End(s, "in_r"), ![Second] = End(s, "in_w")]
          /\ ours' = [ours EXCEPT ![s] = Ours(Second, NoFd, NoFd)]
          /\ theirs' = [theirs EXCEPT ![s] = Theirs(First, NoFd, NoFd)]
      BY <2>b DEF PipeIn
    <3>2. "in_w" \in OurParts /\ "in_r" \in KidParts
      BY DEF OurParts, KidParts
    <3>3. /\ First \in Numbers /\ Second \in Numbers /\ First # Second
          /\ fdt[First] = Free /\ fdt[Second] = Free
      BY <3>1, FreeNumberPair
    <3>4. fdt' = [fdt EXCEPT ![Second] = End(s, "in_w"), ![First] = End(s, "in_r")]
      BY <3>1, <3>3 DEF FInv, TInv, ProcsOK
    <3>. QED BY <3>1, <3>2, <3>3, <3>4, ConstantFacts
  <2>. QED BY <2>a, <2>b
<1>3. /\ fdt'[n] = End(s, a) /\ fdt'[m] = End(s, b)
      /\ \A x \in Numbers \ {n, m} : fdt'[x] = fdt[x]
  BY <1>2 DEF FInv, TInv, ProcsOK
<1>4. /\ ours'[s] = Ours(n, o, NoFd) /\ theirs'[s] = Theirs(m, w, NoFd)
      /\ \A t \in Sess \ {s} : ours'[t] = ours[t] /\ theirs'[t] = theirs[t]
  BY <1>2, FdsFunctions DEF FInv
<1>5. n \in Fd /\ m \in Fd /\ NoFd \in Fd /\ n # NoFd /\ m # NoFd
  BY ConstantFacts
<1>6. /\ ours'[s].stdin_fd = n /\ ours'[s].stdout_fd = o /\ ours'[s].stderr_fd = NoFd
      /\ theirs'[s].stdin_read = m /\ theirs'[s].stdout_write = w
      /\ theirs'[s].stderr_write = NoFd
  BY <1>4, <1>5, OursRecord, TheirsRecord
<1>7. OursOf(s)' = OursOf(s) \cup {n} /\ TheirsOf(s)' = TheirsOf(s) \cup {m}
  BY <1>1, <1>2, <1>5, <1>6 DEF OursOf, TheirsOf
<1>8. Apart(s)'
  BY <1>1, <1>6 DEF Apart
<1>9. TInv /\ Sound /\ phase[s] # "failed"
  BY <1>1, <1>2 DEF FInv
<1>10. Gives(s, n, m)
  <2>a. /\ fdt'[n].of = s /\ fdt'[n].part \in OurParts
        /\ fdt'[m].of = s /\ fdt'[m].part \in KidParts
    BY <1>3, EndFacts
  <2>. QED BY <1>1, <1>2, <1>3, <1>4, <1>7, <1>9, <2>a DEF Gives
<1>. QED BY <1>8, <1>9, <1>10, NewEnds

LEMMA PipesF ==
    ASSUME FInv, NEW s \in Sess, PipeOut(s) \/ StderrPipe(s), ~blind'
    PROVE  Sound'
<1>1. /\ phase[s] \in {"pipe_out", "stderr"} /\ closing[s] = <<>> /\ closing' = closing
      /\ conns' = conns /\ procs' = procs
      /\ \A t \in Sess \ {s} : phase'[t] = phase[t]
      /\ ours[s].stderr_fd = NoFd /\ theirs[s].stderr_write = NoFd
      /\ phase[s] = "pipe_out" => ours[s].stdout_fd = NoFd /\ theirs[s].stdout_write = NoFd
  <2>a. ShapeOf(s) /\ phase \in [Sess -> Phases]
    BY DEF FInv, TInv, Shape, ProcsOK
  <2>b. /\ phase[s] \in {"pipe_out", "stderr"} /\ closing' = closing
        /\ conns' = conns /\ procs' = procs
        /\ \A t \in Sess \ {s} : phase'[t] = phase[t]
    BY <2>a DEF PipeOut, StderrPipe, Goes
  <2>. QED BY <2>a, <2>b DEF ShapeOf, Opening
<1>2. /\ HaveTwo /\ ~blind
      /\ \E a \in OurParts, b \in KidParts :
            fdt' = [fdt EXCEPT ![First] = End(s, a), ![Second] = End(s, b)]
      /\ \/ /\ phase[s] = "pipe_out"
            /\ ours' = [ours EXCEPT ![s].stdout_fd = First]
            /\ theirs' = [theirs EXCEPT ![s].stdout_write = Second]
         \/ /\ phase[s] = "stderr"
            /\ ours' = [ours EXCEPT ![s].stderr_fd = First]
            /\ theirs' = [theirs EXCEPT ![s].stderr_write = Second]
  <2>a. /\ "out_r" \in OurParts /\ "err_r" \in OurParts
        /\ "out_w" \in KidParts /\ "err_w" \in KidParts
    BY DEF OurParts, KidParts
  <2>b. CASE PipeOut(s)
    <3>1. /\ HaveTwo /\ ~blind /\ phase[s] = "pipe_out"
          /\ fdt' = [fdt EXCEPT ![First] = End(s, "out_r"), ![Second] = End(s, "out_w")]
          /\ ours' = [ours EXCEPT ![s].stdout_fd = First]
          /\ theirs' = [theirs EXCEPT ![s].stdout_write = Second]
      BY <2>b DEF PipeOut
    <3>. QED BY <2>a, <3>1
  <2>c. CASE StderrPipe(s)
    <3>1. /\ HaveTwo /\ ~blind /\ phase[s] = "stderr"
          /\ fdt' = [fdt EXCEPT ![First] = End(s, "err_r"), ![Second] = End(s, "err_w")]
          /\ ours' = [ours EXCEPT ![s].stderr_fd = First]
          /\ theirs' = [theirs EXCEPT ![s].stderr_write = Second]
      BY <2>c DEF StderrPipe
    <3>. QED BY <2>a, <3>1
  <2>. QED BY <2>b, <2>c
<1>3. PICK n \in Numbers, m \in Numbers, a \in OurParts, b \in KidParts :
          /\ n = First /\ m = Second
          /\ n # m /\ fdt[n] = Free /\ fdt[m] = Free
          /\ fdt' = [fdt EXCEPT ![n] = End(s, a), ![m] = End(s, b)]
  <2>a. /\ First \in Numbers /\ Second \in Numbers /\ First # Second
        /\ fdt[First] = Free /\ fdt[Second] = Free
    BY <1>2, FreeNumberPair
  <2>b. PICK a \in OurParts, b \in KidParts :
            fdt' = [fdt EXCEPT ![First] = End(s, a), ![Second] = End(s, b)]
    BY <1>2
  <2>. QED BY <2>a, <2>b
<1>4. /\ fdt'[n] = End(s, a) /\ fdt'[m] = End(s, b)
      /\ \A x \in Numbers \ {n, m} : fdt'[x] = fdt[x]
  BY <1>3 DEF FInv, TInv, ProcsOK
<1>5. /\ ours \in [Sess -> [stdin_fd : Fd, stdout_fd : Fd, stderr_fd : Fd]]
      /\ theirs \in [Sess -> [stdin_read : Fd, stdout_write : Fd, stderr_write : Fd]]
  BY FdsFunctions DEF FInv
<1>6. n # NoFd /\ m # NoFd
  BY ConstantFacts
<1>7. TInv /\ Sound /\ Tidy(s) /\ phase[s] # "failed"
  BY <1>1, <1>2 DEF FInv, Sound
<1>8. /\ \A t \in Sess \ {s} : ours'[t] = ours[t] /\ theirs'[t] = theirs[t]
      /\ OursOf(s)' = OursOf(s) \cup {n} /\ TheirsOf(s)' = TheirsOf(s) \cup {m}
      /\ Apart(s)'
  <2>a. CASE phase[s] = "pipe_out"
    <3>1. /\ ours' = [ours EXCEPT ![s].stdout_fd = n]
          /\ theirs' = [theirs EXCEPT ![s].stdout_write = m]
      BY <1>2, <1>3, <2>a
    <3>2. /\ ours'[s].stdin_fd = ours[s].stdin_fd /\ ours'[s].stdout_fd = n
          /\ ours'[s].stderr_fd = NoFd
          /\ \A t \in Sess \ {s} : ours'[t] = ours[t]
      BY <1>1, <1>5, <3>1
    <3>3. /\ theirs'[s].stdin_read = theirs[s].stdin_read /\ theirs'[s].stdout_write = m
          /\ theirs'[s].stderr_write = NoFd
          /\ \A t \in Sess \ {s} : theirs'[t] = theirs[t]
      BY <1>1, <1>5, <3>1
    <3>. QED BY <1>1, <1>6, <2>a, <3>2, <3>3 DEF OursOf, TheirsOf, Apart
  <2>b. CASE phase[s] = "stderr"
    <3>1. /\ ours' = [ours EXCEPT ![s].stderr_fd = n]
          /\ theirs' = [theirs EXCEPT ![s].stderr_write = m]
      BY <1>2, <1>3, <2>b
    <3>2. /\ ours'[s].stdin_fd = ours[s].stdin_fd
          /\ ours'[s].stdout_fd = ours[s].stdout_fd /\ ours'[s].stderr_fd = n
          /\ \A t \in Sess \ {s} : ours'[t] = ours[t]
      BY <1>5, <3>1
    <3>3. /\ theirs'[s].stdin_read = theirs[s].stdin_read
          /\ theirs'[s].stdout_write = theirs[s].stdout_write /\ theirs'[s].stderr_write = m
          /\ \A t \in Sess \ {s} : theirs'[t] = theirs[t]
      BY <1>5, <3>1
    <3>4. OursOf(s)' = OursOf(s) \cup {n} /\ TheirsOf(s)' = TheirsOf(s) \cup {m}
      BY <1>1, <1>6, <3>2, <3>3 DEF OursOf, TheirsOf
    <3>5. n \notin OursOf(s) /\ m \notin TheirsOf(s)
      BY <1>3, <1>7, EndFacts DEF Tidy, Owns
    <3>6. Apart(s)'
      BY <1>1, <1>6, <3>2, <3>3, <3>5 DEF Apart, OursOf, TheirsOf
    <3>. QED BY <3>2, <3>3, <3>4, <3>6
  <2>. QED BY <1>1, <2>a, <2>b
<1>9. Gives(s, n, m)
  <2>a. /\ fdt'[n].of = s /\ fdt'[n].part \in OurParts
        /\ fdt'[m].of = s /\ fdt'[m].part \in KidParts
    BY <1>4, EndFacts
  <2>. QED BY <1>1, <1>3, <1>4, <1>7, <1>8, <2>a DEF Gives
<1>. QED BY <1>7, <1>8, <1>9, NewEnds

(* Nothing but one session changes, and nothing is opened, sent or closed. *)
LEMMA OnlyS ==
    ASSUME TInv, Sound, NEW s \in Sess, fdt' = fdt, conns' = conns,
           \A t \in Sess \ {s} :
              /\ ours'[t] = ours[t] /\ theirs'[t] = theirs[t]
              /\ closing'[t] = closing[t] /\ phase'[t] = phase[t],
           \A p \in Pids : Apt(p)', Tidy(s)'
    PROVE  Sound'
<1>1. ASSUME NEW t \in Sess, t # s PROVE Tidy(t)'
  BY <1>1, Untouched DEF Sound
<1>2. ASSUME NEW c \in Conns PROVE HasSocket(c)'
  BY <1>2 DEF Sound, HasSocket
<1>. QED BY <1>1, <1>2 DEF Sound

LEMMA FailsF ==
    ASSUME FInv, NEW s \in Sess, StderrPipeFails(s) \/ ForkFails(s), ~blind'
    PROVE  Sound'
<1>1. /\ phase[s] \in {"stderr", "fork"} /\ phase' = [phase EXCEPT ![s] = "failed"]
      /\ ours' = [ours EXCEPT ![s] = NotOurs] /\ theirs' = [theirs EXCEPT ![s] = NotTheirs]
      /\ UNCHANGED <<fdt, conns, closing, procs, blind>>
  BY DEF StderrPipeFails, ForkFails, Fails, Goes
<1>2. TInv /\ Sound /\ phase \in [Sess -> Phases]
  BY <1>1 DEF FInv, TInv, ProcsOK
<1>3. /\ phase'[s] = "failed" /\ ours'[s] = NotOurs /\ theirs'[s] = NotTheirs
      /\ \A t \in Sess \ {s} :
            ours'[t] = ours[t] /\ theirs'[t] = theirs[t] /\ phase'[t] = phase[t]
  BY <1>1, <1>2, FdsFunctions
<1>4. closing[s] = <<>>
  BY <1>1, <1>2 DEF TInv, Shape, ShapeOf
<1>5. Tidy(s)'
  <2>a. OursOf(s)' = {} /\ TheirsOf(s)' = {} /\ ours'[s].stderr_fd = NoFd
        /\ theirs'[s].stderr_write = NoFd
    BY <1>3 DEF OursOf, TheirsOf, NotOurs, NotTheirs, Ours, Theirs
  <2>. QED BY <1>1, <1>3, <1>4, <2>a DEF Tidy, Owns, Apart, Keeps, Row
<1>6. \A p \in Pids : Apt(p)'
  BY <1>1, <1>2 DEF Sound, Apt
<1>. QED BY <1>1, <1>2, <1>3, <1>5, <1>6, OnlyS

LEMMA ForkF ==
    ASSUME FInv, NEW s \in Sess, NEW p \in Pids, Fork(s, p), ~blind'
    PROVE  Sound'
<1> DEFINE shell == [state |-> "alive", of |-> s, term |-> FALSE, holds |-> Inherited(s)]
<1>1. /\ phase[s] = "fork" /\ phase' = [phase EXCEPT ![s] = "kid_ends"]
      /\ closing' = [closing EXCEPT ![s] = KidEnds(s)]
      /\ theirs' = [theirs EXCEPT ![s] = NotTheirs]
      /\ procs' = [procs EXCEPT ![p] = shell]
      /\ UNCHANGED <<fdt, conns, ours, blind>>
  BY DEF Fork, Goes
<1>2. /\ TInv /\ Sound /\ Tidy(s) /\ phase \in [Sess -> Phases]
      /\ closing \in [Sess -> Seq(Numbers)] /\ DOMAIN procs = Pids
  BY <1>1 DEF FInv, TInv, ProcsOK, Sound
<1>3. /\ phase'[s] = "kid_ends" /\ closing'[s] = KidEnds(s) /\ theirs'[s] = NotTheirs
      /\ \A t \in Sess \ {s} :
            /\ ours'[t] = ours[t] /\ theirs'[t] = theirs[t]
            /\ closing'[t] = closing[t] /\ phase'[t] = phase[t]
  BY <1>1, <1>2, FdsFunctions
<1>4. closing[s] = <<>> /\ Row(s) = {}
  BY <1>1, <1>2 DEF TInv, Shape, ShapeOf, Row
<1>5. /\ Row(s)' = TheirsOf(s) /\ TheirsOf(s)' = {} /\ OursOf(s)' = OursOf(s)
      /\ \A i, j \in DOMAIN closing'[s] : i # j => closing'[s][i] # closing'[s][j]
      /\ theirs'[s].stderr_write = NoFd
  <2>a. theirs[s].stdin_read \in Numbers /\ theirs[s].stdout_write \in Numbers
    BY <1>1, <1>2, NumbersOf, ConstantFacts DEF TInv, Shape, ShapeOf, Opening
  <2>b. theirs[s].stderr_write \in Fd
    BY <1>2, NumbersOf
  <2>c. theirs[s].stderr_write # NoFd =>
           theirs[s].stderr_write \notin {theirs[s].stdin_read, theirs[s].stdout_write}
    BY <1>2 DEF Tidy, Apart
  <2>d. PICK n \in Numbers, m \in Numbers, l \in Fd :
            /\ KidEnds(s) = Each(n, m, l) /\ TheirsOf(s) = {n, m, l} \ {NoFd}
            /\ l # NoFd => l \notin {n, m}
    BY <2>a, <2>b, <2>c DEF KidEnds, TheirsOf
  <2>e. PICK row : row = Each(n, m, l) /\ row = closing'[s]
    BY <1>3, <2>d
  <2>f. IsRowOf(row, n, m, l)
    BY <2>e, RowOf
  <2>g. TheirsOf(s)' = {} /\ theirs'[s].stderr_write = NoFd
    BY <1>3 DEF TheirsOf, NotTheirs, Theirs
  <2>h. OursOf(s)' = OursOf(s)
    BY <1>1 DEF OursOf
  <2>i. /\ {row[i] : i \in DOMAIN row} = {n, m, l} \ {NoFd}
        /\ \A i, j \in DOMAIN row : i # j => row[i] # row[j]
    BY <2>d, <2>f, Zenon DEF IsRowOf
  <2>j. Row(s)' = {n, m, l} \ {NoFd}
    BY <2>e, <2>i DEF Row
  <2>. QED BY <2>d, <2>e, <2>g, <2>h, <2>i, <2>j
<1>6. Tidy(s)'
  <2>a. Owns(s)'
    BY <1>1, <1>2, <1>3, <1>5 DEF Tidy, Owns
  <2>b. Apart(s)'
    BY <1>1, <1>2, <1>5 DEF Tidy, Apart
  <2>c. Keeps(s)'
    BY <1>1, <1>2, <1>4, <1>5 DEF Tidy, Keeps, IsEndOf
  <2>. QED BY <2>a, <2>b, <2>c DEF Tidy
<1>7. ASSUME NEW q \in Pids PROVE Apt(q)'
  <2>a. CASE q # p
    BY <1>1, <1>2, <1>7, <2>a DEF Sound, Apt
  <2>b. CASE q = p
    <3>1. procs'[p].of = s /\ procs'[p].holds = Inherited(s)
      BY <1>1, <1>2
    <3>2. ASSUME NEW e \in Inherited(s), e.of = s PROVE e.part \in KidParts
      <4>1. PICK n \in Numbers : fdt[n] = e /\ e.part \in Parts /\ n \notin OursOf(s)
        BY <3>2 DEF Inherited, OursOf
      <4>2. n \in TheirsOf(s)
        BY <1>1, <1>2, <1>4, <3>2, <4>1 DEF Tidy, Keeps, IsEndOf
      <4>. QED BY <1>2, <4>1, <4>2 DEF Tidy, Owns
    <3>. QED BY <2>b, <3>1, <3>2 DEF Apt
  <2>. QED BY <2>a, <2>b
<1>. QED BY <1>1, <1>2, <1>3, <1>6, <1>7, OnlyS

LEMMA DropF ==
    ASSUME FInv, NEW s \in Sess, TryWait(s) \/ CloseStream(s) \/ DropLive(s), ~blind'
    PROVE  Sound'
<1>1. /\ phase[s] = "live" /\ phase' = [phase EXCEPT ![s] = "closing"]
      /\ closing' = [closing EXCEPT ![s] = OurEnds(s)]
      /\ ours' = [ours EXCEPT ![s] = NotOurs]
      /\ UNCHANGED <<fdt, conns, theirs, blind>>
  BY DEF TryWait, CloseStream, DropLive, Dropped, Goes
<1>2. /\ TInv /\ Sound /\ Tidy(s) /\ phase \in [Sess -> Phases]
      /\ closing \in [Sess -> Seq(Numbers)] /\ DOMAIN procs = Pids
  BY <1>1 DEF FInv, TInv, ProcsOK, Sound
<1>3. /\ phase'[s] = "closing" /\ closing'[s] = OurEnds(s) /\ ours'[s] = NotOurs
      /\ \A t \in Sess \ {s} :
            /\ ours'[t] = ours[t] /\ theirs'[t] = theirs[t]
            /\ closing'[t] = closing[t] /\ phase'[t] = phase[t]
  BY <1>1, <1>2, FdsFunctions
<1>4. closing[s] = <<>> /\ Row(s) = {}
  BY <1>1, <1>2 DEF TInv, Shape, ShapeOf, Row
<1>5. /\ Row(s)' = OursOf(s) /\ OursOf(s)' = {} /\ TheirsOf(s)' = TheirsOf(s)
      /\ \A i, j \in DOMAIN closing'[s] : i # j => closing'[s][i] # closing'[s][j]
      /\ ours'[s].stderr_fd = NoFd
  <2>a. ours[s].stdin_fd \in Numbers /\ ours[s].stdout_fd \in Numbers
    BY <1>1, <1>2, NumbersOf, ConstantFacts DEF TInv, Shape, ShapeOf, Opening
  <2>b. ours[s].stderr_fd \in Fd
    BY <1>2, NumbersOf
  <2>c. ours[s].stderr_fd # NoFd => ours[s].stderr_fd \notin {ours[s].stdin_fd, ours[s].stdout_fd}
    BY <1>2 DEF Tidy, Apart
  <2>d. PICK n \in Numbers, m \in Numbers, l \in Fd :
            /\ OurEnds(s) = Each(n, m, l) /\ OursOf(s) = {n, m, l} \ {NoFd}
            /\ l # NoFd => l \notin {n, m}
    BY <2>a, <2>b, <2>c DEF OurEnds, OursOf
  <2>e. PICK row : row = Each(n, m, l) /\ row = closing'[s]
    BY <1>3, <2>d
  <2>f. IsRowOf(row, n, m, l)
    BY <2>e, RowOf
  <2>g. OursOf(s)' = {} /\ ours'[s].stderr_fd = NoFd
    BY <1>3 DEF OursOf, NotOurs, Ours
  <2>h. TheirsOf(s)' = TheirsOf(s)
    BY <1>1 DEF TheirsOf
  <2>i. /\ {row[i] : i \in DOMAIN row} = {n, m, l} \ {NoFd}
        /\ \A i, j \in DOMAIN row : i # j => row[i] # row[j]
    BY <2>d, <2>f, Zenon DEF IsRowOf
  <2>j. Row(s)' = {n, m, l} \ {NoFd}
    BY <2>e, <2>i DEF Row
  <2>. QED BY <2>d, <2>e, <2>g, <2>h, <2>i, <2>j
<1>6. Tidy(s)'
  <2>a. Owns(s)'
    BY <1>1, <1>2, <1>3, <1>5 DEF Tidy, Owns
  <2>b. Apart(s)'
    BY <1>1, <1>2, <1>5 DEF Tidy, Apart
  <2>c. Keeps(s)'
    BY <1>1, <1>2, <1>4, <1>5 DEF Tidy, Keeps, IsEndOf
  <2>. QED BY <2>a, <2>b, <2>c DEF Tidy
<1>7. ASSUME NEW q \in Pids PROVE Apt(q)'
  <2>a. \/ procs' = procs
        \/ procs' = [procs EXCEPT ![child_pid[s]] = NoProc]
    BY DEF TryWait, CloseStream, DropLive
  <2>b. procs'[q] = procs[q] \/ procs'[q] = NoProc
    BY <1>2, <1>7, <2>a
  <2>. QED BY <1>2, <1>7, <2>b DEF Sound, Apt, NoProc
<1>. QED BY <1>1, <1>2, <1>3, <1>6, <1>7, OnlyS

LEMMA CloseF ==
    ASSUME FInv, NEW s \in Sess, CloseNext(s), ~blind'
    PROVE  Sound'
<1>1. /\ phase[s] \in {"kid_ends", "closing"}
      /\ fdt' = [fdt EXCEPT ![Head(closing[s])] = Free]
      /\ closing' = [closing EXCEPT ![s] = Tail(closing[s])]
      /\ UNCHANGED <<conns, ours, theirs, procs, blind>>
  BY DEF CloseNext, Closed, FInv, TInv, ProcsOK
<1>2. /\ TInv /\ Sound /\ Tidy(s) /\ phase \in [Sess -> Phases]
      /\ closing \in [Sess -> Seq(Numbers)] /\ DOMAIN fdt = Numbers
      /\ TInv'
  BY <1>1, CloseT DEF FInv, TInv, ProcsOK, Sound
<1>3. /\ \A t \in Sess \ {s} : closing'[t] = closing[t] /\ phase'[t] = phase[t]
      /\ closing'[s] = Tail(closing[s])
      /\ phase'[s] \in {phase[s], "live", "kill"}
  <2>a. phase' = [phase EXCEPT ![s] = phase'[s]] /\ phase'[s] \in {phase[s], "live", "kill"}
    BY <1>2 DEF CloseNext, Goes
  <2>. QED BY <1>1, <1>2, <2>a
<1>4. closing[s] \in Seq(Numbers) /\ closing[s] # <<>>
  BY <1>1, <1>2 DEF TInv, Shape, ShapeOf
<1>5. PICK h \in Numbers :
          /\ h = Head(closing[s]) /\ h \in Row(s)
          /\ Row(s)' \subseteq Row(s) \ {h} /\ Row(s) \ {h} \subseteq Row(s)'
          /\ \A i, j \in DOMAIN closing'[s] : i # j => closing'[s][i] # closing'[s][j]
  <2>a. PICK len \in Nat \ {0} : len = Len(closing[s])
    BY <1>4, EmptySeq
  <2>b. DOMAIN closing[s] = 1 .. len
    BY <1>4, <2>a, LenProperties
  <2>c. /\ Head(closing[s]) \in Numbers /\ Tail(closing[s]) \in Seq(Numbers)
        /\ Len(Tail(closing[s])) = len - 1
        /\ \A i \in 1 .. Len(Tail(closing[s])) : Tail(closing[s])[i] = closing[s][i + 1]
    BY <1>4, <2>a, HeadTailProperties
  <2>d. DOMAIN Tail(closing[s]) = 1 .. Len(Tail(closing[s]))
    BY <2>c, LenProperties
  <2>e. Head(closing[s]) = closing[s][1]
    BY <1>4
  <2>f. PICK q, r : q = closing[s] /\ r = Tail(closing[s])
    OBVIOUS
  <2>g. /\ DOMAIN q = 1 .. len /\ DOMAIN r = 1 .. (len - 1)
        /\ \A i \in 1 .. (len - 1) : r[i] = q[i + 1]
        /\ \A i, j \in 1 .. len : i # j => q[i] # q[j]
    BY <1>2, <2>b, <2>c, <2>d, <2>f DEF Tidy, Apart
  <2>h. \A i \in 1 .. (len - 1) : i + 1 \in 1 .. len /\ i + 1 # 1
    BY <2>a
  <2>i. \A j \in 1 .. len : j # 1 => j - 1 \in 1 .. (len - 1) /\ (j - 1) + 1 = j
    BY <2>a
  <2>j. 1 \in 1 .. len
    BY <2>a
  <2>k. \A i, j \in DOMAIN r : i # j => r[i] # r[j]
    <3>1. SUFFICES ASSUME NEW i \in 1 .. (len - 1), NEW j \in 1 .. (len - 1), i # j
                   PROVE  r[i] # r[j]
      BY <2>g
    <3>2. i + 1 \in 1 .. len /\ j + 1 \in 1 .. len /\ i + 1 # j + 1
      BY <2>a, <3>1
    <3>. QED BY <2>g, <3>2
  <2>l. \A i \in DOMAIN r : r[i] # q[1] /\ \E j \in DOMAIN q : q[j] = r[i]
    BY <2>g, <2>h, <2>j
  <2>m. \A j \in DOMAIN q : q[j] = q[1] \/ \E i \in DOMAIN r : r[i] = q[j]
    BY <2>g, <2>i
  <2>n. Row(s) = {q[i] : i \in DOMAIN q} /\ Row(s)' = {r[i] : i \in DOMAIN r}
    BY <1>3, <2>f DEF Row
  <2>o. q[1] = Head(closing[s]) /\ q[1] \in Row(s)
    BY <2>e, <2>f, <2>g, <2>j, <2>n
  <2>p. Row(s)' \subseteq Row(s) \ {q[1]} /\ Row(s) \ {q[1]} \subseteq Row(s)'
    BY <2>l, <2>m, <2>n
  <2>. QED BY <1>3, <2>c, <2>f, <2>k, <2>o, <2>p
<1>6. fdt'[h] = Free /\ \A n \in Numbers \ {h} : fdt'[n] = fdt[n]
  BY <1>1, <1>2, <1>5
<1>7. /\ fdt[h].of = s /\ fdt[h].part \in Parts
      /\ fdt[h].part \in (IF phase[s] = "kid_ends" THEN KidParts ELSE OurParts)
  BY <1>2, <1>5, EndFacts DEF Tidy, Owns
<1>8. ASSUME NEW t \in Sess, t # s PROVE Tidy(t)'
  <2>a. \A n \in Numbers : fdt'[n] = fdt[n] \/ (~IsEndOf(n, t) /\ ~IsEndOf(n, t)')
    BY <1>6, <1>7, <1>8, EndFacts DEF IsEndOf
  <2>. QED BY <1>1, <1>2, <1>3, <1>8, <2>a, Untouched DEF Sound
<1>9. Tidy(s)'
  <2>a. OursOf(s)' = OursOf(s) /\ TheirsOf(s)' = TheirsOf(s) /\ TheirsOf(s) = {}
    <3>1. /\ theirs[s].stdin_read = NoFd /\ theirs[s].stdout_write = NoFd
          /\ theirs[s].stderr_write = NoFd
      BY <1>1, <1>2 DEF TInv, Shape, ShapeOf, Opening
    <3>. QED BY <1>1, <3>1 DEF OursOf, TheirsOf
  <2>b. h \notin OursOf(s)
    <3>1. CASE phase[s] = "kid_ends"
      BY <1>2, <1>7, <3>1, EndFacts DEF Tidy, Owns
    <3>2. CASE phase[s] = "closing"
      <4>1. ours[s].stdin_fd = NoFd /\ ours[s].stdout_fd = NoFd /\ ours[s].stderr_fd = NoFd
        BY <1>2, <3>2 DEF TInv, Shape, ShapeOf, Opening
      <4>. QED BY <4>1 DEF OursOf
    <3>. QED BY <1>1, <3>1, <3>2
  <2>c. phase'[s] # phase[s] => Row(s)' = {}
    <3>1. phase'[s] # phase[s] => closing'[s] = <<>>
      BY <1>1, <1>2, <1>3 DEF TInv, Shape, ShapeOf
    <3>. QED BY <3>1 DEF Row
  <2>d. \A n \in OursOf(s) \cup Row(s)' : n \in Numbers /\ n # h
    BY <1>2, <1>5, <2>b, KnownNumbers
  <2>e. Owns(s)'
    BY <1>2, <1>5, <1>6, <2>a, <2>c, <2>d DEF Tidy, Owns
  <2>f. Apart(s)'
    BY <1>1, <1>2, <1>5 DEF Tidy, Apart
  <2>g. Keeps(s)'
    BY <1>1, <1>2, <1>5, <1>6, <2>a, EndFacts DEF Tidy, Keeps, IsEndOf
  <2>. QED BY <2>e, <2>f, <2>g DEF Tidy
<1>10. ASSUME NEW c \in Conns PROVE HasSocket(c)'
  BY <1>1, <1>2, <1>6, <1>7, <1>10, EndFacts DEF Sound, HasSocket
<1>11. ASSUME NEW p \in Pids PROVE Apt(p)'
  BY <1>1, <1>2, <1>11 DEF Sound, Apt
<1>. QED BY <1>8, <1>9, <1>10, <1>11 DEF Sound

LEMMA CleanupF ==
    ASSUME FInv, NEW s \in Sess, Kill(s) \/ WaitOnce(s), ~blind'
    PROVE  Sound'
<1>1. /\ phase' = [phase EXCEPT ![s] = phase'[s]]
      /\ phase[s] \in {"kill", "wait"} /\ phase'[s] \in {"wait", "gone"}
      /\ UNCHANGED <<fdt, conns, ours, theirs, closing, blind>>
  BY DEF Kill, WaitOnce, Gone, Goes, fds, FInv, TInv, ProcsOK
<1>2. /\ TInv /\ Sound /\ Tidy(s) /\ phase \in [Sess -> Phases]
      /\ procs \in [Pids -> Proc]
  BY <1>1 DEF FInv, TInv, ProcsOK, Sound, Proc
<1>3. \A t \in Sess \ {s} :
         /\ ours'[t] = ours[t] /\ theirs'[t] = theirs[t]
         /\ closing'[t] = closing[t] /\ phase'[t] = phase[t]
  BY <1>1, <1>2
<1>4. Tidy(s)'
  <2>a. /\ OursOf(s)' = OursOf(s) /\ TheirsOf(s)' = TheirsOf(s) /\ Row(s)' = Row(s)
        /\ Row(s) = {}
    BY <1>1, <1>2 DEF OursOf, TheirsOf, Row, TInv, Shape, ShapeOf
  <2>. QED BY <1>1, <1>2, <2>a DEF Tidy, Owns, Apart, Keeps, IsEndOf
<1>5. ASSUME NEW q \in Pids PROVE Apt(q)'
  <2>a. child_pid[s] \in Pids
    BY <1>1, <1>2 DEF TInv, ProcsOK
  <2>b. \/ procs'[q].of = procs[q].of /\ procs'[q].holds = procs[q].holds
        \/ procs'[q] = NoProc
    BY <1>2, <1>5, <2>a DEF Kill, WaitOnce, Proc
  <2>. QED BY <1>2, <1>5, <2>b DEF Sound, Apt, NoProc
<1>. QED BY <1>1, <1>2, <1>3, <1>4, <1>5, OnlyS

LEMMA AroundF ==
    ASSUME FInv, ~blind',
           (\E c \in Conns : Accept(c) \/ HangUp(c) \/ CloseSocket(c))
               \/ \E p \in Pids : ShellExits(p)
    PROVE  Sound'
<1>1. /\ UNCHANGED <<phase, ours, theirs, closing>> /\ TInv /\ Sound
      /\ fdt \in [Numbers -> Ends \cup {Free}]
      /\ conns \in [Conns -> [state : {"new", "open", "ending", "gone"}, fd : Fd]]
      /\ procs \in [Pids -> Proc]
  BY DEF Accept, HangUp, CloseSocket, ShellExits, sess, fds, FInv, TInv, ProcsOK, Proc
<1>2. ASSUME NEW c \in Conns, Accept(c) PROVE Sound'
  <2>a. /\ First \in Numbers /\ fdt[First] = Free
        /\ conns[c].state = "new" /\ procs' = procs
        /\ fdt' = [fdt EXCEPT ![First] = Socket(c)]
        /\ conns' = [conns EXCEPT ![c] = [state |-> "open", fd |-> First]]
    BY <1>2, FreeNumber DEF Accept
  <2>b. PICK n \in Numbers :
            /\ fdt[n] = Free /\ fdt'[n] = Socket(c)
            /\ \A m \in Numbers \ {n} : fdt'[m] = fdt[m]
            /\ conns'[c].state = "open" /\ conns'[c].fd = n
            /\ \A d \in Conns \ {c} : conns'[d] = conns[d]
    BY <1>1, <2>a
  <2>c. ASSUME NEW t \in Sess PROVE Tidy(t)'
    BY <1>1, <2>b, <2>c, EndFacts, Untouched DEF Sound, IsEndOf
  <2>d. ASSUME NEW d \in Conns PROVE HasSocket(d)'
    <3>1. HasSocket(d) /\ HasSocket(c) /\ NoFd \notin Numbers
      BY <1>1, <2>d, ConstantFacts DEF Sound
    <3>2. fdt[n] # Socket(d) /\ (d # c => fdt'[n] # Socket(d))
      BY <2>b, <2>d, EndFacts
    <3>3. CASE d = c
      BY <2>a, <2>b, <3>1, <3>3 DEF HasSocket
    <3>4. CASE d # c
      BY <2>b, <2>d, <3>1, <3>2, <3>4 DEF HasSocket
    <3>. QED BY <3>3, <3>4
  <2>e. ASSUME NEW p \in Pids PROVE Apt(p)'
    BY <1>1, <2>a, <2>e DEF Sound, Apt
  <2>. QED BY <2>c, <2>d, <2>e DEF Sound
<1>3. ASSUME NEW c \in Conns, HangUp(c) PROVE Sound'
  <2>a. /\ fdt' = fdt /\ procs' = procs /\ conns[c].state = "open"
        /\ conns' = [conns EXCEPT ![c].state = "ending"]
    BY <1>3 DEF HangUp, Ready
  <2>b. /\ conns'[c].state = "ending" /\ conns'[c].fd = conns[c].fd
        /\ \A d \in Conns \ {c} : conns'[d] = conns[d]
    BY <1>1, <2>a
  <2>c. ASSUME NEW t \in Sess PROVE Tidy(t)'
    BY <1>1, <2>a, <2>c, Untouched DEF Sound
  <2>d. ASSUME NEW d \in Conns PROVE HasSocket(d)'
    BY <1>1, <2>a, <2>b, <2>d DEF Sound, HasSocket
  <2>e. ASSUME NEW p \in Pids PROVE Apt(p)'
    BY <1>1, <2>a, <2>e DEF Sound, Apt
  <2>. QED BY <2>c, <2>d, <2>e DEF Sound
<1>4. ASSUME NEW c \in Conns, CloseSocket(c) PROVE Sound'
  <2>a. /\ procs' = procs /\ conns[c].state = "ending"
        /\ fdt' = [fdt EXCEPT ![conns[c].fd] = Free]
        /\ conns' = [conns EXCEPT ![c] = [state |-> "gone", fd |-> NoFd]]
    BY <1>4 DEF CloseSocket, Closed
  <2>b. PICK n \in Numbers :
            /\ n = conns[c].fd /\ fdt[n] = Socket(c) /\ fdt'[n] = Free
            /\ \A m \in Numbers \ {n} : fdt'[m] = fdt[m]
            /\ conns'[c].state = "gone" /\ conns'[c].fd = NoFd
            /\ \A d \in Conns \ {c} : conns'[d] = conns[d]
    <3>1. conns[c].fd \in Numbers /\ fdt[conns[c].fd] = Socket(c)
      BY <1>1, <2>a DEF Sound, HasSocket
    <3>. QED BY <1>1, <2>a, <3>1
  <2>c. ASSUME NEW t \in Sess PROVE Tidy(t)'
    BY <1>1, <2>b, <2>c, EndFacts, Untouched DEF Sound, IsEndOf
  <2>d. ASSUME NEW d \in Conns PROVE HasSocket(d)'
    <3>1. HasSocket(d) /\ HasSocket(c)
      BY <1>1, <2>d DEF Sound
    <3>2. fdt'[n] # Socket(d) /\ (d # c => fdt[n] # Socket(d))
      BY <2>b, <2>d, EndFacts
    <3>3. CASE d = c
      BY <2>a, <2>b, <3>1, <3>2, <3>3 DEF HasSocket
    <3>4. CASE d # c
      BY <2>b, <2>d, <3>1, <3>2, <3>4 DEF HasSocket
    <3>. QED BY <3>3, <3>4
  <2>e. ASSUME NEW p \in Pids PROVE Apt(p)'
    BY <1>1, <2>a, <2>e DEF Sound, Apt
  <2>. QED BY <2>c, <2>d, <2>e DEF Sound
<1>5. ASSUME NEW p \in Pids, ShellExits(p) PROVE Sound'
  <2>a. fdt' = fdt /\ conns' = conns
    BY <1>5 DEF ShellExits
  <2>b. \A q \in Pids : procs'[q].of = procs[q].of /\ procs'[q].holds \subseteq procs[q].holds
    BY <1>1, <1>5 DEF ShellExits, Proc
  <2>c. ASSUME NEW t \in Sess PROVE Tidy(t)'
    BY <1>1, <2>a, <2>c, Untouched DEF Sound
  <2>d. ASSUME NEW d \in Conns PROVE HasSocket(d)'
    BY <1>1, <2>a, <2>d DEF Sound, HasSocket
  <2>e. ASSUME NEW q \in Pids PROVE Apt(q)'
    BY <1>1, <2>b, <2>e DEF Sound, Apt
  <2>. QED BY <2>c, <2>d, <2>e DEF Sound
<1>. QED BY <1>2, <1>3, <1>4, <1>5

LEMMA NextF == FInv /\ [Next]_vars => FInv'
<1> SUFFICES ASSUME FInv, [Next]_vars PROVE FInv'
  OBVIOUS
<1>1. TInv'
  BY NextT DEF FInv
<1> SUFFICES ASSUME ~blind' PROVE Sound'
  BY <1>1 DEF FInv
<1>2. CASE UNCHANGED vars
  <2>a. /\ UNCHANGED <<fdt, conns, phase, ours, theirs, closing, procs, blind>>
        /\ Sound
    BY <1>2 DEF vars, sess, fds, FInv
  <2>b. ASSUME NEW s \in Sess PROVE Tidy(s)'
    BY <2>a, <2>b, Untouched DEF Sound, FInv
  <2>c. ASSUME NEW c \in Conns PROVE HasSocket(c)'
    BY <2>a, <2>c DEF Sound, HasSocket
  <2>d. ASSUME NEW p \in Pids PROVE Apt(p)'
    BY <2>a, <2>d DEF Sound, Apt
  <2>. QED BY <2>b, <2>c, <2>d DEF Sound
<1>3. CASE (\E c \in Conns : Accept(c) \/ HangUp(c) \/ CloseSocket(c))
               \/ \E p \in Pids : ShellExits(p)
  BY <1>3, AroundF
<1>4. CASE \E c \in Conns, s \in Sess, k \in Kinds : OpenPty(c, s, k) \/ PipeIn(c, s, k)
  BY <1>4, OpenF
<1>5. ASSUME NEW s \in Sess, Works(s) \/ CloseStream(s) PROVE Sound'
  BY <1>5, PipesF, FailsF, ForkF, CloseF, DropF, CleanupF DEF Works
<1>. QED BY <1>2, <1>3, <1>4, <1>5 DEF Next

LEMMA AllF == Spec => []FInv
BY InitF, NextF, PTL DEF Spec

LEMMA KnownOf ==
    ASSUME NEW s \in Sess
    PROVE  Known(s) = OursOf(s) \cup TheirsOf(s) \cup Row(s)
BY DEF Known, OursOf, TheirsOf, Row

(* Whatever a thread reads, writes or closes is what it thinks it is, as   *)
(* long as no call to pipe has failed unseen.                              *)
THEOREM DescriptorsAreOwned == Spec => []FdsOwned
<1>1. FInv => FdsOwned
  <2> SUFFICES ASSUME FInv, ~blind PROVE
          /\ \A s \in Sess : \A n \in Known(s) : IsEndOf(n, s)
          /\ \A c \in Conns : conns[c].state \in {"open", "ending"}
                                 => fdt[conns[c].fd] = Socket(c)
    BY DEF FdsOwned
  <2>a. ASSUME NEW s \in Sess, NEW n \in Known(s) PROVE IsEndOf(n, s)
    BY <2>a, KnownOf, EndFacts DEF FInv, Sound, Tidy, Owns, IsEndOf
  <2>b. ASSUME NEW c \in Conns PROVE conns[c].state \in {"open", "ending"}
                                        => fdt[conns[c].fd] = Socket(c)
    BY <2>b DEF FInv, Sound, HasSocket
  <2>. QED BY <2>a, <2>b
<1>. QED BY <1>1, AllF, PTL

(* No descriptor is lost sight of but those of a session that failed to    *)
(* start, as long as no call to pipe has failed unseen.                    *)
THEOREM DescriptorsDoNotLeak == Spec => []NoneLeaked
<1>1. FInv => NoneLeaked
  <2> SUFFICES ASSUME FInv, ~blind, NEW n \in Numbers PROVE
          /\ \A s \in Sess : IsEndOf(n, s) /\ phase[s] # "failed" => n \in Known(s)
          /\ \A c \in Conns : fdt[n] = Socket(c) => conns[c].fd = n
    BY DEF NoneLeaked
  <2>a. ASSUME NEW s \in Sess, IsEndOf(n, s), phase[s] # "failed" PROVE n \in Known(s)
    BY <2>a, KnownOf DEF FInv, Sound, Tidy, Keeps
  <2>b. ASSUME NEW c \in Conns, fdt[n] = Socket(c) PROVE conns[c].fd = n
    BY <2>b DEF FInv, Sound, HasSocket
  <2>. QED BY <2>a, <2>b
<1>. QED BY <1>1, AllF, PTL

--------------------------------
(* Who feeds whom. *)

(* A thread is in the middle of one session at a time. *)
Single ==
    \A s, t \in Sess :
        phase[s] \in Transit /\ phase[t] \in Transit /\ conn[s] = conn[t] => s = t

(* A process that holds anything is the shell of a session that was made. *)
Placed ==
    \A p \in Pids :
        procs[p].holds # {} =>
            procs[p].of \in Sess /\ phase[procs[p].of] \notin Making \cup {"unused"}

Has(p, s) == \E e \in procs[p].holds : e.of = s

(* As long as a session is being made, no shell of its connection has an   *)
(* end of it; before, nobody has.                                          *)
Later ==
    \A p \in Pids, s \in Sess :
        Has(p, s) =>
            /\ phase[s] # "unused"
            /\ phase[s] \in Making => conn[procs[p].of] # conn[s]

(* What NoCircle says of two shells.                                       *)
Mutual(p, q) ==
    /\ procs[p].holds \cap Feeds(procs[q].of) # {}
    /\ procs[q].holds \cap Feeds(procs[p].of) # {}

Apiece == \A p, q \in Pids : p # q /\ Mutual(p, q) => conn[procs[p].of] # conn[procs[q].of]

CInv == FInv /\ Single /\ Placed /\ (~blind => Later /\ Apiece)

LEMMA FeedFacts ==
    ASSUME NEW s, NEW e \in Feeds(s)
    PROVE  e.of = s /\ e.part \in OurParts
BY DEF Feeds, End, OurParts

LEMMA MutualFacts ==
    ASSUME Placed, NEW p \in Pids, NEW q \in Pids, Mutual(p, q)
    PROVE  /\ procs[p].of \in Sess /\ procs[q].of \in Sess
           /\ Has(p, procs[q].of) /\ Has(q, procs[p].of)
           /\ phase[procs[p].of] # "unused" /\ phase[procs[q].of] # "unused"
<1>1. procs[p].holds # {} /\ procs[q].holds # {}
  BY DEF Mutual
<1>2. Has(p, procs[q].of) /\ Has(q, procs[p].of)
  BY FeedFacts DEF Mutual, Has
<1>. QED BY <1>1, <1>2 DEF Placed

LEMMA InitC == Init => CInv
<1> SUFFICES ASSUME Init PROVE CInv
  OBVIOUS
<1>1. /\ \A p \in Pids : procs[p].holds = {}
      /\ \A s \in Sess : phase[s] = "unused"
  BY DEF Init, NoProc
<1>2. "unused" \notin Transit
  BY DEF Transit, Making
<1>. QED BY <1>1, <1>2, InitF DEF CInv, Single, Placed, Later, Apiece, Has, Mutual

(* A step that gives no process anything, and begins nothing in a thread   *)
(* that is in the middle of something.                                     *)
LEMMA QuietC ==
    ASSUME CInv, conn' = conn, ~blind' => ~blind,
           \A p \in Pids :
              \/ procs'[p].holds = {}
              \/ procs'[p].holds \subseteq procs[p].holds /\ procs'[p].of = procs[p].of,
           \A s \in Sess :
              /\ phase[s] = "unused" <=> phase'[s] = "unused"
              /\ phase'[s] \in Making => phase[s] \in Making
              /\ phase'[s] \in Transit =>
                    \/ phase[s] \in Transit
                    \/ ~Busy(conn[s]) /\ \A t \in Sess \ {s} : phase'[t] = phase[t]
    PROVE  Single' /\ Placed' /\ (~blind' => Later' /\ Apiece')
<1>1. Single'
  <2> SUFFICES ASSUME NEW s \in Sess, NEW t \in Sess, s # t, conn[s] = conn[t],
                      phase'[s] \in Transit, phase'[t] \in Transit
               PROVE  FALSE
    BY DEF Single
  <2>a. CASE phase[s] \in Transit /\ phase[t] \in Transit
    BY <2>a DEF CInv, Single
  <2>b. CASE phase[s] \notin Transit
    BY <2>b DEF Busy
  <2>c. CASE phase[t] \notin Transit
    BY <2>c DEF Busy
  <2>. QED BY <2>a, <2>b, <2>c
<1>2. Placed'
  BY DEF CInv, Placed
<1>3. ASSUME ~blind' PROVE Later'
  BY <1>3 DEF CInv, Later, Has
<1>4. ASSUME ~blind' PROVE Apiece'
  <2> SUFFICES ASSUME NEW p \in Pids, NEW q \in Pids, p # q, Mutual(p, q)'
               PROVE  conn[procs'[p].of] # conn[procs'[q].of]
    BY DEF Apiece
  <2>a. procs'[p].holds # {} /\ procs'[q].holds # {}
    BY DEF Mutual
  <2>b. procs'[p].of = procs[p].of /\ procs'[q].of = procs[q].of
    BY <2>a
  <2>c. Mutual(p, q)
    BY <2>a, <2>b DEF Mutual, Feeds
  <2>. QED BY <1>4, <2>b, <2>c DEF CInv, Apiece
<1>. QED BY <1>1, <1>2, <1>3, <1>4

LEMMA OpenC ==
    ASSUME CInv, NEW c \in Conns, NEW s \in Sess, NEW k \in Kinds,
           OpenPty(c, s, k) \/ PipeIn(c, s, k)
    PROVE  Single' /\ Placed' /\ (~blind' => Later' /\ Apiece')
<1>1. /\ phase[s] = "unused" /\ ~Busy(c) /\ procs' = procs
      /\ conn' = [conn EXCEPT ![s] = c]
      /\ \E next \in Making : phase' = [phase EXCEPT ![s] = next]
      /\ ~blind' => ~blind
  BY DEF OpenPty, PipeIn, Opens, Ready, Goes, AfterPipes, Making
<1>2. /\ conn'[s] = c /\ phase'[s] \in Making
      /\ \A t \in Sess \ {s} : conn'[t] = conn[t] /\ phase'[t] = phase[t]
  BY <1>1 DEF CInv, FInv, TInv, ProcsOK
<1>3. Single'
  <2> SUFFICES ASSUME NEW t \in Sess, NEW u \in Sess, t # u, conn'[t] = conn'[u],
                      phase'[t] \in Transit, phase'[u] \in Transit
               PROVE  FALSE
    BY DEF Single
  <2>. QED BY <1>1, <1>2 DEF CInv, Single, Busy
<1>4. \A p \in Pids : procs[p].holds # {} => procs[p].of \in Sess \ {s}
  BY <1>1 DEF CInv, Placed
<1>5. Placed'
  BY <1>1, <1>2, <1>4 DEF CInv, Placed
<1>6. ASSUME ~blind' PROVE Later'
  <2> SUFFICES ASSUME NEW p \in Pids, NEW t \in Sess, Has(p, t)
               PROVE  /\ phase'[t] # "unused"
                      /\ phase'[t] \in Making => conn'[procs[p].of] # conn'[t]
    BY <1>1 DEF Later, Has
  <2>a. t # s /\ procs[p].of \in Sess \ {s}
    BY <1>1, <1>4, <1>6 DEF CInv, Later, Has
  <2>. QED BY <1>1, <1>2, <1>6, <2>a DEF CInv, Later
<1>7. ASSUME ~blind' PROVE Apiece'
  <2> SUFFICES ASSUME NEW p \in Pids, NEW q \in Pids, p # q, Mutual(p, q)
               PROVE  conn'[procs[p].of] # conn'[procs[q].of]
    BY <1>1 DEF Apiece, Mutual, Feeds
  <2>a. procs[p].of \in Sess \ {s} /\ procs[q].of \in Sess \ {s}
    BY <1>4 DEF Mutual
  <2>. QED BY <1>1, <1>2, <1>7, <2>a DEF CInv, Apiece
<1>. QED BY <1>3, <1>5, <1>6, <1>7

LEMMA ForkC ==
    ASSUME CInv, NEW s \in Sess, NEW p \in Pids, Fork(s, p)
    PROVE  Single' /\ Placed' /\ (~blind' => Later' /\ Apiece')
<1> DEFINE shell == [state |-> "alive", of |-> s, term |-> FALSE, holds |-> Inherited(s)]
<1>1. /\ phase[s] = "fork" /\ phase' = [phase EXCEPT ![s] = "kid_ends"]
      /\ procs' = [procs EXCEPT ![p] = shell]
      /\ UNCHANGED <<fdt, conn, blind>>
  BY DEF Fork, Goes
<1>2. /\ phase'[s] = "kid_ends" /\ \A t \in Sess \ {s} : phase'[t] = phase[t]
      /\ procs'[p].of = s /\ procs'[p].holds = Inherited(s)
      /\ \A q \in Pids \ {p} : procs'[q] = procs[q]
  BY <1>1 DEF CInv, FInv, TInv, ProcsOK
<1>3. /\ "kid_ends" \in Transit /\ "kid_ends" \notin Making /\ "fork" \in Making
      /\ Making \subseteq Transit
  BY DEF Transit, Making
<1>4. Single'
  BY <1>1, <1>2, <1>3 DEF CInv, Single
<1>5. Placed'
  BY <1>1, <1>2, <1>3 DEF CInv, Placed
<1>6. ASSUME ~blind', NEW e \in Inherited(s), NEW t \in Sess, e.of = t
      PROVE  phase[t] # "unused" /\ (phase'[t] \in Making => conn[s] # conn[t])
  <2>a. PICK n \in Numbers : IsEndOf(n, t)
    BY <1>6 DEF Inherited, IsEndOf
  <2>b. phase[t] # "unused"
    <3>1. phase[t] = "unused" => OursOf(t) = {} /\ TheirsOf(t) = {} /\ Row(t) = {}
      BY DEF CInv, FInv, TInv, Shape, ShapeOf, Opening, OursOf, TheirsOf, Row
    <3>2. phase[t] # "failed" => n \in OursOf(t) \cup TheirsOf(t) \cup Row(t)
      BY <1>1, <1>6, <2>a DEF CInv, FInv, Sound, Tidy, Keeps
    <3>. QED BY <3>1, <3>2
  <2>c. ASSUME phase'[t] \in Making PROVE conn[s] # conn[t]
    BY <1>1, <1>2, <1>3, <2>c DEF CInv, Single
  <2>. QED BY <2>b, <2>c
<1>7. ASSUME ~blind' PROVE Later'
  <2> SUFFICES ASSUME NEW q \in Pids, NEW t \in Sess, Has(q, t)'
               PROVE  /\ phase'[t] # "unused"
                      /\ phase'[t] \in Making => conn[procs'[q].of] # conn[t]
    BY <1>1 DEF Later
  <2>a. CASE q = p
    <3>1. PICK e \in Inherited(s) : e.of = t
      BY <1>2, <2>a DEF Has
    <3>. QED BY <1>2, <1>6, <1>7, <2>a, <3>1
  <2>b. CASE q # p
    <3>1. Has(q, t) /\ procs'[q].of = procs[q].of
      BY <1>2, <2>b DEF Has
    <3>. QED BY <1>1, <1>2, <1>3, <1>7, <3>1 DEF CInv, Later
  <2>. QED BY <2>a, <2>b
<1>8. ASSUME NEW q \in Pids \ {p}, procs[q].holds \cap Feeds(s) # {}, ~blind'
      PROVE  conn[procs[q].of] # conn[s]
  <2>a. Has(q, s)
    BY <1>8, FeedFacts DEF Has
  <2>. QED BY <1>1, <1>3, <1>8, <2>a DEF CInv, Later
<1>9. ASSUME ~blind' PROVE Apiece'
  <2> SUFFICES ASSUME NEW q \in Pids, NEW r \in Pids, q # r, Mutual(q, r)'
               PROVE  conn[procs'[q].of] # conn[procs'[r].of]
    BY <1>1 DEF Apiece
  <2>a. /\ procs'[q].holds \cap Feeds(procs'[r].of) # {}
        /\ procs'[r].holds \cap Feeds(procs'[q].of) # {}
    BY DEF Mutual, Feeds
  <2>b. CASE q = p
    BY <1>2, <1>8, <1>9, <2>a, <2>b
  <2>c. CASE r = p
    BY <1>2, <1>8, <1>9, <2>a, <2>c
  <2>d. CASE q # p /\ r # p
    BY <1>1, <1>2, <1>9, <2>a, <2>d DEF CInv, Apiece, Mutual
  <2>. QED BY <2>b, <2>c, <2>d
<1>. QED BY <1>4, <1>5, <1>7, <1>9

(* The other steps that take a session on.                                 *)
LEMMA OnwardC ==
    ASSUME CInv, NEW s \in Sess, Works(s) \/ CloseStream(s), ~ \E p \in Pids : Fork(s, p)
    PROVE  Single' /\ Placed' /\ (~blind' => Later' /\ Apiece')
<1>1. phase \in [Sess -> Phases] /\ procs \in [Pids -> Proc]
  BY DEF CInv, FInv, TInv, ProcsOK, Proc
<1>2. conn' = conn /\ (~blind' => ~blind)
  BY DEF Works, PipeOut, StderrPipe, StderrPipeFails, ForkFails, Fails, CloseNext, TryWait,
     Kill, WaitOnce, Gone, DropLive, CloseStream, Dropped
<1>3. ASSUME NEW p \in Pids
      PROVE  \/ procs'[p].holds = {}
             \/ procs'[p].holds \subseteq procs[p].holds /\ procs'[p].of = procs[p].of
  <2>a. procs' = procs \/ TryWait(s) \/ Kill(s) \/ WaitOnce(s)
    BY DEF Works, PipeOut, StderrPipe, StderrPipeFails, ForkFails, Fails, CloseNext,
       DropLive, CloseStream
  <2>b. CASE procs' = procs
    BY <2>b
  <2>c. CASE TryWait(s) \/ WaitOnce(s)
    BY <1>1, <2>c DEF TryWait, WaitOnce, NoProc
  <2>d. CASE Kill(s)
    BY <1>1, <2>d DEF Kill, Proc
  <2>. QED BY <2>a, <2>b, <2>c, <2>d
<1>4. \E next \in Phases \ {"unused"} :
         /\ phase' = [phase EXCEPT ![s] = next]
         /\ phase[s] # "unused"
         /\ next \in Making => phase[s] \in Making
         /\ next \in Transit => phase[s] \in Transit \/ ~Busy(conn[s])
  BY DEF Works, PipeOut, StderrPipe, StderrPipeFails, ForkFails, Fails, CloseNext, TryWait,
     Kill, WaitOnce, Gone, DropLive, CloseStream, Dropped, Goes, AfterPipes, Ready, Phases,
     Transit, Making
<1>. QED BY <1>1, <1>2, <1>3, <1>4, QuietC

LEMMA NextC == CInv /\ [Next]_vars => CInv'
<1> SUFFICES ASSUME CInv, [Next]_vars PROVE CInv'
  OBVIOUS
<1>1. FInv'
  BY NextF DEF CInv
<1> SUFFICES Single' /\ Placed' /\ (~blind' => Later' /\ Apiece')
  BY <1>1 DEF CInv
<1>2. CASE UNCHANGED vars
  BY <1>2, QuietC DEF vars, sess
<1>3. ASSUME NEW c \in Conns, Accept(c) \/ HangUp(c) \/ CloseSocket(c)
      PROVE  Single' /\ Placed' /\ (~blind' => Later' /\ Apiece')
  BY <1>3, QuietC DEF Accept, HangUp, CloseSocket, sess
<1>4. ASSUME NEW p \in Pids, ShellExits(p)
      PROVE  Single' /\ Placed' /\ (~blind' => Later' /\ Apiece')
  <2>a. procs \in [Pids -> Proc]
    BY DEF CInv, FInv, TInv, ProcsOK, Proc
  <2>b. UNCHANGED <<phase, conn, blind>>
    BY <1>4 DEF ShellExits, sess
  <2>c. \A q \in Pids : procs'[q].holds = {} \/ procs'[q] = procs[q]
    BY <1>4, <2>a DEF ShellExits, Proc
  <2>. QED BY <2>b, <2>c, QuietC
<1>5. CASE \E c \in Conns, s \in Sess, k \in Kinds : OpenPty(c, s, k) \/ PipeIn(c, s, k)
  BY <1>5, OpenC
<1>6. ASSUME NEW s \in Sess, Works(s) \/ CloseStream(s)
      PROVE  Single' /\ Placed' /\ (~blind' => Later' /\ Apiece')
  BY <1>6, ForkC, OnwardC
<1>. QED BY <1>2, <1>3, <1>4, <1>5, <1>6 DEF Next

(* No two shells of one connection feed each other, and none feeds itself, *)
(* as long as no call to pipe has failed unseen.                           *)
THEOREM NoCircleOfShells == Spec => []NoCircle
<1>1. CInv => NoCircle
  <2> SUFFICES ASSUME CInv, ~blind, NEW p \in Pids, NEW q \in Pids, Mutual(p, q)
               PROVE  conn[procs[p].of] # conn[procs[q].of]
    BY DEF NoCircle, Mutual
  <2>a. p # q
    <3>1. \A e \in procs[p].holds : e.of = procs[p].of => e.part \in KidParts
      BY DEF CInv, FInv, Sound, Apt
    <3>2. procs[p].holds \cap Feeds(procs[p].of) = {}
      BY <3>1, FeedFacts, EndFacts
    <3>. QED BY <3>2 DEF Mutual
  <2>. QED BY <2>a DEF CInv, Apiece
<1>. QED BY <1>1, InitC, NextC, PTL DEF Spec

================================
