------------------------------- MODULE ShellProcs -------------------------------
(***************************************************************************)
(* The daemon as one process: the descriptors and pids that its connection *)
(* threads share.  This is ShellSession::new, try_wait and cleanup of      *)
(* guest-adbd/src/session.rs and the accept loop of main.rs.               *)
(*                                                                         *)
(* A thread works on one session at a time, but its system calls come      *)
(* between those of other threads: a number it has closed is theirs at the *)
(* next call.  So a descriptor is a number, and what it stands for an end  *)
(* of a pipe, a pty or a socket; a pid is a name that the kernel gives     *)
(* again once its process was waited for.                                  *)
(***************************************************************************)
EXTENDS Integers, Sequences

CONSTANTS
    Conns,     \* connections
    Sess,      \* shell sessions
    Pids,      \* process ids
    MaxFd      \* the highest descriptor number

ASSUME MaxFdAssumption == MaxFd \in Nat
ASSUME PidsAssumption == "none" \notin Pids
ASSUME ConnsAssumption == "none" \notin Conns

VARIABLES
    fdt,         \* the daemon's descriptor table
    conns,       \* the connections: their state, and the descriptor of the socket
    phase,       \* how far a session has got
    conn,        \* its connection
    kind,        \* of what kind it is
    ours,        \* its descriptors
    theirs,      \* the locals of ShellSession::new that are the child's side
    closing,     \* the numbers its thread is about to close, in order
    child_pid,   \* its pid
    procs,       \* the processes: state, whose shell, sent a SIGTERM, what they hold
    blind,       \* history: a call to pipe has failed, and nobody looked
    stale        \* history: a pid was given again that a session still goes by

fds == <<ours, theirs, closing>>
sess == <<phase, conn, kind, fds, child_pid>>
vars == <<fdt, conns, sess, procs, blind, stale>>

(* A session is on a pty or on pipes, and has its stderr apart or not. *)
Kinds == [pty : BOOLEAN, err : BOOLEAN]

Numbers == 0 .. MaxFd
NoFd == -1

(* What a descriptor stands for: an end of a session's pty or pipes, the   *)
(* socket of a connection, or what the daemon was started with.  None of   *)
(* a session's ends is closed on exec; sockets are.                        *)
End(x, part) == [of |-> x, part |-> part]
OurParts == {"master", "in_w", "out_r", "err_r"}
KidParts == {"slave", "in_r", "out_w", "err_w"}
Parts == OurParts \cup KidParts
Socket(c) == End(c, "socket")
Free == End("none", "free")
Std == End("none", "std")

Ends == {End(s, part) : s \in Sess, part \in Parts}
            \cup {Socket(c) : c \in Conns} \cup {Std}

FreeNumbers == {n \in Numbers : fdt[n] = Free}
Lowest(S) == CHOOSE n \in S : \A m \in S : n <= m
First == Lowest(FreeNumbers)
Second == Lowest(FreeNumbers \ {First})
HaveOne == FreeNumbers # {}
HaveTwo == HaveOne /\ FreeNumbers \ {First} # {}

(* close: a number that is not open is an EBADF, which nobody looks at. *)
Closed(n) == [fdt EXCEPT ![n] = Free]

Making == {"pipe_out", "stderr", "fork"}
Transit == Making \cup {"kid_ends", "closing", "kill", "wait"}
Phases == Transit \cup {"unused", "live", "gone", "failed"}

Ours(i, o, e) == [stdin_fd |-> i, stdout_fd |-> o, stderr_fd |-> e]
Theirs(i, o, e) == [stdin_read |-> i, stdout_write |-> o, stderr_write |-> e]
NotOurs == Ours(NoFd, NoFd, NoFd)
NotTheirs == Theirs(NoFd, NoFd, NoFd)

NoProc == [state |-> "none", of |-> "none", term |-> FALSE, holds |-> {}]

Init ==
    /\ fdt = [n \in Numbers |-> IF n = 0 THEN Std ELSE Free]
    /\ conns = [c \in Conns |-> [state |-> "new", fd |-> NoFd]]
    /\ phase = [s \in Sess |-> "unused"]
    /\ conn = [s \in Sess |-> "none"]
    /\ kind = [s \in Sess |-> [pty |-> FALSE, err |-> FALSE]]
    /\ ours = [s \in Sess |-> NotOurs]
    /\ theirs = [s \in Sess |-> NotTheirs]
    /\ closing = [s \in Sess |-> <<>>]
    /\ child_pid = [s \in Sess |-> "none"]
    /\ procs = [p \in Pids |-> NoProc]
    /\ blind = FALSE
    /\ stale = FALSE

(* The thread of c is in the middle of something. *)
Busy(c) == \E s \in Sess : conn[s] = c /\ phase[s] \in Transit

(* Each OPEN is served by a thread of its own. *)
Ready_bug(c) == conns[c].state = "open"

Ready(c) == conns[c].state = "open" /\ ~Busy(c)

Goes(s, next) == phase' = [phase EXCEPT ![s] = next]

--------------------------------------------------------------------------------
(* The listener.  Without a descriptor left, accept fails and is tried again. *)

Accept(c) ==
    /\ conns[c].state = "new"
    /\ HaveOne
    /\ fdt' = [fdt EXCEPT ![First] = Socket(c)]
    /\ conns' = [conns EXCEPT ![c] = [state |-> "open", fd |-> First]]
    /\ UNCHANGED <<sess, procs, blind, stale>>

--------------------------------------------------------------------------------
(* ShellSession::new, one system call at a time. *)

(* An OPEN for a shell, read by a thread that is ready for it. *)
Opens(c, s, k) ==
    /\ Ready(c)
    /\ phase[s] = "unused"
    /\ conn' = [conn EXCEPT ![s] = c]
    /\ kind' = [kind EXCEPT ![s] = k]
    /\ UNCHANGED <<conns, closing, child_pid, procs, stale>>

AfterPipes(k) == IF k.err THEN "stderr" ELSE "fork"

(* openpty.  One that fails is an Err that has changed nothing. *)
OpenPty(c, s, k) ==
    /\ Opens(c, s, k)
    /\ k.pty
    /\ HaveTwo
    /\ Goes(s, AfterPipes(k))
    /\ fdt' = [fdt EXCEPT ![First] = End(s, "master"), ![Second] = End(s, "slave")]
    /\ ours' = [ours EXCEPT ![s] = Ours(First, First, NoFd)]
    /\ theirs' = [theirs EXCEPT ![s] = Theirs(Second, Second, NoFd)]
    /\ UNCHANGED blind

(* The two calls to pipe are not checked: when one fails, both its numbers *)
(* stay as they were initialised, 0.                                       *)
PipeIn(c, s, k) ==
    /\ Opens(c, s, k)
    /\ ~k.pty
    /\ Goes(s, "pipe_out")
    /\ IF HaveTwo
       THEN /\ fdt' = [fdt EXCEPT ![First] = End(s, "in_r"), ![Second] = End(s, "in_w")]
            /\ ours' = [ours EXCEPT ![s] = Ours(Second, NoFd, NoFd)]
            /\ theirs' = [theirs EXCEPT ![s] = Theirs(First, NoFd, NoFd)]
            /\ UNCHANGED blind
       ELSE /\ ours' = [ours EXCEPT ![s] = Ours(0, NoFd, NoFd)]
            /\ theirs' = [theirs EXCEPT ![s] = Theirs(0, NoFd, NoFd)]
            /\ blind' = TRUE
            /\ UNCHANGED fdt

PipeOut(s) ==
    /\ phase[s] = "pipe_out"
    /\ Goes(s, AfterPipes(kind[s]))
    /\ IF HaveTwo
       THEN /\ fdt' = [fdt EXCEPT ![First] = End(s, "out_r"), ![Second] = End(s, "out_w")]
            /\ ours' = [ours EXCEPT ![s].stdout_fd = First]
            /\ theirs' = [theirs EXCEPT ![s].stdout_write = Second]
            /\ UNCHANGED blind
       ELSE /\ ours' = [ours EXCEPT ![s].stdout_fd = 0]
            /\ theirs' = [theirs EXCEPT ![s].stdout_write = 0]
            /\ blind' = TRUE
            /\ UNCHANGED fdt
    /\ UNCHANGED <<conns, conn, kind, closing, child_pid, procs, stale>>

StderrPipe(s) ==
    /\ phase[s] = "stderr"
    /\ HaveTwo
    /\ Goes(s, "fork")
    /\ fdt' = [fdt EXCEPT ![First] = End(s, "err_r"), ![Second] = End(s, "err_w")]
    /\ ours' = [ours EXCEPT ![s].stderr_fd = First]
    /\ theirs' = [theirs EXCEPT ![s].stderr_write = Second]
    /\ UNCHANGED <<conns, conn, kind, closing, child_pid, procs, blind, stale>>

(* An Err: the descriptors made so far stay open, and nobody knows them. *)
Fails(s) ==
    /\ Goes(s, "failed")
    /\ ours' = [ours EXCEPT ![s] = NotOurs]
    /\ theirs' = [theirs EXCEPT ![s] = NotTheirs]
    /\ UNCHANGED <<fdt, conns, conn, kind, closing, child_pid, procs, blind, stale>>

StderrPipeFails(s) == phase[s] = "stderr" /\ ~HaveTwo /\ Fails(s)

(* fork is not looked at either, and a session has the pid -1. *)
ForkFails_bug(s) ==
    /\ phase[s] = "fork"
    /\ Goes(s, "live")
    /\ UNCHANGED <<fdt, conns, conn, kind, fds, child_pid, procs, blind, stale>>

ForkFails(s) == phase[s] = "fork" /\ Fails(s)

(* Two numbers that may be one, and a third that may not be there. *)
Each(n, m, l) ==
    IF l = NoFd
    THEN IF n = m THEN <<n>> ELSE <<n, m>>
    ELSE IF n = m THEN <<n, l>> ELSE <<n, m, l>>

(* What the child has open when it has become a shell: a copy of all that  *)
(* is not closed on exec, but for its own session's daemon side.           *)
Inherited(s) ==
    {fdt[n] : n \in {m \in Numbers : fdt[m].part \in Parts}
                        \ {ours[s].stdin_fd, ours[s].stdout_fd, ours[s].stderr_fd}}

(* stderr_pipe[1] stays open in the parent. *)
KidEnds_bug(s) ==
    Each(theirs[s].stdin_read, theirs[s].stdout_write, NoFd)

(* What the parent closes next: the child's side. *)
KidEnds(s) ==
    Each(theirs[s].stdin_read, theirs[s].stdout_write, theirs[s].stderr_write)

(* fork, and all that the child does up to the exec. *)
Fork(s, p) ==
    /\ phase[s] = "fork"
    /\ procs[p].state = "none"
    /\ Goes(s, "kid_ends")
    /\ procs' = [procs EXCEPT ![p] = [state |-> "alive", of |-> s, term |-> FALSE,
                                      holds |-> Inherited(s)]]
    /\ child_pid' = [child_pid EXCEPT ![s] = p]
    /\ closing' = [closing EXCEPT ![s] = KidEnds(s)]
    /\ theirs' = [theirs EXCEPT ![s] = NotTheirs]
    /\ stale' = (stale \/ \E other \in Sess : child_pid[other] = p)
    /\ UNCHANGED <<fdt, conns, conn, kind, ours, blind>>

(* One close of a row of them; after the last the thread goes on. *)
CloseNext(s) ==
    /\ phase[s] \in {"kid_ends", "closing"}
    /\ fdt' = Closed(Head(closing[s]))
    /\ closing' = [closing EXCEPT ![s] = Tail(@)]
    /\ Goes(s, IF Len(closing[s]) > 1 THEN phase[s]
               ELSE IF phase[s] = "kid_ends" THEN "live" ELSE "kill")
    /\ UNCHANGED <<conns, conn, kind, ours, theirs, child_pid, procs, blind, stale>>

--------------------------------------------------------------------------------
(* The poll, and what makes a session go. *)

(* stdin_fd and stdout_fd are closed whether or not they are one. *)
OurEnds_bug(s) ==
    <<ours[s].stdin_fd>> \o Each(ours[s].stdout_fd, ours[s].stdout_fd, ours[s].stderr_fd)

OurEnds(s) == Each(ours[s].stdin_fd, ours[s].stdout_fd, ours[s].stderr_fd)

(* The session is removed from its map, and drop calls cleanup. *)
Dropped(s) ==
    /\ Goes(s, "closing")
    /\ closing' = [closing EXCEPT ![s] = OurEnds(s)]
    /\ ours' = [ours EXCEPT ![s] = NotOurs]
    /\ UNCHANGED <<fdt, conns, conn, kind, theirs, child_pid, blind, stale>>

(* waitpid(-1): any child of the daemon. *)
TryWait_bug(s) ==
    /\ phase[s] = "live" /\ Ready(conn[s])
    /\ \E p \in Pids : /\ procs[p].state = "zombie"
                       /\ procs' = [procs EXCEPT ![p] = NoProc]
    /\ Dropped(s)

(* The poll's try_wait finds the shell gone, and the poll removes it. *)
TryWait(s) ==
    /\ phase[s] = "live" /\ Ready(conn[s])
    /\ procs[child_pid[s]].state = "zombie"
    /\ procs' = [procs EXCEPT ![child_pid[s]] = NoProc]
    /\ Dropped(s)

(* A CLSE, or one step of the clear of a CNXN. *)
CloseStream(s) ==
    /\ phase[s] = "live" /\ Ready(conn[s])
    /\ Dropped(s)
    /\ UNCHANGED procs

(* cleanup leaves the signal to the terminal's hangup. *)
Kill_bug(s) ==
    /\ phase[s] = "kill"
    /\ Goes(s, "wait")
    /\ procs' = IF procs[child_pid[s]].state = "alive" /\ ~kind[s].pty
                THEN [procs EXCEPT ![child_pid[s]].term = TRUE] ELSE procs
    /\ UNCHANGED <<fdt, conns, conn, kind, fds, child_pid, blind, stale>>

(* SIGTERM to whatever has the pid.  What it does to the process comes     *)
(* later (ShellExits), or never.                                           *)
Kill(s) ==
    /\ phase[s] = "kill"
    /\ Goes(s, "wait")
    /\ procs' = IF procs[child_pid[s]].state = "alive"
                THEN [procs EXCEPT ![child_pid[s]].term = TRUE] ELSE procs
    /\ UNCHANGED <<fdt, conns, conn, kind, fds, child_pid, blind, stale>>

(* cleanup is over, and the session is no more. *)
Gone(s) ==
    /\ Goes(s, "gone")
    /\ child_pid' = [child_pid EXCEPT ![s] = "none"]
    /\ UNCHANGED <<fdt, conns, conn, kind, fds, blind, stale>>

(* The wait is for the shell to end. *)
WaitOnce_bug(s) ==
    /\ phase[s] = "wait"
    /\ procs[child_pid[s]].state # "alive"
    /\ procs' = [procs EXCEPT ![child_pid[s]] = NoProc]
    /\ Gone(s)

(* waitpid with WNOHANG: a shell that has not ended yet is nobody's. *)
WaitOnce(s) ==
    /\ phase[s] = "wait"
    /\ procs' = IF procs[child_pid[s]].state = "zombie"
                THEN [procs EXCEPT ![child_pid[s]] = NoProc] ELSE procs
    /\ Gone(s)

--------------------------------------------------------------------------------
(* The end of a connection: handle_connection returns, its SessionManager  *)
(* is dropped session by session, and then the socket.                     *)

HangUp(c) ==
    /\ Ready(c)
    /\ conns' = [conns EXCEPT ![c].state = "ending"]
    /\ UNCHANGED <<fdt, sess, procs, blind, stale>>

DropLive(s) ==
    /\ phase[s] = "live"
    /\ conns[conn[s]].state = "ending" /\ ~Busy(conn[s])
    /\ Dropped(s)
    /\ UNCHANGED procs

CloseSocket(c) ==
    /\ conns[c].state = "ending"
    /\ \A s \in Sess : conn[s] = c => phase[s] \in {"gone", "failed"}
    /\ fdt' = Closed(conns[c].fd)
    /\ conns' = [conns EXCEPT ![c] = [state |-> "gone", fd |-> NoFd]]
    /\ UNCHANGED <<sess, procs, blind, stale>>

--------------------------------------------------------------------------------
(* A shell ends, by itself or by a signal, and lets go of what it holds. *)
ShellExits(p) ==
    /\ procs[p].state = "alive"
    /\ procs' = [procs EXCEPT ![p].state = "zombie", ![p].holds = {}]
    /\ UNCHANGED <<fdt, conns, sess, blind, stale>>

(* What the thread that has s does of its own accord. *)
Works(s) ==
    \/ PipeOut(s) \/ StderrPipe(s) \/ StderrPipeFails(s) \/ ForkFails(s)
    \/ \E p \in Pids : Fork(s, p)
    \/ CloseNext(s) \/ TryWait(s) \/ Kill(s) \/ WaitOnce(s) \/ DropLive(s)

Next ==
    \/ \E c \in Conns : Accept(c) \/ HangUp(c) \/ CloseSocket(c)
    \/ \E c \in Conns, s \in Sess, k \in Kinds : OpenPty(c, s, k) \/ PipeIn(c, s, k)
    \/ \E s \in Sess : Works(s) \/ CloseStream(s)
    \/ \E p \in Pids : ShellExits(p)

Spec == Init /\ [][Next]_vars

--------------------------------------------------------------------------------

Fd == Numbers \cup {NoFd}

ProcsOK ==
    /\ fdt \in [Numbers -> Ends \cup {Free}]
    /\ conns \in [Conns -> [state : {"new", "open", "ending", "gone"}, fd : Fd]]
    /\ phase \in [Sess -> Phases]
    /\ conn \in [Sess -> Conns \cup {"none"}]
    /\ kind \in [Sess -> Kinds]
    /\ ours \in [Sess -> [stdin_fd : Fd, stdout_fd : Fd, stderr_fd : Fd]]
    /\ theirs \in [Sess -> [stdin_read : Fd, stdout_write : Fd, stderr_write : Fd]]
    /\ closing \in [Sess -> Seq(Numbers)]
    /\ child_pid \in [Sess -> Pids \cup {"none"}]
    /\ procs \in [Pids ->
           [state : {"none", "alive", "zombie"}, of : Sess \cup {"none"},
            term : BOOLEAN, holds : SUBSET Ends]]
    /\ blind \in BOOLEAN /\ stale \in BOOLEAN
    /\ \A s \in Sess : child_pid[s] \in Pids
                          <=> phase[s] \in {"kid_ends", "live", "closing", "kill", "wait"}

(* The numbers by which the code still means s's descriptors. *)
Known(s) ==
    ({ours[s].stdin_fd, ours[s].stdout_fd, ours[s].stderr_fd,
      theirs[s].stdin_read, theirs[s].stdout_write, theirs[s].stderr_write} \ {NoFd})
        \cup {closing[s][i] : i \in DOMAIN closing[s]}

IsEndOf(n, s) == fdt[n].of = s /\ fdt[n].part \in Parts

(* No number outlives its descriptor: whatever a thread reads, writes or   *)
(* closes for a session is that session's, though other threads open and   *)
(* close in between and the kernel hands numbers out again at once.  (So   *)
(* nobody's socket is closed by a cleanup, and no two cleanups close the   *)
(* same thing.)  It takes that no pipe call has failed unseen.             *)
FdsOwned ==
    ~blind =>
        /\ \A s \in Sess : \A n \in Known(s) : IsEndOf(n, s)
        /\ \A c \in Conns : conns[c].state \in {"open", "ending"}
                               => fdt[conns[c].fd] = Socket(c)

(* Descriptors do not leak: one that is open is known to a session that    *)
(* will close it, or to its connection, and a session that is gone has     *)
(* left none.  The exception is a session that failed to start.            *)
NoneLeaked ==
    ~blind =>
        \A n \in Numbers :
            /\ \A s \in Sess : IsEndOf(n, s) /\ phase[s] # "failed" => n \in Known(s)
            /\ \A c \in Conns : fdt[n] = Socket(c) => conns[c].fd = n

(* The exit status of a shell waits for its own session: as long as the    *)
(* session is live, its pid is its shell's, running or not yet waited for. *)
(* It takes that no pid was given again too early.                         *)
ExitIsOurs ==
    ~stale =>
        \A s \in Sess : phase[s] \in {"kid_ends", "live"} =>
            /\ procs[child_pid[s]].of = s
            /\ procs[child_pid[s]].state # "none"

(* The ends that feed the input of s: whoever reads it gets an EOF when    *)
(* nobody has one of them open any more.                                   *)
Feeds(s) == {End(s, "master"), End(s, "in_w")}

(* "The process will get EOF when we close", says main.rs of a CloseStdin. *)
(* So when a session is gone and its shell still runs, nobody is left who  *)
(* could write to it, neither the daemon nor another shell.  The code does *)
(* not do it: a shell that was forked in the meantime, of this connection  *)
(* or another, has a copy of the end that cleanup closes.                  *)
EofOnClose ==
    ~blind =>
        \A p \in Pids :
            procs[p].state = "alive" /\ phase[procs[p].of] = "gone" =>
                LET feeds == Feeds(procs[p].of)
                IN  /\ \A n \in Numbers : fdt[n] \notin feeds
                    /\ \A q \in Pids : procs[q].holds \cap feeds = {}

(* What such copies cannot do is make shells of one connection wait for    *)
(* each other, or one for itself, to see the end of their input: the later *)
(* shell may feed the earlier one, never the other way round as well.  It  *)
(* takes that a thread is done with one OPEN before it reads the next, and *)
(* that the child closes what is its parent's.                             *)
NoCircle ==
    ~blind =>
        \A p, q \in Pids :
            /\ procs[p].holds \cap Feeds(procs[q].of) # {}
            /\ procs[q].holds \cap Feeds(procs[p].of) # {}
            => conn[procs[p].of] # conn[procs[q].of]

(* A session that is gone has left no shell that runs and was not told to  *)
(* stop, whichever way it went, and whatever pids were given again.        *)
NoneForgotten ==
    \A p \in Pids :
        procs[p].state = "alive" /\ phase[procs[p].of] = "gone" => procs[p].term

(* No thread waits for a shell, for a descriptor or for another thread: in *)
(* the middle of a session's life, and of the end of a connection with all *)
(* its sessions, the next step can always be taken, though a shell may     *)
(* ignore its signal or nothing be left to open.                           *)
NeverWaits ==
    /\ \A s \in Sess : phase[s] \in Transit => ENABLED Works(s)
    /\ \A c \in Conns : conns[c].state = "ending" =>
           ENABLED CloseSocket(c) \/ \E s \in Sess : conn[s] = c /\ ENABLED Works(s)

================================================================================
