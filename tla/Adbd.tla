---------------------------------- MODULE Adbd ----------------------------------
(***************************************************************************)
(* One connection of the daemon: handle_connection in guest-adbd/src/      *)
(* main.rs with the SessionManager of session.rs, the shells it started    *)
(* and a peer that may send anything.                                      *)
(*                                                                         *)
(* The handler is one thread.  Each turn of its loop reads at most one     *)
(* message, handles it, and then polls every shell session once.  pc says  *)
(* where in the turn it is; a blocking send_message is a message in sendq, *)
(* and the handler goes on only when sendq is empty.  Between any two of   *)
(* its steps shells write and exit, and the peer sends, reads or hangs up. *)
(*                                                                         *)
(* Bytes of shell output are counted in units, and only up to PipeCap of   *)
(* them: enough to tell "all read" from "some left".  What a WRTE makes    *)
(* a shell or a sync session do with its bytes is left to other modules;   *)
(* here a sync session may answer with any few chunks and may quit.        *)
(***************************************************************************)
EXTENDS AdbProtocol

CONSTANTS
    InCap,      \* messages in flight from the peer to the daemon
    WireCap,    \* messages in flight from the daemon to the peer
    PipeCap,    \* units of output a pipe or pty buffers
    MaxChunks   \* WRTEs a sync session answers one WRTE with

ASSUME InCapAssumption == InCap \in Nat
ASSUME WireCapAssumption == WireCap \in Nat \ {0}
ASSUME PipeCapAssumption == PipeCap \in Nat
ASSUME MaxChunksAssumption == MaxChunks \in Nat

VARIABLES
    connected,      \* a CNXN has been answered
    sessions,       \* the HashMap of shell sessions, by local id
    sync_sessions,  \* the HashMap of sync sessions: the remote id, by local id
    next_local_id,  \* the counter behind alloc_local_id
    wrapped,        \* history: the counter has wrapped since the last clear
    kids,           \* the processes of the sessions: alive, and unread output
    pc,             \* where the handler is in its loop
    msg,            \* the WRTE being handled
    ids,            \* the poll's copy of the live ids, still to visit
    cur,            \* the session being polled, 0 between visits
    wrtes,          \* wrte_msgs: what the poll of cur has queued
    sendq,          \* the messages the handler is sending, in order
    inbox,          \* from the peer
    outbox,         \* to the peer
    peer            \* the peer has not closed its socket

tables == <<sessions, sync_sessions, next_local_id, wrapped>>
poll == <<ids, cur, wrtes>>
vars == <<connected, tables, kids, pc, msg, poll, sendq, inbox, outbox, peer>>

Session == [remote   : RemoteIds \cup {0},
            v2       : BOOLEAN,
            err      : BOOLEAN,   \* stderr_fd is Some
            finished : BOOLEAN]

Kid == [alive : BOOLEAN, out : 0 .. PipeCap, err : 0 .. PipeCap]

(* A definition whose name ends in _bug is a plausible mistake in the one   *)
(* after it; no specification uses it, and a property is checked to fail   *)
(* with it in place.                                                       *)

(* The HashMaps are functions from the keys they hold. *)
insert(f, k, v) == [j \in DOMAIN f \cup {k} |-> IF j = k THEN v ELSE f[j]]
remove(f, k) == [j \in DOMAIN f \ {k} |-> f[j]]
EmptyMap == [j \in {} |-> 0]

active_ids == DOMAIN sessions

(* A counter wider than the id it is cut down to. *)
alloc_next_bug(n) == n + 1

(* The id is taken from the counter, which stays as it is. *)
alloc_next_same_bug(n) == n

(* next_local_id += 1 on a u32, as a release build does it. *)
alloc_next(n) == (n + 1) % IdSpace

Pcs == {"read", "cnxn", "wrte", "unsync",
        "begin", "poll", "stderr", "wait", "close", "done"}

Polling == {"stderr", "wait", "close"}

--------------------------------------------------------------------------------

Init ==
    /\ connected = FALSE
    /\ sessions = EmptyMap
    /\ sync_sessions = EmptyMap
    /\ next_local_id = 1
    /\ wrapped = FALSE
    /\ kids = EmptyMap
    /\ pc = "read"
    /\ msg = None
    /\ ids = {}
    /\ cur = 0
    /\ wrtes = <<>>
    /\ sendq = <<>>
    /\ inbox = <<>>
    /\ outbox = <<>>
    /\ peer = TRUE

(* The handler is at p with every send before it completed. *)
At(p) == pc = p /\ sendq = <<>>

(* The ids start over while the sync sessions, or the shells, stay.        *)
clear_sync_bug ==
    /\ sessions' = EmptyMap
    /\ next_local_id' = 1
    /\ wrapped' = FALSE
    /\ kids' = EmptyMap
    /\ UNCHANGED sync_sessions

clear_shell_bug ==
    /\ sync_sessions' = EmptyMap
    /\ next_local_id' = 1
    /\ wrapped' = FALSE
    /\ UNCHANGED <<sessions, kids>>

(* Dropping a session closes its descriptors; its process is no longer ours. *)
clear ==
    /\ sessions' = EmptyMap
    /\ sync_sessions' = EmptyMap
    /\ next_local_id' = 1
    /\ wrapped' = FALSE
    /\ kids' = EmptyMap

alloc_local_id ==
    /\ next_local_id' = alloc_next(next_local_id)
    /\ wrapped' = (wrapped \/ alloc_next(next_local_id) = 0)

(* handle_connection returns: the SessionManager and the socket are dropped. *)
Return ==
    /\ pc' = "done"
    /\ clear
    /\ msg' = None
    /\ ids' = {}
    /\ cur' = 0
    /\ wrtes' = <<>>
    /\ sendq' = <<>>
    /\ inbox' = <<>>
    /\ UNCHANGED <<connected, outbox, peer>>

--------------------------------------------------------------------------------
(* 1. Try to read an ADB message from the client.                          *)

Read(c) ==
    /\ At("read")
    /\ inbox # <<>>
    /\ Head(inbox).cmd = c
    /\ inbox' = Tail(inbox)

HandleCnxn ==
    /\ Read("CNXN")
    /\ sendq' = <<cnxn>>
    /\ pc' = "cnxn"
    /\ UNCHANGED <<connected, tables, kids, msg, poll, outbox, peer>>

(* Only once the banner is out is the connection up and the old state gone. *)
FinishCnxn ==
    /\ At("cnxn")
    /\ connected' = TRUE
    /\ clear
    /\ pc' = "begin"
    /\ UNCHANGED <<msg, poll, sendq, inbox, outbox, peer>>

(* No "if connected". *)
OpenAs_bug(kinds) ==
    /\ Read("OPEN")
    /\ parse_service(Head(inbox).dest).kind \in kinds
    /\ pc' = "begin"
    /\ UNCHANGED <<connected, msg, poll, outbox, peer>>

OpenAs(kinds) ==
    /\ Read("OPEN")
    /\ connected
    /\ parse_service(Head(inbox).dest).kind \in kinds
    /\ pc' = "begin"
    /\ UNCHANGED <<connected, msg, poll, outbox, peer>>

(* A stderr pipe of its own goes to a v2 session that runs one command. *)
OpenShell ==
    LET service == parse_service(Head(inbox).dest)
        remote  == Head(inbox).arg0
        v2      == service.kind = "ShellV2"
    IN  /\ OpenAs({"ShellV1", "ShellV2"})
        /\ alloc_local_id
        /\ sessions' = insert(sessions, next_local_id,
                              [remote |-> remote, v2 |-> v2,
                               err |-> v2 /\ service.command, finished |-> FALSE])
        /\ kids' = insert(kids, next_local_id,
                          [alive |-> TRUE, out |-> 0, err |-> 0])
        /\ sendq' = <<okay(next_local_id, remote)>>
        /\ UNCHANGED sync_sessions

(* The error is logged and nobody is told. *)
OpenShellFails_bug ==
    /\ OpenAs({"ShellV1", "ShellV2"})
    /\ alloc_local_id
    /\ UNCHANGED <<sessions, sync_sessions, kids, sendq>>

(* openpty, pipe or fork failed; the id is used up all the same. *)
OpenShellFails ==
    /\ OpenAs({"ShellV1", "ShellV2"})
    /\ alloc_local_id
    /\ sendq' = <<clse(0, Head(inbox).arg0)>>
    /\ UNCHANGED <<sessions, sync_sessions, kids>>

OpenSync ==
    /\ OpenAs({"Sync"})
    /\ alloc_local_id
    /\ sync_sessions' = insert(sync_sessions, next_local_id, Head(inbox).arg0)
    /\ sendq' = <<okay(next_local_id, Head(inbox).arg0)>>
    /\ UNCHANGED <<sessions, kids>>

OpenOther ==
    /\ OpenAs({"Other"})
    /\ sendq' = <<clse(0, Head(inbox).arg0)>>
    /\ UNCHANGED <<tables, kids>>

(* The acknowledgement goes out before anything looks for the stream. *)
HandleWrte ==
    /\ Read("WRTE")
    /\ connected
    /\ msg' = Head(inbox)
    /\ sendq' = <<okay(Head(inbox).arg1, Head(inbox).arg0)>>
    /\ pc' = "wrte"
    /\ UNCHANGED <<connected, tables, kids, poll, outbox, peer>>

Chunks(n, local_id, remote_id) == [i \in 1 .. n |-> wrte(local_id, remote_id, "sync")]

(* A sync session answers, in chunks that carry the remote id of the       *)
(* message and not of the session.                                         *)
AnswerSync(last) ==
    /\ At("wrte")
    /\ msg.arg1 \in DOMAIN sync_sessions
    /\ \E n \in 0 .. MaxChunks :
          sendq' = [i \in 1 .. n |-> wrte(msg.arg1, msg.arg0, "sync")] \o last
    /\ UNCHANGED <<connected, tables, kids, poll, inbox, outbox, peer>>

ApplySync ==
    /\ AnswerSync(<<>>)
    /\ msg' = None
    /\ pc' = "begin"

(* After a QUIT the stream is closed: the CLSE first, then the removal.    *)
ApplySyncQuit ==
    /\ AnswerSync(<<clse(msg.arg1, msg.arg0)>>)
    /\ pc' = "unsync"
    /\ UNCHANGED msg

FinishSyncQuit ==
    /\ At("unsync")
    /\ sync_sessions' = remove(sync_sessions, msg.arg1)
    /\ msg' = None
    /\ pc' = "begin"
    /\ UNCHANGED <<connected, sessions, next_local_id, wrapped, kids, poll, sendq,
                   inbox, outbox, peer>>

(* A shell gets its input, which shows in what it does next; a stream that *)
(* is not there gets nothing.                                              *)
ApplyShell ==
    /\ At("wrte")
    /\ msg.arg1 \notin DOMAIN sync_sessions
    /\ msg' = None
    /\ pc' = "begin"
    /\ UNCHANGED <<connected, tables, kids, poll, sendq, inbox, outbox, peer>>

(* The session stays in the table; its process outlives it. *)
Forget_keep_bug(l) == UNCHANGED <<sessions, kids>>
Forget_orphan_bug(l) == sessions' = remove(sessions, l) /\ UNCHANGED kids

(* A session that is removed is dropped, and its process is no longer ours: *)
(* nobody finds it without its session.  The drop itself, cleanup, comes    *)
(* after the send of a close; its steps are those of ShellProcs.            *)
Forget(l) ==
    /\ sessions' = remove(sessions, l)
    /\ kids' = remove(kids, l)

(* A close goes by the local id alone, and is answered with the ids of the *)
(* session that was found.                                                 *)
DropShell(l) ==
    /\ l \in active_ids
    /\ sendq' = <<clse(l, sessions[l].remote)>>
    /\ Forget(l)
    /\ UNCHANGED sync_sessions

DropSync(l) ==
    /\ l \in DOMAIN sync_sessions \ active_ids
    /\ sendq' = <<clse(l, sync_sessions[l])>>
    /\ sync_sessions' = remove(sync_sessions, l)
    /\ UNCHANGED <<sessions, kids>>

DropNothing(l) ==
    /\ l \notin active_ids \cup DOMAIN sync_sessions
    /\ UNCHANGED <<sessions, sync_sessions, kids, sendq>>

HandleClse ==
    /\ Read("CLSE")
    /\ connected
    /\ LET l == Head(inbox).arg1
       IN  DropShell(l) \/ DropSync(l) \/ DropNothing(l)
    /\ pc' = "begin"
    /\ UNCHANGED <<connected, next_local_id, wrapped, msg, poll, outbox, peer>>

(* OKAYs are only logged, and so is whatever comes before the CNXN.        *)
HandleOther ==
    /\ At("read")
    /\ inbox # <<>>
    /\ \/ Head(inbox).cmd = "OKAY"
       \/ ~connected /\ Head(inbox).cmd \in {"OPEN", "WRTE", "CLSE"}
    /\ inbox' = Tail(inbox)
    /\ pc' = "begin"
    /\ UNCHANGED <<connected, tables, kids, msg, poll, sendq, outbox, peer>>

(* Ten milliseconds without a byte; what is in flight has not arrived yet. *)
ReadNothing ==
    /\ At("read")
    /\ pc' = "begin"
    /\ UNCHANGED <<connected, tables, kids, msg, poll, sendq, inbox, outbox, peer>>

(* A peek of no bytes is taken for "nothing yet". *)
ReadFails_bug ==
    /\ At("read")
    /\ inbox # <<>> /\ Head(inbox).cmd = "BAD"
    /\ Return

(* Ten milliseconds without a byte are taken for the end. *)
ReadFails_timeout_bug ==
    /\ At("read")
    /\ ~peer \/ inbox = <<>> \/ Head(inbox).cmd = "BAD"
    /\ Return

(* A malformed or unfinished message, the end of the stream or a reset.    *)
ReadFails ==
    /\ At("read")
    /\ ~peer \/ (inbox # <<>> /\ Head(inbox).cmd = "BAD")
    /\ Return

--------------------------------------------------------------------------------
(* 2. Poll all shell sessions for output and send it to the client.        *)

BeginPoll ==
    /\ At("begin")
    /\ ids' = IF connected THEN active_ids ELSE {}
    /\ pc' = "poll"
    /\ UNCHANGED <<connected, tables, kids, msg, cur, wrtes, sendq, inbox, outbox, peer>>

(* wrte_msgs.push of n > 0 units read into a frame of the session's kind.  *)
Push(id, n, payload) ==
    wrtes' = IF n = 0 THEN wrtes
             ELSE Append(wrtes, wrte(id, sessions[id].remote, payload))

(* One read of a shell's stdout: what the pipe holds, or a part of it.     *)
PollStdout(id) ==
    /\ At("poll")
    /\ id \in ids
    /\ ids' = ids \ {id}
    /\ cur' = id
    /\ \E n \in 0 .. kids[id].out :
          /\ n = 0 => kids[id].out = 0
          /\ kids' = [kids EXCEPT ![id].out = @ - n]
          /\ Push(id, n, IF sessions[id].v2 THEN "stdout" ELSE "raw")
    /\ pc' = IF sessions[id].v2 THEN "stderr" ELSE "wait"
    /\ UNCHANGED <<connected, tables, msg, sendq, inbox, outbox, peer>>

PollStderr ==
    /\ At("stderr")
    /\ \E n \in 0 .. kids[cur].err :
          /\ n = 0 => kids[cur].err = 0
          /\ kids' = [kids EXCEPT ![cur].err = @ - n]
          /\ Push(cur, n, "stderr")
    /\ pc' = "wait"
    /\ UNCHANGED <<connected, tables, msg, ids, cur, sendq, inbox, outbox, peer>>

(* waitpid finds no child, because something else has reaped it. *)
try_wait_bug == sessions[cur].finished

(* try_wait: a session asked again after its child was reaped says so too. *)
try_wait == sessions[cur].finished \/ ~kids[cur].alive

PollAlive ==
    /\ At("wait")
    /\ ~try_wait
    /\ sendq' = wrtes
    /\ wrtes' = <<>>
    /\ cur' = 0
    /\ pc' = "poll"
    /\ UNCHANGED <<connected, tables, kids, msg, ids, inbox, outbox, peer>>

ExitFrame(id) ==
    IF sessions[id].v2 THEN <<wrte(id, sessions[id].remote, "exit")>> ELSE <<>>

(* The stream ends without a CLSE; the exit overtakes the output.          *)
Farewell_silent_bug(id) == wrtes
Farewell_order_bug(id) ==
    Append(ExitFrame(id) \o wrtes, clse(id, sessions[id].remote))

(* The exit frame and the CLSE follow the output read in this turn.        *)
Farewell(id) == Append(wrtes \o ExitFrame(id), clse(id, sessions[id].remote))

PollExited ==
    /\ At("wait")
    /\ try_wait
    /\ sessions' = [sessions EXCEPT ![cur].finished = TRUE]
    /\ sendq' = Farewell(cur)
    /\ wrtes' = <<>>
    /\ pc' = "close"
    /\ UNCHANGED <<connected, sync_sessions, next_local_id, wrapped, kids, msg,
                   ids, cur, inbox, outbox, peer>>

PollClose ==
    /\ At("close")
    /\ Forget(cur)
    /\ cur' = 0
    /\ pc' = "poll"
    /\ UNCHANGED <<connected, sync_sessions, next_local_id, wrapped, msg, ids, wrtes,
                   sendq, inbox, outbox, peer>>

(* The ids of the next poll are taken before the next message is handled. *)
EndPoll_bug ==
    /\ At("poll")
    /\ ids = {}
    /\ ids' = active_ids
    /\ pc' = "read"
    /\ UNCHANGED <<connected, tables, kids, msg, cur, wrtes, sendq, inbox, outbox, peer>>

EndPoll ==
    /\ At("poll")
    /\ ids = {}
    /\ pc' = "read"
    /\ UNCHANGED <<connected, tables, kids, msg, poll, sendq, inbox, outbox, peer>>

--------------------------------------------------------------------------------
(* send_message: write_all blocks while the peer's side is full, and what  *)
(* is written to a socket the peer has closed is lost.                     *)

Send ==
    /\ sendq # <<>>
    /\ peer => Len(outbox) < WireCap
    /\ sendq' = Tail(sendq)
    /\ outbox' = IF peer THEN Append(outbox, Head(sendq)) ELSE outbox
    /\ UNCHANGED <<connected, tables, kids, pc, msg, poll, inbox, peer>>

(* An error ends the connection, except that of the poll's own CLSE.       *)
SendFails ==
    /\ ~peer
    /\ sendq # <<>>
    /\ \/ /\ pc = "close"
          /\ Len(sendq) = 1
          /\ sendq' = <<>>
          /\ UNCHANGED <<connected, tables, kids, pc, msg, poll, inbox, outbox, peer>>
       \/ /\ pc = "close" => Len(sendq) > 1
          /\ Return

--------------------------------------------------------------------------------
(* The shells. *)

KidWrites(id) ==
    /\ id \in DOMAIN kids
    /\ kids[id].alive
    /\ \/ /\ kids[id].out < PipeCap
          /\ kids' = [kids EXCEPT ![id].out = @ + 1]
       \/ /\ sessions[id].err
          /\ kids[id].err < PipeCap
          /\ kids' = [kids EXCEPT ![id].err = @ + 1]
    /\ UNCHANGED <<connected, tables, pc, msg, poll, sendq, inbox, outbox, peer>>

KidExits(id) ==
    /\ id \in DOMAIN kids
    /\ kids[id].alive
    /\ kids' = [kids EXCEPT ![id].alive = FALSE]
    /\ UNCHANGED <<connected, tables, pc, msg, poll, sendq, inbox, outbox, peer>>

--------------------------------------------------------------------------------
(* The peer. *)

PeerSends(m) ==
    /\ peer
    /\ pc # "done"
    /\ Len(inbox) < InCap
    /\ inbox' = Append(inbox, m)
    /\ UNCHANGED <<connected, tables, kids, pc, msg, poll, sendq, outbox, peer>>

PeerReceives ==
    /\ peer
    /\ outbox # <<>>
    /\ outbox' = Tail(outbox)
    /\ UNCHANGED <<connected, tables, kids, pc, msg, poll, sendq, inbox, peer>>

(* What it has sent may still be read; what was sent to it is gone.        *)
PeerHangsUp ==
    /\ peer
    /\ peer' = FALSE
    /\ outbox' = <<>>
    /\ UNCHANGED <<connected, tables, kids, pc, msg, poll, sendq, inbox>>

(* Anything at all, malformed messages and streams that never were too.    *)
AnyMessage ==
    {PeerCnxn, BadMessage}
        \cup {PeerOpen(r, d) : r \in RemoteIds, d \in Dests}
        \cup {PeerStream(c, r, l) : c \in {"OKAY", "CLSE", "WRTE"},
                                    r \in RemoteIds, l \in LocalIds}

--------------------------------------------------------------------------------

ReadMessage ==
    \/ HandleCnxn \/ OpenShell \/ OpenShellFails \/ OpenSync \/ OpenOther
    \/ HandleWrte \/ HandleClse \/ HandleOther \/ ReadFails

Finish ==
    \/ FinishCnxn \/ ApplySyncQuit \/ FinishSyncQuit \/ ApplySync \/ ApplyShell

PollShells ==
    \/ BeginPoll \/ EndPoll
    \/ \E id \in LocalIds : PollStdout(id)
    \/ PollStderr \/ PollAlive \/ PollExited \/ PollClose

Daemon ==
    \/ ReadMessage \/ ReadNothing \/ Finish \/ PollShells \/ Send \/ SendFails

Kids == \E id \in LocalIds : KidWrites(id) \/ KidExits(id)

Peer ==
    \/ \E m \in AnyMessage : PeerSends(m)
    \/ PeerReceives
    \/ PeerHangsUp

(* The thread has ended; nothing is left to do. *)
Terminated ==
    /\ pc = "done"
    /\ UNCHANGED vars

Next == Daemon \/ Kids \/ Peer \/ Terminated

Spec == Init /\ [][Next]_vars

(***************************************************************************)
(* The thread runs whenever it can, so every step of its own is taken in   *)
(* the end.  A read may come before the bytes do, again and again, but TCP *)
(* delivers them or reports the end: a read that finds something is not    *)
(* put off for ever (strong fairness, since empty reads come in between).  *)
(* Nothing is assumed of the shells or of the peer.                        *)
(***************************************************************************)
Fairness ==
    /\ WF_vars(ReadNothing)
    /\ SF_vars(ReadMessage)
    /\ WF_vars(Finish)
    /\ WF_vars(PollShells)
    /\ WF_vars(Send \/ SendFails)

FairSpec == Spec /\ Fairness

--------------------------------------------------------------------------------
(* Correctness, whatever the peer does. *)

Live == active_ids \cup DOMAIN sync_sessions

(* Every shell session has its process: between insert and drop the two    *)
(* go together.                                                            *)
TablesOK ==
    /\ active_ids \subseteq LocalIds
    /\ sessions \in [active_ids -> Session]
    /\ kids \in [active_ids -> Kid]
    /\ DOMAIN sync_sessions \subseteq LocalIds
    /\ sync_sessions \in [DOMAIN sync_sessions -> RemoteIds \cup {0}]
    /\ next_local_id \in LocalIds

ControlOK ==
    /\ pc \in Pcs
    /\ pc \in {"wrte", "unsync"} => msg \in PeerMsg
    /\ ids \subseteq LocalIds
    /\ cur \in LocalIds
    /\ {connected, wrapped, peer} \subseteq BOOLEAN

QueuesOK ==
    /\ wrtes \in Seq(DaemonMsg)
    /\ sendq \in Seq(DaemonMsg)
    /\ inbox \in Seq(PeerMsg)
    /\ outbox \in Seq(DaemonMsg)

(* Every variable holds what its declaration says.                         *)
TypeOK == TablesOK /\ ControlOK /\ QueuesOK

OnlyBanners(q) == \A i \in 1 .. Len(q) : q[i].cmd = "CNXN"

(* Before a CNXN has been answered nothing is opened, nothing runs, and    *)
(* the peer is sent nothing but banners: the "if connected" guards of      *)
(* handle_connection and the place where it sets connected.                *)
HandshakeGate ==
    ~connected => /\ Live = {}
                  /\ wrtes = <<>>
                  /\ OnlyBanners(sendq)
                  /\ OnlyBanners(outbox)

(* alloc_local_id never hands out an id that some live stream holds: until *)
(* the u32 wraps, live ids lie below the counter and no id is both a       *)
(* shell's and a sync session's, though nothing in the code looks.         *)
IdsFresh ==
    ~wrapped => /\ \A l \in Live : 0 < l /\ l < next_local_id
                /\ active_ids \cap DOMAIN sync_sessions = {}

(* The poll walks over a copy of the ids taken before it, and removes      *)
(* sessions while it walks: each id still to visit, and the one being      *)
(* visited, is live, so no get_mut of the loop comes back empty.           *)
PollSnapshotLive ==
    /\ ids \subseteq active_ids
    /\ pc \in Polling => cur \in active_ids \ ids

(* try_wait answers 0 for a session whose child it has already reaped.     *)
(* Nobody is ever told that 0: such a session is on its way out, within    *)
(* the same visit of the poll.                                             *)
FinishedOnlyWhileClosing ==
    \A l \in active_ids : sessions[l].finished => pc = "close" /\ cur = l

(* The shape these rest on: outside the poll there is no snapshot of ids,  *)
(* and the counter is past 0 as long as it has not wrapped.                *)
PollIdle == pc \notin Polling \cup {"poll"} => ids = {}
CounterStarted == ~wrapped => next_local_id > 0

(* The inductive invariant of the proofs.                                  *)
IInv ==
    /\ TypeOK
    /\ HandshakeGate
    /\ IdsFresh
    /\ PollSnapshotLive
    /\ FinishedOnlyWhileClosing
    /\ PollIdle
    /\ CounterStarted

(* Once the peer has closed its socket the handler returns, and with it    *)
(* every session is dropped, whatever the shells are doing.                *)
HangupEnds == ~peer ~> (pc = "done" /\ Live = {})

================================================================================
