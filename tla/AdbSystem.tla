------------------------------- MODULE AdbSystem -------------------------------
(***************************************************************************)
(* The daemon and a client that follows the protocol: the adb server that  *)
(* tests/integration_test.sh drives, which is not part of this repository  *)
(* and is modelled from what the daemon's code expects of it.              *)
(*                                                                         *)
(* The client connects with a CNXN and waits for the banner.  It opens     *)
(* streams under ids it uses once, writes to a stream only after the OKAY  *)
(* that named the daemon's id of it, may acknowledge what it gets, closes  *)
(* streams when it likes and answers a CLSE with its own.  A CNXN it sends *)
(* later abandons every stream it had.  It never sends a malformed         *)
(* message, but it may hang up at any point.                               *)
(***************************************************************************)
EXTENDS Adbd

CONSTANT MaxCnxn   \* how often the client connects over one socket

ASSUME StreamIdsAssumption == 0 \notin RemoteIds
ASSUME MaxCnxnAssumption == MaxCnxn \in Nat

VARIABLES
    link,    \* the client's view of the connection
    cl,      \* the client's view of each stream
    loc,     \* the daemon's id of the stream, once the client knows it
    cnxns    \* how often it has connected

client == <<link, cl, loc, cnxns>>
sysvars == <<vars, client>>

Links == {"down", "waiting", "up"}
ClientPhases == {"fresh", "opening", "open", "half", "closed"}

ClientInit ==
    /\ link = "down"
    /\ cl = [r \in RemoteIds |-> "fresh"]
    /\ loc = [r \in RemoteIds |-> 0]
    /\ cnxns = 0

SysInit == Init /\ ClientInit

ClientConnects ==
    /\ link # "waiting"
    /\ cnxns < MaxCnxn
    /\ PeerSends(PeerCnxn)
    /\ link' = "waiting"
    /\ cnxns' = cnxns + 1
    /\ cl' = [r \in RemoteIds |-> IF cl[r] = "fresh" THEN "fresh" ELSE "closed"]
    /\ UNCHANGED loc

(* Stream ids are taken in order, as the adb server's counter does.        *)
ClientOpens(r, d) ==
    /\ link = "up"
    /\ cl[r] = "fresh"
    /\ \A q \in RemoteIds : q < r => cl[q] # "fresh"
    /\ PeerSends(PeerOpen(r, d))
    /\ cl' = [cl EXCEPT ![r] = "opening"]
    /\ UNCHANGED <<link, loc, cnxns>>

ClientWrites(r) ==
    /\ cl[r] = "open"
    /\ PeerSends(PeerStream("WRTE", r, loc[r]))
    /\ UNCHANGED client

ClientAcks(r) ==
    /\ cl[r] = "open"
    /\ PeerSends(PeerStream("OKAY", r, loc[r]))
    /\ UNCHANGED client

(* Of its own accord, or because the daemon closed its half.               *)
ClientCloses(r) ==
    /\ cl[r] \in {"open", "half"}
    /\ PeerSends(PeerStream("CLSE", r, loc[r]))
    /\ cl' = [cl EXCEPT ![r] = "closed"]
    /\ UNCHANGED <<link, loc, cnxns>>

(* A message for a stream the client has done with is ignored.             *)
Takes(m) ==
    CASE m.cmd = "CNXN" ->
            /\ link' = "up"
            /\ UNCHANGED <<cl, loc, cnxns>>
      [] m.cmd = "OKAY" /\ cl[m.arg1] = "opening" ->
            /\ cl' = [cl EXCEPT ![m.arg1] = "open"]
            /\ loc' = [loc EXCEPT ![m.arg1] = m.arg0]
            /\ UNCHANGED <<link, cnxns>>
      [] m.cmd = "CLSE" /\ cl[m.arg1] = "opening" ->
            /\ cl' = [cl EXCEPT ![m.arg1] = "closed"]
            /\ UNCHANGED <<link, loc, cnxns>>
      [] m.cmd = "CLSE" /\ cl[m.arg1] = "open" ->
            /\ cl' = [cl EXCEPT ![m.arg1] = "half"]
            /\ UNCHANGED <<link, loc, cnxns>>
      [] OTHER -> UNCHANGED client

ClientReceives ==
    /\ PeerReceives
    /\ Takes(Head(outbox))

ClientHangsUp ==
    /\ PeerHangsUp
    /\ UNCHANGED client

ClientStep ==
    \/ ClientConnects
    \/ \E r \in RemoteIds :
          \/ \E d \in Dests : ClientOpens(r, d)
          \/ ClientWrites(r)
          \/ ClientAcks(r)
          \/ ClientCloses(r)
    \/ ClientReceives
    \/ ClientHangsUp

SysNext ==
    \/ (Daemon \/ Kids \/ Terminated) /\ UNCHANGED client
    \/ ClientStep

SysSpec == SysInit /\ [][SysNext]_sysvars

(* The client goes on reading; it need not do anything else.               *)
SysFairness ==
    /\ WF_sysvars(ReadNothing /\ UNCHANGED client)
    /\ SF_sysvars(ReadMessage /\ UNCHANGED client)
    /\ WF_sysvars(Finish /\ UNCHANGED client)
    /\ WF_sysvars(PollShells /\ UNCHANGED client)
    /\ WF_sysvars((Send \/ SendFails) /\ UNCHANGED client)
    /\ WF_sysvars(ClientReceives)

FairSysSpec == SysSpec /\ SysFairness

--------------------------------------------------------------------------------
(* The daemon implements AdbStreams. *)

Asked(r) == \E i \in 1 .. Len(inbox) : inbox[i].cmd = "OPEN" /\ inbox[i].arg0 = r

(* A session whose CLSE is being sent is over, though still in its table;  *)
(* so is every session while the banner that drops them is being sent.     *)
Shells(r) ==
    {l \in active_ids : /\ sessions[l].remote = r
                        /\ pc # "cnxn"
                        /\ ~(pc = "close" /\ cur = l)}

Syncs(r) ==
    {l \in DOMAIN sync_sessions : /\ sync_sessions[l] = r
                                  /\ pc # "cnxn"
                                  /\ ~(pc = "unsync" /\ msg.arg1 = l)}

(* The WRTE of the stream is acknowledged, and not applied yet.            *)
Owed(r) == pc = "wrte" /\ msg.arg0 = r

PhaseOf(r) ==
    IF ~peer THEN "closed"
    ELSE IF Asked(r) THEN "asked"
    ELSE IF cl[r] = "fresh" THEN "idle"
    ELSE IF \E l \in Shells(r) : sessions[l].v2 THEN "v2"
    ELSE IF Shells(r) # {} THEN "v1"
    ELSE IF Syncs(r) # {} THEN IF Owed(r) THEN "answering" ELSE "sync"
    ELSE "closed"

IdOf(r) ==
    IF peer /\ Shells(r) \cup Syncs(r) # {}
    THEN CHOOSE l \in Shells(r) \cup Syncs(r) : TRUE
    ELSE 0

(* Of a message of the client the promise knows the command and the        *)
(* stream; a CNXN, whose arg0 is a version, is of none.                    *)
AskOf(m) == [cmd |-> m.cmd, of |-> IF m.cmd = "CNXN" THEN 0 ELSE m.arg0]

Streams == INSTANCE AdbStreams WITH
    MaxAnswer <- MaxChunks,
    up    <- peer,
    phase <- [r \in RemoteIds |-> PhaseOf(r)],
    lid   <- [r \in RemoteIds |-> IdOf(r)],
    asks  <- IF peer THEN [i \in 1 .. Len(inbox) |-> AskOf(inbox[i])] ELSE <<>>,
    wire  <- IF peer THEN outbox \o sendq \o wrtes ELSE <<>>

(* Every step of handler, shells and client is a step of the promise, or   *)
(* changes nothing the client could see: each message of the client is     *)
(* heard once, in order, and answered as the promise has it, one OKAY for  *)
(* each WRTE and one answer for each OPEN; output comes only on live       *)
(* streams and under their ids; a stream is closed when the client asked   *)
(* or its command has ended, the exit right before the CLSE, with one CLSE *)
(* per stream and nothing after it but acknowledgements.                   *)
ImplementsStreams == Streams!Spec

--------------------------------------------------------------------------------
(* Correctness with such a client. *)

SysTypeOK ==
    /\ TypeOK
    /\ link \in Links
    /\ cl \in [RemoteIds -> ClientPhases]
    /\ loc \in [RemoteIds -> LocalIds]
    /\ cnxns \in 0 .. MaxCnxn

RemoteOf(l) == IF l \in active_ids THEN sessions[l].remote ELSE sync_sessions[l]

(* The daemon finds a stream by its own id alone and starts its ids over   *)
(* with each CNXN.  Even so no message reaches another stream than the one *)
(* it was meant for: no WRTE is applied and no CLSE obeyed for a session   *)
(* of another stream, not even one in flight when its stream is dropped;   *)
(* and what the client takes for an open stream is that stream's.          *)
NoCrossTalk ==
    /\ pc = "wrte" /\ msg.arg1 \in Live => RemoteOf(msg.arg1) = msg.arg0
    /\ \A i \in 1 .. Len(inbox) :
          LET m == inbox[i]
          IN  m.cmd \in {"WRTE", "CLSE"} /\ m.arg1 \in Live /\ pc # "cnxn"
                => RemoteOf(m.arg1) = m.arg0
    /\ \A i \in 1 .. Len(outbox) :
          LET m == outbox[i]
          IN  m.cmd \in {"WRTE", "CLSE"} /\ cl[m.arg1] = "open"
                => m.arg0 = loc[m.arg1]

(* The daemon stays as long as the client does: nothing such a client says *)
(* or leaves unsaid makes the handler return, and with it drop the streams *)
(* of the client without a word.                                           *)
StaysConnected == pc = "done" => ~peer

(* Each stream the client holds open is live in the daemon, under the id   *)
(* the client knows it by, or the daemon's CLSE for it is on its way: the  *)
(* client never writes into a stream nobody will ever tell it is gone.     *)
OpenOrTold ==
    \A r \in RemoteIds :
        cl[r] = "open" /\ peer =>
            \/ loc[r] \in Live /\ RemoteOf(loc[r]) = r
            \/ \E i \in 1 .. Len(outbox \o sendq) :
                  (outbox \o sendq)[i] = clse(loc[r], r)

(* The streams the client is not done with go by different ids, even if    *)
(* the daemon has long dropped one of them: no id is given out again while *)
(* the client may still close its last stream by it.  The code does not    *)
(* look whether an id is in use; it counts, and starts over with a CNXN,   *)
(* for which the client must then have given up all of its streams.        *)
IdsTellApart ==
    peer =>
        \A q, r \in RemoteIds :
            q # r /\ {cl[q], cl[r]} \subseteq {"open", "half"} => loc[q] # loc[r]

(* The output of a command reaches the client: when its stream is closed   *)
(* after its exit, nothing it wrote is left unread.  The tests take it for *)
(* granted, and the code does not do it: the poll reads each pipe once and *)
(* asks for the exit afterwards, so what is written in between, or does    *)
(* not fit that one read, is dropped with the session.                     *)
OutputComplete ==
    pc = "close" => kids[cur].out = 0 /\ kids[cur].err = 0

(* An OPEN is answered, whatever else is going on, unless the client has   *)
(* gone or has started over.                                               *)
OpenAnswered ==
    \A r \in RemoteIds : cl[r] = "opening" ~> (cl[r] # "opening" \/ ~peer)

(* A shell that has exited is reported and dropped.                        *)
ExitDropped ==
    \A l \in LocalIds :
        (l \in active_ids /\ ~kids[l].alive)
            ~> (l \notin active_ids \/ kids[l].alive)

(* A stream the client has closed or abandoned is dropped by the daemon,   *)
(* whatever its shell is doing, and however much it still writes.          *)
CloseHonoured ==
    \A r \in RemoteIds :
        cl[r] = "closed" ~> \A l \in Live : RemoteOf(l) # r

================================================================================
