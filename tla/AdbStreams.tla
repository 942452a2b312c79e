------------------------------- MODULE AdbStreams -------------------------------
(***************************************************************************)
(* What the daemon promises a client that follows the protocol: which      *)
(* messages it may put on the wire, in which order, and what each message  *)
(* of the client is answered with.  There is no handler, no table and no   *)
(* process here, only the two directions of the connection, the phase of   *)
(* each stream and its local id while it is live.  What the client asks is *)
(* heard once and in order, and nothing is said in answer to what it did   *)
(* not ask.  AdbSystem implements it.                                      *)
(***************************************************************************)
EXTENDS AdbProtocol

CONSTANT MaxAnswer   \* WRTEs in the answer to one message of a sync stream

ASSUME MaxAnswerAssumption == MaxAnswer \in Nat
ASSUME NoStreamZeroAssumption == 0 \notin RemoteIds

VARIABLES
    up,      \* the client has not gone
    phase,   \* of each stream
    lid,     \* the daemon's id of each live stream, 0 for the others
    asks,    \* what the client has said and the daemon has not heard
    wire     \* what is on its way to the client

svars == <<up, phase, lid, asks, wire>>

LivePhases == {"v1", "v2", "sync", "answering"}
Phases == LivePhases \cup {"idle", "asked", "closed"}

(* What the output of a shell is labelled as.                              *)
Carries == [v1 |-> {"raw"}, v2 |-> {"stdout", "stderr"}]

(* A message of the client: its command, and the stream it is of.          *)
Ask == [cmd : {"CNXN", "OPEN", "OKAY", "CLSE", "WRTE"}, of : RemoteIds \cup {0}]

ask(c, r) == [cmd |-> c, of |-> r]

Init ==
    /\ up = TRUE
    /\ phase = [r \in RemoteIds |-> "idle"]
    /\ lid = [r \in RemoteIds |-> 0]
    /\ asks = <<>>
    /\ wire = <<>>

Asks(c, r) ==
    /\ up
    /\ asks' = Append(asks, ask(c, r))

(* What was asked is heard in turn, and nothing more is heard while a sync *)
(* stream is owed its answer.                                              *)
Hears(c, r) ==
    /\ asks # <<>>
    /\ Head(asks) = ask(c, r)
    /\ asks' = Tail(asks)
    /\ \A q \in RemoteIds : phase[q] # "answering"

Say(messages) == wire' = wire \o messages

Ends(r) ==
    /\ phase' = [phase EXCEPT ![r] = "closed"]
    /\ lid' = [lid EXCEPT ![r] = 0]

Live(r) == phase[r] \in LivePhases

--------------------------------------------------------------------------------
(* The client. *)

Connect ==
    /\ Asks("CNXN", 0)
    /\ UNCHANGED <<up, phase, lid, wire>>

Request(r) ==
    /\ phase[r] = "idle"
    /\ phase' = [phase EXCEPT ![r] = "asked"]
    /\ Asks("OPEN", r)
    /\ UNCHANGED <<up, lid, wire>>

(* On a stream whose OPEN has been answered. *)
Speak(r) ==
    /\ \E c \in {"OKAY", "CLSE", "WRTE"} : Asks(c, r)
    /\ phase[r] \notin {"idle", "asked"}
    /\ UNCHANGED <<up, phase, lid, wire>>

Take ==
    /\ wire # <<>>
    /\ wire' = Tail(wire)
    /\ UNCHANGED <<up, phase, lid, asks>>

(* Nothing ends the connection but the client. *)
Down ==
    /\ up
    /\ up' = FALSE
    /\ phase' = [r \in RemoteIds |-> "closed"]
    /\ lid' = [r \in RemoteIds |-> 0]
    /\ asks' = <<>>
    /\ wire' = <<>>

--------------------------------------------------------------------------------
(* The daemon, asked. *)

(* In each definition that ends in _bug, a plausible mistake in the next.  *)

(* An OPEN is answered by an OKAY that names an id no live stream has...   *)
Accept(r) ==
    /\ Hears("OPEN", r)
    /\ \E l \in LocalIds :
          /\ Say(<<okay(l, r)>>)
          /\ \A q \in RemoteIds : Live(q) => lid[q] # l
          /\ lid' = [lid EXCEPT ![r] = l]
          /\ \E k \in {"v1", "v2", "sync"} : phase' = [phase EXCEPT ![r] = k]
    /\ UNCHANGED up

(* ... or by a CLSE, which ends the stream before it began.                *)
Refuse(r) ==
    /\ Hears("OPEN", r)
    /\ Ends(r)
    /\ Say(<<clse(0, r)>>)
    /\ UNCHANGED up

(* A WRTE is acknowledged, on a live stream under its id, and even when it *)
(* crossed the daemon's CLSE; a sync stream owes it an answer then.        *)
Ack(r) ==
    /\ Hears("WRTE", r)
    /\ \E l \in IF Live(r) THEN {lid[r]} ELSE LocalIds : Say(<<okay(l, r)>>)
    /\ phase' = [phase EXCEPT ![r] = IF @ = "sync" THEN "answering" ELSE @]
    /\ UNCHANGED <<up, lid>>

Answer(r, n) == [i \in 1 .. n |-> wrte(lid[r], r, "sync")]

SyncAnswer(r) ==
    /\ phase[r] = "answering"
    /\ phase' = [phase EXCEPT ![r] = "sync"]
    /\ \E n \in 0 .. MaxAnswer : Say(Answer(r, n))
    /\ UNCHANGED <<up, lid, asks>>

SyncQuit(r) ==
    /\ phase[r] = "answering"
    /\ \E n \in 0 .. MaxAnswer : Say(Append(Answer(r, n), clse(lid[r], r)))
    /\ Ends(r)
    /\ UNCHANGED <<up, asks>>

(* The stream lives on. *)
Close_bug(r) ==
    /\ Hears("CLSE", r)
    /\ Live(r)
    /\ Say(<<clse(lid[r], r)>>)
    /\ UNCHANGED <<up, phase, lid>>

(* The CLSE of a live stream is answered by the daemon's own, ...          *)
Close(r) ==
    /\ Hears("CLSE", r)
    /\ Live(r)
    /\ Say(<<clse(lid[r], r)>>)
    /\ Ends(r)
    /\ UNCHANGED up

(* ... that of a closed one is not, and an OKAY never is.                  *)
Ignore(r) ==
    /\ Hears("OKAY", r) \/ (~Live(r) /\ Hears("CLSE", r))
    /\ UNCHANGED <<up, phase, lid, wire>>

(* It closes whatever has been asked for. *)
Banner_bug ==
    /\ Hears("CNXN", 0)
    /\ phase' = [r \in RemoteIds |-> IF phase[r] = "idle" THEN "idle" ELSE "closed"]
    /\ lid' = [r \in RemoteIds |-> 0]
    /\ Say(<<cnxn>>)
    /\ UNCHANGED up

(* A CNXN is answered by the banner and ends every stream without a word.  *)
Banner ==
    /\ Hears("CNXN", 0)
    /\ phase' = [r \in RemoteIds |-> IF Live(r) THEN "closed" ELSE phase[r]]
    /\ lid' = [r \in RemoteIds |-> 0]
    /\ Say(<<cnxn>>)
    /\ UNCHANGED up

--------------------------------------------------------------------------------
(* The daemon, of its own accord. *)

Output(r) ==
    /\ phase[r] \in DOMAIN Carries
    /\ \E p \in Carries[phase[r]] : Say(<<wrte(lid[r], r, p)>>)
    /\ UNCHANGED <<up, phase, lid, asks>>

(* The CLSE overtakes the exit. *)
Exit_bug(r) ==
    /\ phase[r] \in DOMAIN Carries
    /\ Say(<<clse(lid[r], r)>>
              \o (IF phase[r] = "v2" THEN <<wrte(lid[r], r, "exit")>> ELSE <<>>))
    /\ Ends(r)
    /\ UNCHANGED <<up, asks>>

(* The command ended: its exit, where the protocol has one, then the CLSE. *)
Exit(r) ==
    /\ phase[r] \in DOMAIN Carries
    /\ Say((IF phase[r] = "v2" THEN <<wrte(lid[r], r, "exit")>> ELSE <<>>)
              \o <<clse(lid[r], r)>>)
    /\ Ends(r)
    /\ UNCHANGED <<up, asks>>

--------------------------------------------------------------------------------

StreamStep(r) ==
    \/ Request(r) \/ Speak(r)
    \/ Accept(r) \/ Refuse(r)
    \/ Ack(r) \/ SyncAnswer(r) \/ SyncQuit(r)
    \/ Close(r) \/ Ignore(r)
    \/ Output(r) \/ Exit(r)

Next ==
    \/ \E r \in RemoteIds : StreamStep(r)
    \/ Connect \/ Banner
    \/ Take
    \/ Down

Spec == Init /\ [][Next]_svars

--------------------------------------------------------------------------------
(* What a client may rely on. *)

TypeOK ==
    /\ up \in BOOLEAN
    /\ phase \in [RemoteIds -> Phases]
    /\ lid \in [RemoteIds -> LocalIds]
    /\ asks \in Seq(Ask)
    /\ wire \in Seq(DaemonMsg)

(* Of a sequence of messages: nothing but OKAYs after a stream's CLSE.     *)
QuietAfterClse(w) ==
    \A i, j \in 1 .. Len(w) :
        i < j /\ w[i].cmd = "CLSE" /\ w[i].arg1 = w[j].arg1 => w[j].cmd = "OKAY"

(* Each exit has its CLSE right behind it.                                 *)
ExitsClosed(w) ==
    \A i \in 1 .. Len(w) :
        w[i].data = "exit" =>
            i < Len(w) /\ w[i + 1] = clse(w[i].arg0, w[i].arg1)

(* After the CLSE of a stream nothing follows for it but acknowledgements. *)
ClseIsLast == QuietAfterClse(wire)

(* The exit of a command comes after all its output, once, and its CLSE is *)
(* the very next message: the client never waits for the end of a command  *)
(* whose exit it knows.                                                    *)
ExitThenClse == ExitsClosed(wire)

(* No two live streams share an id: the id alone tells the daemon which    *)
(* stream a message of the client is for.                                  *)
LidsDistinct ==
    \A q, r \in RemoteIds : q # r /\ Live(q) /\ Live(r) => lid[q] # lid[r]

(* The daemon is never asked what it has no answer for: an OPEN it has not *)
(* heard is the only one of its stream, which waits for the answer even    *)
(* when a banner drops all the others, and whatever else is said of a      *)
(* stream is said once its OPEN has been answered.                         *)
Answerable ==
    \A i \in 1 .. Len(asks) :
        LET a == asks[i]
        IN  IF a.cmd = "OPEN"
            THEN /\ a.of \in RemoteIds
                 /\ phase[a.of] = "asked"
                 /\ \A j \in 1 .. Len(asks) : asks[j] = a => j = i
            ELSE a.of \in RemoteIds => phase[a.of] \notin {"idle", "asked"}

(* A stream whose CLSE is under way is closed, for good.  With the others  *)
(* and the types this is inductive: nothing but acknowledgements is said   *)
(* on a closed stream.                                                     *)
ClseCloses ==
    \A i \in 1 .. Len(wire) :
        wire[i].cmd = "CLSE" =>
            wire[i].arg1 \in RemoteIds /\ phase[wire[i].arg1] = "closed"

SInv ==
    /\ TypeOK
    /\ ClseCloses /\ ClseIsLast /\ ExitThenClse
    /\ LidsDistinct
    /\ Answerable

================================================================================
