------------------------------- MODULE ShellInput -------------------------------
(***************************************************************************)
(* What a client's keystrokes go through to reach a shell: the frames of   *)
(* the shell v2 protocol, cut into WRTEs, cut into pieces by TCP, read by  *)
(* the handler, and written to a stdin that may be full.  This is the      *)
(* A_WRTE arm of handle_connection in guest-adbd/src/main.rs for a shell   *)
(* session, with ShellV2Frame::parse of shell_v2.rs and                    *)
(* ShellSession::write_stdin of session.rs.                                *)
(*                                                                         *)
(* The id and the length of a frame are a word each.  The handler works on *)
(* one WRTE at a time; between any two of its steps the shell reads, or    *)
(* stops reading for good.                                                 *)
(***************************************************************************)
EXTENDS Transport, SequencesExt

CONSTANTS
    Modes,        \* the sessions there are: v2 or not, pty or pipes
    Keys,         \* what the client types: the payloads of its stdin frames
    MaxFrames,    \* how many frames it sends
    StdinCap,     \* words the pipe or pty holds for the shell
    InFlight      \* it writes a WRTE when the stream holds no more words than this

ASSUME ModesAssumption == Modes \subseteq [v2 : BOOLEAN, pty : BOOLEAN]
ASSUME KeysAssumption == Keys \subseteq Seq(Nat)
ASSUME MaxFramesAssumption == MaxFrames \in Nat
ASSUME StdinCapAssumption == StdinCap \in Nat \ {0}
ASSUME InFlightAssumption == InFlight \in Nat

(* ShellV2Id, as far as the daemon tells its values apart, and what         *)
(* from_u8 knows.                                                          *)
Stdin == 0
CloseStdin == 4
WindowSizeChange == 5
KnownIds == 0 .. 5

VARIABLES
    mode,       \* the session's v2, and whether stdin_fd and stdout_fd are a pty
    session,    \* it is in the table
    alive,      \* its shell reads, or may yet read
    todo,       \* what of msg.data lies behind offset
    payload,    \* what write_all has still to write
    fed,        \* history: what was written to stdin
    unread,     \* how much of that is in the pipe
    winsize,    \* the pty's window size
    script,     \* what the client has to say: its frames
    pending,    \* the words of these that no WRTE carries yet
    handled,    \* history: words of it that handled WRTEs have carried
    whole,      \* history: each WRTE carried whole frames
    lost        \* history: a write to stdin has failed

shell == <<mode, session, alive, fed, unread, winsize>>
work == <<todo, payload>>
client == <<script, pending, whole>>
vars == <<net, pc, shell, work, client, handled, lost>>

Frame(id, data) == [id |-> id, data |-> data]

(* Typed words; an end of input; a window size, and one that is too short. *)
(* A v1 client just types.                                                 *)
Frames ==
    {Frame(Stdin, data) : data \in Keys}
        \cup IF mode.v2
             THEN {Frame(CloseStdin, <<>>), Frame(WindowSizeChange, <<24, 80>>),
                   Frame(WindowSizeChange, <<24>>)}
             ELSE {}

Words(f) == IF mode.v2 THEN <<f.id, Len(f.data)>> \o f.data ELSE f.data

WordsOf(frames) == FlattenSeq([i \in 1 .. Len(frames) |-> Words(frames[i])])

--------------------------------------------------------------------------------

Init ==
    /\ TransportInit
    /\ mode \in Modes
    /\ session = TRUE
    /\ alive = TRUE
    /\ todo = <<>>
    /\ payload = <<>>
    /\ fed = <<>>
    /\ unread = 0
    /\ winsize = <<>>
    /\ script \in BoundedSeq(Frames, MaxFrames)
    /\ pending = WordsOf(script)
    /\ handled = 0
    /\ whole = TRUE
    /\ lost = FALSE

(* The client. *)

(* Whether n pending words end where a frame does. *)
EndsFrame(n) ==
    \E k \in 0 .. Len(script) :
        Len(WordsOf(SubSeq(script, k + 1, Len(script)))) = Len(pending) - n

(* The adb server puts what it has got of the stream into a WRTE. *)
ClientWrites(n) ==
    /\ n \in 0 .. Len(pending)
    /\ n <= MaxPayload
    /\ Len(stream) <= (IF n = 0 THEN 0 ELSE InFlight)
    /\ Written(Message(HEADER, SubSeq(pending, 1, n)))
    /\ pending' = SubSeq(pending, n + 1, Len(pending))
    /\ whole' = (whole /\ EndsFrame(n))
    /\ UNCHANGED <<shell, work, script, handled, lost>>

(* A header with the wrong magic, or that announces too much. *)
ClientGarbles ==
    /\ stream = <<>>
    /\ \/ Written(<<GARBLED, 0>>)
       \/ Written(<<HEADER, MaxPayload + 1>>)
    /\ UNCHANGED <<shell, work, client, handled, lost>>

Client ==
    \/ \E n \in 0 .. Len(pending) : ClientWrites(n)
    \/ ClientGarbles
    \/ /\ ClientHangsUp \/ \E n \in 0 .. Len(stream) - 1 : ClientFallsSilent(n)
       /\ UNCHANGED <<shell, work, client, handled, lost>>

--------------------------------------------------------------------------------
(* The handler, at a WRTE that has arrived whole. *)

(* The acknowledgement goes out before the data is looked at. *)
Acknowledge ==
    /\ pc = "handle"
    /\ pc' = "apply"
    /\ todo' = SubSeq(buf, 3, Len(buf))
    /\ UNCHANGED <<net, shell, payload, client, handled, lost>>

Consume(n) == todo' = SubSeq(todo, n + 1, Len(todo))

(* ShellV2Frame::parse of what lies behind offset. *)
frame_id == todo[1]
frame_length == todo[2]
Parses == Len(todo) >= 2 /\ frame_id \in KnownIds /\ Len(todo) >= 2 + frame_length
frame_data == SubSeq(todo, 3, 2 + frame_length)

(* offset is moved past the payload alone. *)
Parsed_bug(id) ==
    /\ pc = "apply"
    /\ session /\ mode.v2
    /\ Parses /\ frame_id = id
    /\ Consume(frame_length)
    /\ UNCHANGED <<net, mode, session, alive, fed, unread, client, handled, lost>>

Parsed(id) ==
    /\ pc = "apply"
    /\ session /\ mode.v2
    /\ Parses /\ frame_id = id
    /\ Consume(2 + frame_length)
    /\ UNCHANGED <<net, mode, session, alive, fed, unread, client, handled, lost>>

StdinFrame ==
    /\ Parsed(Stdin)
    /\ payload' = frame_data
    /\ pc' = "write"
    /\ UNCHANGED winsize

(* Only a pty has a window, and only four bytes are a size. *)
WindowFrame ==
    /\ Parsed(WindowSizeChange)
    /\ winsize' = IF mode.pty /\ frame_length >= 2
                  THEN SubSeq(frame_data, 1, 2) ELSE winsize
    /\ UNCHANGED <<payload, pc>>

(* CloseStdin is among the frames that change nothing. *)
IgnoredFrame ==
    /\ \E id \in KnownIds \ {Stdin, WindowSizeChange} : Parsed(id)
    /\ UNCHANGED <<payload, pc, winsize>>

(* Shell v1: raw data goes to stdin. *)
RawInput ==
    /\ pc = "apply"
    /\ session /\ ~mode.v2 /\ todo # <<>>
    /\ payload' = todo
    /\ todo' = <<>>
    /\ pc' = "write"
    /\ UNCHANGED <<net, shell, client, handled, lost>>

(* The arm is over: no session, no data left, or data that does not parse  *)
(* as a frame, which is dropped.                                           *)
WrteDone ==
    /\ pc = "apply"
    /\ ~session \/ todo = <<>> \/ (mode.v2 /\ ~Parses)
    /\ todo' = <<>>
    /\ handled' = handled + data_length
    /\ NextMessage
    /\ UNCHANGED <<shell, payload, client, lost>>

--------------------------------------------------------------------------------
(* write_stdin: write_all to a descriptor that does not block. *)

(* A write that got some of it out is repeated from the start. *)
WriteSome_bug ==
    /\ pc = "write" /\ alive
    /\ \E n \in 1 .. Len(payload) :
          /\ unread + n <= StdinCap
          /\ fed' = fed \o SubSeq(payload, 1, n)
          /\ unread' = unread + n
          /\ payload' = IF n = Len(payload) THEN <<>> ELSE payload
    /\ UNCHANGED <<net, pc, mode, session, alive, winsize, todo, client, handled, lost>>

WriteSome ==
    /\ pc = "write" /\ alive
    /\ \E n \in 1 .. Len(payload) :
          /\ unread + n <= StdinCap
          /\ fed' = fed \o SubSeq(payload, 1, n)
          /\ unread' = unread + n
          /\ payload' = SubSeq(payload, n + 1, Len(payload))
    /\ UNCHANGED <<net, pc, mode, session, alive, winsize, todo, client, handled, lost>>

WriteReturns ==
    /\ pc = "write"
    /\ payload = <<>>
    /\ pc' = "apply"
    /\ UNCHANGED <<net, shell, work, client, handled, lost>>

(* WouldBlock, as the rest does not fit (a pipe takes a small write whole   *)
(* or not at all), or EPIPE or EIO: the rest is dropped and only logged.   *)
WriteFails ==
    /\ pc = "write"
    /\ payload # <<>>
    /\ ~alive \/ unread + Len(payload) > StdinCap
    /\ payload' = <<>>
    /\ lost' = TRUE
    /\ pc' = "apply"
    /\ UNCHANGED <<net, shell, todo, client, handled>>

--------------------------------------------------------------------------------
(* The shell, and the poll that drops its session. *)

ShellReads ==
    /\ alive
    /\ unread > 0
    /\ unread' = unread - 1
    /\ UNCHANGED <<net, pc, mode, session, alive, fed, winsize, work, client, handled, lost>>

ShellExits ==
    /\ alive
    /\ alive' = FALSE
    /\ unread' = 0
    /\ UNCHANGED <<net, pc, mode, session, fed, winsize, work, client, handled, lost>>

PollDrops ==
    /\ pc = "peek"
    /\ session /\ ~alive
    /\ session' = FALSE
    /\ UNCHANGED <<net, pc, mode, alive, fed, unread, winsize, work, client, handled, lost>>

(* handle_connection has returned, and the SessionManager is dropped. *)
Cleared ==
    /\ pc = "done"
    /\ session
    /\ session' = FALSE
    /\ UNCHANGED <<net, pc, mode, alive, fed, unread, winsize, work, client, handled, lost>>

--------------------------------------------------------------------------------

Handle ==
    \/ Acknowledge
    \/ StdinFrame \/ WindowFrame \/ IgnoredFrame \/ RawInput \/ WrteDone
    \/ WriteSome \/ WriteReturns \/ WriteFails

Handler ==
    \/ Receive /\ UNCHANGED <<shell, work, client, handled, lost>>
    \/ Handle
    \/ PollDrops \/ Cleared

Next == Client \/ Handler \/ ShellReads \/ ShellExits

Spec == Init /\ [][Next]_vars

(***************************************************************************)
(* The handler is one running thread, and a read that waits comes to its   *)
(* end, by a word or by its timeout.  Nothing is assumed of the client, of *)
(* the network or of the shell.                                            *)
(***************************************************************************)
FairSpec == Spec /\ WF_vars(Handler)

--------------------------------------------------------------------------------
(* What the client meant, frame by frame, with no words, WRTEs or pieces.  *)

Taking(before, f) ==
    CASE f.id = Stdin ->
            [before EXCEPT !.fed = @ \o f.data]
      [] f.id = WindowSizeChange /\ mode.pty /\ Len(f.data) >= 2 ->
            [before EXCEPT !.winsize = f.data]
      [] OTHER -> before

Meant(frames) == FoldLeft(Taking, [fed |-> <<>>, winsize |-> <<>>], frames)

Between == pc \in {"peek", "done"} \cup Reading

InputOK ==
    /\ TransportOK
    /\ pc \in {"peek", "handle", "apply", "write", "done"} \cup Reading
    /\ todo \in Seq(Nat)
    /\ payload \in Seq(Nat)
    /\ fed \in Seq(Nat)
    /\ unread \in 0 .. StdinCap
    /\ winsize \in {<<>>} \cup Seq(Nat)
    /\ handled \in Nat
    /\ \A flag \in {session, alive, whole, lost} : flag \in BOOLEAN

(* The handler never loses its place in the stream: when it peeks for a    *)
(* message, the next word is the first of a header, however the network    *)
(* cut the bytes; a message that breaks off ends the connection instead.   *)
AtMessageStart ==
    pc = "peek" /\ stream # <<>> => stream[1] \in {HEADER, GARBLED}

(* What the shell has been given is what was typed, to the word, however   *)
(* many frames a WRTE carries and however the network cuts it, and the     *)
(* window has the size last asked for; a message that arrived in part has  *)
(* done nothing.  For v2 this needs each WRTE to carry whole frames, and   *)
(* for both that no write to stdin has failed.                             *)
InputAsTyped ==
    Between /\ session /\ ~lost =>
        IF mode.v2
        THEN whole => \E k \in 0 .. Len(script) :
                         LET frames == SubSeq(script, 1, k)
                         IN  /\ Len(WordsOf(frames)) = handled
                             /\ Meant(frames) = [fed |-> fed, winsize |-> winsize]
        ELSE fed = SubSeq(WordsOf(script), 1, handled)

(* Whatever was lost, to a full pipe, a shell that is gone or a connection *)
(* that broke off: nothing is given to the shell twice, out of order, or   *)
(* that nobody typed.                                                      *)
NothingInvented ==
    whole \/ ~mode.v2 =>
        \E place \in [1 .. Len(fed) -> 1 .. Len(Meant(script).fed)] :
            /\ \A i \in 1 .. Len(fed) : fed[i] = Meant(script).fed[place[i]]
            /\ \A i \in 2 .. Len(fed) : place[i - 1] < place[i]

(* A frame is a piece of the stream, and not of a WRTE: shell v2 "multi-   *)
(* plexes stdin/stdout/stderr/exit over a single ADB stream".  When every  *)
(* word of the frames has been in a WRTE that the handler acknowledged and *)
(* is done with, the shell has been given what they mean.  The code keeps  *)
(* nothing from one WRTE to the next: a frame that is cut in two is        *)
(* dropped, and its second half read as a frame of its own.                *)
FramesOfTheStream ==
    /\ mode.v2 /\ session /\ ~lost
    /\ pc = "peek" /\ handled = Len(WordsOf(script))
    => fed = Meant(script).fed

(* A message under way keeps the handler, and with it all other streams of *)
(* the connection, for a while but not for ever.                           *)
MessageEnds == pc \in Reading ~> pc \notin Reading

(* A client that has gone, in the middle of a message or of a frame, or    *)
(* with the shell's stdin full, does not leave the shell behind.           *)
InputEnds == peer = "closed" ~> ~session

================================================================================
