------------------------------ MODULE SyncSession ------------------------------
(***************************************************************************)
(* One file sync session: SyncSession::handle_data of guest-adbd/src/      *)
(* sync.rs, the files it works on, and a client that sends requests whose  *)
(* bytes the WRTEs cut anywhere.                                           *)
(*                                                                         *)
(* A word is one unit of the byte stream.  The id and the length of a      *)
(* header are a word each, and so are a path and each piece of a file: a   *)
(* length counts words.  A header can thus be cut between id and length;   *)
(* a cut inside a word would leave the parser where a cut before it does.  *)
(***************************************************************************)
EXTENDS Integers, Sequences, SequencesExt

CONSTANTS
    Paths,      \* the files of the one directory there is
    Refused,    \* those of them that cannot be created
    Contents,   \* what the client pushes
    Times,      \* the time stamps it puts into a DONE
    MaxRequests \* how many requests it sends

ID_STAT == 1001
ID_LIST == 1002
ID_SEND == 1003
ID_RECV == 1004
ID_DATA == 1005
ID_DONE == 1006
ID_QUIT == 1007
ID_NONE == 1008     \* an id handle_data has no arm for

Directory == 0      \* the path of the directory
NoPath == -1        \* one that names nothing

ASSUME PathsAssumption == Paths \subseteq Nat \ {0} /\ Refused \subseteq Paths
ASSUME ContentsAssumption == Contents \subseteq Seq(Nat)
ASSUME TimesAssumption == Times \subseteq Nat
ASSUME MaxRequestsAssumption == MaxRequests \in Nat

VARIABLES
    buffer,         \* words received and not consumed
    state,          \* Idle or ReceivingFile
    current_file,   \* the file being received, 0 for None
    pc,             \* inside handle_data, between two calls, or after a QUIT
    files,          \* the directory: the contents, by path
    replies,        \* history: what the session has answered
    faulty,         \* history: a read or a write of a file has failed
    script,         \* history: the client's requests
    unsent          \* its words that no WRTE has carried yet

session == <<buffer, state, current_file, pc, files, replies, faulty>>
vars == <<session, script, unsent>>

(* A request is what the client means, Words what it sends for it.  A push *)
(* may break off before its DONE.                                          *)
Request(kind, path, data, time) ==
    [kind |-> kind, path |-> path, data |-> data, time |-> time]

Plain(kind, path) == Request(kind, path, <<>>, 0)

Requests ==
    {Plain(k, p) : k \in {"STAT", "RECV"}, p \in Paths}
        \cup {Plain("LIST", p) : p \in Paths \cup {Directory}}
        \cup {Plain("QUIT", 0), Plain("NONE", 0)}
        \cup {Request("SEND", p, c, t) : p \in Paths, c \in Contents, t \in Times}
        \cup {Request("HALF", p, c, 0) : p \in Paths \ Refused, c \in Contents}

Words(q) ==
    LET data == IF q.data = <<>> THEN <<>> ELSE <<ID_DATA, Len(q.data)>> \o q.data
    IN  CASE q.kind = "STAT" -> <<ID_STAT, 1, q.path>>
          [] q.kind = "RECV" -> <<ID_RECV, 1, q.path>>
          [] q.kind = "LIST" -> <<ID_LIST, 1, q.path>>
          [] q.kind = "NONE" -> <<ID_NONE, 0>>
          [] q.kind = "QUIT" -> <<ID_QUIT, 0>>
          [] q.kind = "SEND" -> <<ID_SEND, 1, q.path>> \o data \o <<ID_DONE, q.time>>
          [] q.kind = "HALF" -> <<ID_SEND, 1, q.path>> \o data

Reply(id, data) == [id |-> id, data |-> data]
DONE == Reply("DONE", <<>>)
FAIL == Reply("FAIL", <<>>)

(* mode and size, and three zeros for a file that is not there *)
Metadata(fs, p) == IF p \in DOMAIN fs THEN <<1, Len(fs[p])>> ELSE <<0, 0>>

(* read_dir fails for what is no directory, and nothing is listed. *)
Listing(fs, p) ==
    IF p = Directory THEN [i \in 1 .. Cardinality(DOMAIN fs) |-> Reply("DENT", <<>>)]
                     ELSE <<>>

(* A file fits into one block of 64 KiB. *)
Blocks(content) == IF content = <<>> THEN <<>> ELSE <<Reply("DATA", content)>>

put(fs, p, content) == [f \in DOMAIN fs \cup {p} |-> IF f = p THEN content ELSE fs[f]]

--------------------------------------------------------------------------------

Init ==
    /\ buffer = <<>>
    /\ state = "Idle"
    /\ current_file = 0
    /\ pc = "ready"
    /\ files = [p \in {} |-> <<>>]
    /\ replies = <<>>
    /\ faulty = FALSE
    /\ script = <<>>
    /\ unsent = <<>>

(* The client need not wait for answers; after a QUIT it says no more.     *)
ClientAsks(q) ==
    /\ Len(script) < MaxRequests
    /\ \A i \in 1 .. Len(script) : script[i].kind # "QUIT"
    /\ script' = Append(script, q)
    /\ unsent' = unsent \o Words(q)
    /\ UNCHANGED session

(* A WRTE carries some of what is still to send; handle_data is called.    *)
handle_data(n) ==
    /\ pc = "ready"
    /\ n \in 1 .. Len(unsent)
    /\ buffer' = buffer \o SubSeq(unsent, 1, n)
    /\ unsent' = SubSeq(unsent, n + 1, Len(unsent))
    /\ pc' = "loop"
    /\ UNCHANGED <<state, current_file, files, replies, faulty, script>>

--------------------------------------------------------------------------------
(* One turn of handle_data's loop. *)

Turn(s) == pc = "loop" /\ state = s /\ UNCHANGED <<script, unsent>>

HasHeader == Len(buffer) >= 2
id == buffer[1]
length == buffer[2]
HasPayload == Len(buffer) >= 2 + length

(* What a misread payload names is no file, and cannot be created either.  *)
path == IF length = 1 THEN buffer[3] ELSE NoPath

Drain(n) == buffer' = SubSeq(buffer, n + 1, Len(buffer))

Answer(messages) == replies' = replies \o messages

(* break: handle_data returns and its response is sent.                    *)
Await ==
    /\ pc = "loop"
    /\ \/ ~HasHeader
       \/ /\ HasHeader /\ ~HasPayload
          /\ \/ state = "Idle" /\ id # ID_QUIT
             \/ state = "ReceivingFile" /\ id = ID_DATA
    /\ pc' = "ready"
    /\ UNCHANGED <<buffer, state, current_file, files, replies, faulty, script, unsent>>

Quit ==
    /\ Turn("Idle")
    /\ HasHeader /\ id = ID_QUIT
    /\ Drain(2)
    /\ pc' = "closed"
    /\ UNCHANGED <<state, current_file, files, replies, faulty>>

Serve(request) ==
    /\ Turn("Idle")
    /\ HasHeader /\ id = request /\ HasPayload
    /\ Drain(2 + length)
    /\ UNCHANGED pc

Stat ==
    /\ Serve(ID_STAT)
    /\ Answer(<<Reply("STAT", Metadata(files, path))>>)
    /\ UNCHANGED <<state, current_file, files, faulty>>

List ==
    /\ Serve(ID_LIST)
    /\ Answer(Append(Listing(files, path), DONE))
    /\ UNCHANGED <<state, current_file, files, faulty>>

(* File::create empties the file at once. *)
Send ==
    /\ Serve(ID_SEND)
    /\ path \in Paths \ Refused
    /\ files' = put(files, path, <<>>)
    /\ current_file' = path
    /\ state' = "ReceivingFile"
    /\ UNCHANGED <<replies, faulty>>

SendFails ==
    /\ Serve(ID_SEND)
    /\ path \notin Paths \ Refused
    /\ Answer(<<FAIL>>)
    /\ UNCHANGED <<state, current_file, files, faulty>>

Recv ==
    /\ Serve(ID_RECV)
    /\ path \in DOMAIN files
    /\ Answer(Append(Blocks(files[path]), DONE))
    /\ UNCHANGED <<state, current_file, files, faulty>>

(* The answer looks like that of an empty file. *)
RecvReadFails ==
    /\ Serve(ID_RECV)
    /\ path \in DOMAIN files
    /\ files[path] # <<>>
    /\ Answer(<<DONE>>)
    /\ faulty' = TRUE
    /\ UNCHANGED <<state, current_file, files>>

RecvFails ==
    /\ Serve(ID_RECV)
    /\ path \notin DOMAIN files
    /\ Answer(<<FAIL, DONE>>)
    /\ UNCHANGED <<state, current_file, files, faulty>>

(* DATA and DONE are among these when no file is being received. *)
Unknown ==
    /\ Turn("Idle")
    /\ HasHeader /\ id \notin {ID_QUIT, ID_STAT, ID_LIST, ID_SEND, ID_RECV}
    /\ HasPayload
    /\ Drain(2 + length)
    /\ UNCHANGED <<pc, state, current_file, files, replies, faulty>>

(* The time stamp is taken for the length of a payload. *)
Done_length_bug ==
    /\ Turn("ReceivingFile")
    /\ HasHeader /\ id = ID_DONE /\ HasPayload
    /\ Drain(2 + length)
    /\ current_file' = 0
    /\ state' = "Idle"
    /\ Answer(<<Reply("OKAY", <<>>)>>)
    /\ UNCHANGED <<pc, files, faulty>>

(* The length of a DONE is a time stamp: no payload follows. *)
Done ==
    /\ Turn("ReceivingFile")
    /\ HasHeader /\ id = ID_DONE
    /\ Drain(2)
    /\ current_file' = 0
    /\ state' = "Idle"
    /\ Answer(<<Reply("OKAY", <<>>)>>)
    /\ UNCHANGED <<pc, files, faulty>>

HasData == Turn("ReceivingFile") /\ HasHeader /\ id = ID_DATA /\ HasPayload

Receive(written) ==
    /\ files' = put(files, current_file, files[current_file] \o written)
    /\ Drain(2 + length)
    /\ UNCHANGED <<pc, state, current_file, replies>>

(* The header is written too. *)
Data_header_bug ==
    /\ HasData
    /\ Receive(SubSeq(buffer, 1, 2 + length))
    /\ UNCHANGED faulty

Data ==
    /\ HasData
    /\ Receive(SubSeq(buffer, 3, 2 + length))
    /\ UNCHANGED faulty

(* write_all got part of it out; the result is not looked at. *)
DataWriteFails ==
    /\ HasData
    /\ \E n \in 0 .. length - 1 : Receive(SubSeq(buffer, 3, 2 + n))
    /\ faulty' = TRUE

(* The file stays open for the words of the next request. *)
Unexpected_bug ==
    /\ Turn("ReceivingFile")
    /\ HasHeader /\ id \notin {ID_DONE, ID_DATA}
    /\ state' = "Idle"
    /\ pc' = "ready"
    /\ UNCHANGED <<buffer, current_file, files, replies, faulty>>

(* The push is over; the header is left for the next call.                 *)
Unexpected ==
    /\ Turn("ReceivingFile")
    /\ HasHeader /\ id \notin {ID_DONE, ID_DATA}
    /\ state' = "Idle"
    /\ current_file' = 0
    /\ pc' = "ready"
    /\ UNCHANGED <<buffer, files, replies, faulty>>

--------------------------------------------------------------------------------

Loop ==
    \/ Await \/ Quit \/ Stat \/ List \/ Send \/ SendFails
    \/ Recv \/ RecvReadFails \/ RecvFails \/ Unknown
    \/ Done \/ Data \/ DataWriteFails \/ Unexpected

Next ==
    \/ \E q \in Requests : ClientAsks(q)
    \/ \E n \in 1 .. Len(unsent) : handle_data(n)
    \/ Loop

Spec == Init /\ [][Next]_vars

--------------------------------------------------------------------------------
(* What the client asked for, request by request, with no words or cuts.   *)

Outcome(dir, q) ==
    CASE q.kind = "STAT" -> <<Reply("STAT", Metadata(dir, q.path))>>
      [] q.kind = "LIST" -> Append(Listing(dir, q.path), DONE)
      [] q.kind = "RECV" -> IF q.path \in DOMAIN dir
                            THEN Append(Blocks(dir[q.path]), DONE)
                            ELSE <<FAIL, DONE>>
      [] q.kind = "SEND" -> <<IF q.path \in Refused THEN FAIL ELSE Reply("OKAY", <<>>)>>
      [] OTHER           -> <<>>

Effect(dir, q) ==
    IF q.kind \in {"SEND", "HALF"} /\ q.path \notin Refused
    THEN put(dir, q.path, q.data)
    ELSE dir

Serving(before, q) ==
    [replies |-> before.replies \o Outcome(before.files, q),
     files   |-> Effect(before.files, q)]

(* The answers to the first n requests, and the directory after them. *)
Meant(n) ==
    FoldLeft(Serving, [replies |-> <<>>, files |-> [p \in {} |-> <<>>]],
             SubSeq(script, 1, n))

WordsOf(n) == Len(FlattenSeq([i \in 1 .. n |-> Words(script[i])]))

(* How many words the session has been given, and how many requests it has *)
(* all the words of.                                                       *)
received == WordsOf(Len(script)) - Len(unsent)

Delivered ==
    CHOOSE n \in 0 .. Len(script) :
        /\ WordsOf(n) <= received
        /\ n < Len(script) => WordsOf(n + 1) > received

(* A push that breaks off leaves the two out of step once all of the next  *)
(* request is there.  One that is refused and has a time stamp does so     *)
(* with the first word behind it, which is taken for a part of it.         *)
Refuses(i) == script[i].kind = "SEND" /\ script[i].path \in Refused

InStep ==
    \A i \in 1 .. Delivered :
        /\ script[i].kind = "HALF" => i = Delivered
        /\ Refuses(i) /\ script[i].time # 0 => received = WordsOf(i)

(* current_file is Some exactly while a file is being received. *)
SyncTypeOK ==
    /\ buffer \in Seq(Nat)
    /\ state \in {"Idle", "ReceivingFile"}
    /\ current_file \in DOMAIN files \cup {0}
    /\ current_file # 0 <=> state = "ReceivingFile"
    /\ pc \in {"ready", "loop", "closed"}
    /\ DOMAIN files \subseteq Paths \ Refused
    /\ \A p \in DOMAIN files : files[p] \in Seq(Nat)
    /\ faulty \in BOOLEAN
    /\ unsent \in Seq(Nat)

(* However the WRTEs cut the stream, and however many requests come at     *)
(* once: when handle_data returns, each request whose last word is there   *)
(* has been answered, in order and with what the requests before it left   *)
(* in the files, and nothing else was said; only the refusal of a push is  *)
(* not kept back until its end.  This holds up to the first push that is   *)
(* refused or breaks off, whatever the words of the files look like.       *)
AnswersAsAsked ==
    pc # "loop" /\ ~faulty /\ InStep =>
        \/ replies = Meant(Delivered).replies
        \/ /\ Delivered < Len(script)
           /\ Refuses(Delivered + 1)
           /\ replies = Meant(Delivered + 1).replies

(* The files hold what the acknowledged pushes sent: no word is lost,      *)
(* written twice or to another file, not even while a push is under way.   *)
FilesAsPushed ==
    pc # "loop" /\ ~faulty /\ InStep =>
        \A p \in Paths \ {current_file} :
            /\ p \in DOMAIN files <=> p \in DOMAIN Meant(Delivered).files
            /\ p \in DOMAIN files => files[p] = Meant(Delivered).files[p]

================================================================================
