-------------------------------- MODULE Transport --------------------------------
(***************************************************************************)
(* How a connection's handler gets its messages out of the TCP stream:     *)
(* read_adb_message_nonblocking, read_message and read_exact of guest-adbd/ *)
(* src/main.rs with AdbMessage::parse_header of protocol.rs.               *)
(*                                                                         *)
(* A word is one unit of the stream.  A header is two of them, a first one *)
(* that is well-formed or not and the data_length, so that the network can *)
(* cut it; the data is data_length words.  TCP delivers the words in order *)
(* and in pieces of any size, or late, or not at all.                      *)
(***************************************************************************)
EXTENDS Integers, Sequences

CONSTANT MaxPayload   \* MAX_PAYLOAD, in words

ASSUME MaxPayloadAssumption == MaxPayload \in Nat

(* The first word of a header: magic is the complement of command, or not. *)
HEADER == 2001
GARBLED == 2002

VARIABLES
    peer,      \* the client's end: open, closed, or silent for good
    stream,    \* words the client has written and the handler has not read
    buf,       \* words read of the message under way
    pc         \* where the handler is

net == <<peer, stream, buf>>

(* The two reads of read_message. *)
Reading == {"header", "data"}

TransportInit ==
    /\ peer = "open"
    /\ stream = <<>>
    /\ buf = <<>>
    /\ pc = "peek"

Message(first, data) == <<first, Len(data)>> \o data

(* What the client writes while its end is open. *)
Written(words) ==
    /\ peer = "open"
    /\ pc # "done"
    /\ stream' = stream \o words
    /\ UNCHANGED <<peer, buf, pc>>

ClientHangsUp ==
    /\ peer = "open"
    /\ pc # "done"
    /\ peer' = "closed"
    /\ UNCHANGED <<stream, buf, pc>>

(* The client stops, or the network does, and nobody says that this is the *)
(* end: of what was written only n words more arrive.  (To lose none of it *)
(* is a client that just does nothing.)                                    *)
ClientFallsSilent(n) ==
    /\ peer = "open"
    /\ pc # "done"
    /\ n \in 0 .. Len(stream) - 1
    /\ peer' = "silent"
    /\ stream' = SubSeq(stream, 1, n)
    /\ UNCHANGED <<buf, pc>>

--------------------------------------------------------------------------------
(* The peek finds a byte: the read timeout goes from 10 ms to 5 s and the  *)
(* message is read.  A peek that finds none in 10 ms changes nothing.      *)
PeekData ==
    /\ pc = "peek"
    /\ stream # <<>>
    /\ pc' = "header"
    /\ UNCHANGED net

data_length == buf[2]

(* How many words the read_exact under way waits for. *)
Wanted == IF pc = "header" THEN 2 - Len(buf) ELSE 2 + data_length - Len(buf)

(* A read into a buffer of its own size: it may get a part of the next     *)
(* message too.                                                            *)
ReadSome_bug(n) ==
    /\ pc \in Reading /\ Wanted > 0
    /\ n \in 1 .. Len(stream)
    /\ buf' = buf \o SubSeq(stream, 1, n)
    /\ stream' = SubSeq(stream, n + 1, Len(stream))
    /\ UNCHANGED <<peer, pc>>

(* One read of read_exact: what has arrived, and no more than is wanted.   *)
ReadSome(n) ==
    /\ pc \in Reading
    /\ n \in 1 .. Len(stream)
    /\ n <= Wanted
    /\ buf' = buf \o SubSeq(stream, 1, n)
    /\ stream' = SubSeq(stream, n + 1, Len(stream))
    /\ UNCHANGED <<peer, pc>>

HasHeader == pc = "header" /\ Wanted = 0

(* The handler goes on with a message that is complete. *)
HeaderOnly ==
    /\ HasHeader
    /\ buf[1] = HEADER /\ data_length = 0
    /\ pc' = "handle"
    /\ UNCHANGED net

HeaderThenData ==
    /\ HasHeader
    /\ buf[1] = HEADER /\ data_length \in 1 .. MaxPayload
    /\ pc' = "data"
    /\ UNCHANGED net

HasData ==
    /\ pc = "data" /\ Wanted = 0
    /\ pc' = "handle"
    /\ UNCHANGED net

--------------------------------------------------------------------------------
(* Any error of the read ends the connection, at whatever word it came.    *)

Stop ==
    /\ pc' = "done"
    /\ stream' = <<>>
    /\ buf' = <<>>
    /\ UNCHANGED peer

(* The message has been dealt with, and is dropped. *)
NextMessage ==
    /\ pc' = "peek"
    /\ buf' = <<>>
    /\ UNCHANGED <<peer, stream>>

(* parse_header fails: invalid magic, or a data_length over MAX_PAYLOAD.   *)
HeaderInvalid ==
    /\ HasHeader
    /\ buf[1] # HEADER \/ data_length > MaxPayload
    /\ Stop

(* A peek of no bytes is taken for "nothing yet". *)
EndOfStream_bug ==
    /\ peer = "closed"
    /\ pc \in Reading /\ Wanted > 0
    /\ Stop

(* read or peek returns 0; or the client's end is reset, and what was not  *)
(* read yet is lost with it.                                               *)
EndOfStream ==
    /\ peer = "closed"
    /\ pc = "peek" \/ (pc \in Reading /\ Wanted > 0)
    /\ Stop

(* Five seconds without a byte are taken for "nothing yet". *)
ReadTimesOut_bug ==
    /\ pc \in Reading /\ Wanted > 0
    /\ NextMessage

(* Five seconds without a byte in the middle of a message.                 *)
(* The client may well have written more, which has not arrived.           *)
ReadTimesOut ==
    /\ pc \in Reading /\ Wanted > 0
    /\ Stop

(* No read timeout once the first byte is there. *)
Receive_bug ==
    \/ PeekData
    \/ \E n \in 1 .. Len(stream) : ReadSome(n)
    \/ HeaderOnly \/ HeaderThenData \/ HasData
    \/ HeaderInvalid \/ EndOfStream

Receive ==
    \/ PeekData
    \/ \E n \in 1 .. Len(stream) : ReadSome(n)
    \/ HeaderOnly \/ HeaderThenData \/ HasData
    \/ HeaderInvalid \/ EndOfStream \/ ReadTimesOut

--------------------------------------------------------------------------------

TransportOK ==
    /\ peer \in {"open", "closed", "silent"}
    /\ stream \in Seq(Nat)
    /\ buf \in Seq(Nat)
    /\ pc = "data" => Len(buf) \in 2 .. 2 + data_length

================================================================================
