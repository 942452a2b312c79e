------------------------------ MODULE AdbProtocol ------------------------------
(***************************************************************************)
(* The messages of the ADB wire protocol and the reading of an OPEN        *)
(* destination: guest-adbd/src/protocol.rs and parse_service in main.rs.   *)
(*                                                                         *)
(* A message is a record of its command, its two arguments and the class   *)
(* of its payload.  The integers that carry lengths, checksums and magic   *)
(* numbers are left out: a message whose header does not pass              *)
(* AdbMessage::parse_header, or whose bytes stop arriving, is the single   *)
(* message BadMessage.                                                     *)
(***************************************************************************)
EXTENDS Integers, Sequences

CONSTANTS
    RemoteIds,   \* the stream ids the peer chooses (its own side of a stream)
    IdSpace,     \* how many values a local id has: 2^32 for the code's u32
    Dests,       \* the OPEN destinations the peer uses
    None         \* no destination, no message, no stream

(***************************************************************************)
(* A destination is a service name, whether the arguments of "shell,v2,"   *)
(* name "raw", and whether a command follows the colon.                    *)
(***************************************************************************)
DestSyntax == [name : {"shell", "shell,v2", "sync", "other"},
               raw  : BOOLEAN,
               cmd  : BOOLEAN]

ASSUME RemoteIdsAssumption == RemoteIds \subseteq Nat
ASSUME IdSpaceAssumption == IdSpace \in Nat /\ IdSpace > 1
ASSUME DestsAssumption == Dests \subseteq DestSyntax

LocalIds == 0 .. (IdSpace - 1)

Payloads == {"none", "banner", "raw", "stdout", "stderr", "exit", "sync"}

(* What the daemon sends.  arg0 is the daemon's id of the stream, arg1 the *)
(* peer's; for CNXN they hold a version and a size, both written 0 here.   *)
DaemonMsg == [cmd  : {"CNXN", "OKAY", "CLSE", "WRTE"},
              arg0 : LocalIds,
              arg1 : RemoteIds \cup {0},
              data : Payloads]

cnxn == [cmd |-> "CNXN", arg0 |-> 0, arg1 |-> 0, data |-> "banner"]

okay(local_id, remote_id) ==
    [cmd |-> "OKAY", arg0 |-> local_id, arg1 |-> remote_id, data |-> "none"]

clse(local_id, remote_id) ==
    [cmd |-> "CLSE", arg0 |-> local_id, arg1 |-> remote_id, data |-> "none"]

wrte(local_id, remote_id, payload) ==
    [cmd |-> "WRTE", arg0 |-> local_id, arg1 |-> remote_id, data |-> payload]

(* What the peer sends: here arg0 is the peer's id and arg1 the daemon's.  *)
PeerMsg == [cmd  : {"CNXN", "OPEN", "OKAY", "CLSE", "WRTE", "BAD"},
            arg0 : RemoteIds \cup {0},
            arg1 : LocalIds,
            dest : Dests \cup {None}]

PeerCnxn == [cmd |-> "CNXN", arg0 |-> 0, arg1 |-> 0, dest |-> None]
PeerOpen(r, d) == [cmd |-> "OPEN", arg0 |-> r, arg1 |-> 0, dest |-> d]
PeerStream(c, r, l) == [cmd |-> c, arg0 |-> r, arg1 |-> l, dest |-> None]
BadMessage == [cmd |-> "BAD", arg0 |-> 0, arg1 |-> 0, dest |-> None]

(***************************************************************************)
(* parse_service: only "shell,v2" with "raw" among its arguments gives up  *)
(* the pty.  A "shell,v2," without a colon is read by the code exactly     *)
(* like "shell,v2:", so both are the destination with neither raw nor cmd. *)
(***************************************************************************)
parse_service(d) ==
    [kind    |-> CASE d.name = "sync"     -> "Sync"
                   [] d.name = "shell"    -> "ShellV1"
                   [] d.name = "shell,v2" -> "ShellV2"
                   [] d.name = "other"    -> "Other",
     command |-> d.cmd,
     use_pty |-> d.name = "shell,v2" => ~d.raw]

================================================================================
