--------------------------------- MODULE MCAdbd ---------------------------------
(* The daemon against an arbitrary peer, on a small instance. *)
EXTENDS Adbd, FiniteSets

Login   == [name |-> "shell,v2", raw |-> FALSE, cmd |-> FALSE]
Sync    == [name |-> "sync",     raw |-> FALSE, cmd |-> FALSE]
Other   == [name |-> "other",    raw |-> FALSE, cmd |-> FALSE]

(* A login shell, sync: and a service the daemon does not have.            *)
MCDests == {Login, Sync, Other}

(* Bounds: the peer speaks only when the handler is about to read, and     *)
(* after reading what it was sent, and asks for no third stream while two  *)
(* live.  What an arbitrary peer says does not depend on when it wrote it, *)
(* so this leaves out no step of the daemon; once the peer has gone, none  *)
(* at all, but for a turn of the loop before the last message is read.     *)
Bound ==
    inbox # <<>> =>
        /\ pc = "read" /\ outbox = <<>>
        /\ Head(inbox).cmd = "OPEN" => Cardinality(Live) <= 1

================================================================================
