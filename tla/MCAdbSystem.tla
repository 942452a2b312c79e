------------------------------ MODULE MCAdbSystem ------------------------------
(* The daemon and a client that follows the protocol, on small instances. *)
EXTENDS AdbSystem, FiniteSets

Shell   == [name |-> "shell",    raw |-> FALSE, cmd |-> FALSE]
Command == [name |-> "shell,v2", raw |-> TRUE,  cmd |-> TRUE]
Login   == [name |-> "shell,v2", raw |-> FALSE, cmd |-> FALSE]
Sync    == [name |-> "sync",     raw |-> FALSE, cmd |-> FALSE]
Other   == [name |-> "other",    raw |-> FALSE, cmd |-> FALSE]

(* Every service; two; a command with a stderr of its own; a login shell.  *)
AllDests    == {Shell, Command, Sync, Other}
FewDests    == {Login, Sync}
OnlyCommand == {Command}
OnlyLogin   == {Login}

================================================================================
