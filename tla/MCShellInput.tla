------------------------------ MODULE MCShellInput ------------------------------
(* A client's input on its way to one shell, on a small instance. *)
EXTENDS ShellInput

Session(v2, pty) == [v2 |-> v2, pty |-> pty]

(* A login shell, with a window, and a v1 shell; or the login shell alone. *)
MCModes == {Session(TRUE, TRUE), Session(FALSE, TRUE)}
OnlyLogin == {Session(TRUE, TRUE)}

(* A key, and two that a write may tear. *)
MCKeys == {<<7>>, <<5, 6>>}

================================================================================
