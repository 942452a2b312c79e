------------------------------ MODULE MCShellProcs ------------------------------
(* Two connections and two sessions in one process, on a small instance. *)
EXTENDS ShellProcs, TLC

(* Connections, sessions and pids are told apart by nothing but their names. *)
Names == Permutations(Conns) \cup Permutations(Sess) \cup Permutations(Pids)

================================================================================
