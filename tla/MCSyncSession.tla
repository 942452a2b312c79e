---------------------------- MODULE MCSyncSession ----------------------------
(* One file sync session on a small instance. *)
EXTENDS SyncSession

(* An empty file, and one whose words look like the request to list. *)
MCContents == {<<>>, <<ID_LIST, 0>>}

================================================================================
