----------------------------- MODULE MCAdbStreams -----------------------------
(* The promise of AdbStreams on its own, on a small instance. *)
EXTENDS AdbStreams

(* Bounds: messages the client has still to take, and to have heard. *)
Bound == Len(wire) <= 3 /\ Len(asks) <= 2

================================================================================
