-------- MODULE LauncherProofs --------
(* What holds of the launchers with any ports and any number of probes. *)
EXTENDS Launcher, TLAPS

(* Only a script that has started QEMU has one, and by then it has a port. *)
Started ==
    /\ pc \in {"pick", "start"} => qemu = "none"
    /\ pc \notin {"pick", "exited"} \/ Running => ADB_PORT \in Ports

(* Who answers on the port: QEMU has been there, or somebody was before it. *)
Answering ==
    /\ qemu = "listening" \/ (\E p \in Ports : holder[p] = "qemu") => served
    /\ pc \in {"start", "probe", "check"} /\ Taken(ADB_PORT) => stolen \/ served

(* The reply is given for the reasons ReadyIsOurs names. *)
Replying ==
    pc = "reply" \/ replied => stolen \/ served \/ (script = "run" /\ probes = MaxProbes)

(* And probes stands still from there on. *)
LoopOver ==
    /\ replied => pc \notin {"pick", "start", "probe", "check", "reply"}
    /\ pc = "check" => probes < MaxProbes

Told == pc = "stopping" => killed

IInv == LauncherOK /\ Started /\ Answering /\ Replying /\ LoopOver /\ Told /\ NoOrphan

USE MaxProbesAssumption

LEMMA InitIInv == Init => IInv
<1> SUFFICES ASSUME Init PROVE IInv
  OBVIOUS
<1>1. LauncherOK
  <2>a. probes \in 0 .. MaxProbes
    BY MaxProbesAssumption DEF Init
  <2>b. holder \in [Ports -> {"nobody", "other", "qemu"}]
    BY DEF Init
  <2>. QED BY <2>a, <2>b DEF Init, LauncherOK
<1>2. Started /\ Answering
  BY DEF Init, Started, Answering, Running
<1>3. Replying /\ LoopOver /\ Told /\ NoOrphan
  BY DEF Init, Replying, LoopOver, Told, NoOrphan
<1>. QED BY <1>1, <1>2, <1>3 DEF IInv

(* The steps of the script. *)
LEMMA RunsIInv == IInv /\ Runs => IInv'
<1> SUFFICES ASSUME IInv, Runs PROVE IInv'
  OBVIOUS
<1> USE DEF IInv, LauncherOK, Started, Answering, Replying, LoopOver, Told, NoOrphan,
            Running, Taken, machine
<1>1. CASE PickPort
  BY <1>1 DEF PickPort
<1>2. CASE NoFreePort
  BY <1>2 DEF NoFreePort
<1>3. CASE NoImage
  BY <1>3 DEF NoImage
<1>4. CASE StartQemu
  BY <1>4 DEF StartQemu
<1>5. CASE ProbeAnswered
  BY <1>5 DEF ProbeAnswered, Probe
<1>6. CASE ProbeRefused
  BY <1>6 DEF ProbeRefused, Probe
<1>7. CASE GiveUp
  <2>a. killed' \in BOOLEAN /\ (script # "run" => script = "stub" /\ killed')
    BY <1>7, ScriptsAssumption DEF GiveUp
  <2>b. LauncherOK'
    BY <1>7, <2>a DEF GiveUp, Probe
  <2>. QED BY <1>7, <2>a, <2>b DEF GiveUp, Probe
<1>8. CASE CheckAlive
  <2>a. CASE Running
    <3>1. probes' \in 0 .. MaxProbes /\ pc' = "probe"
      BY <1>8, <2>a DEF CheckAlive
    <3>. QED BY <1>8, <2>a, <3>1 DEF CheckAlive
  <2>b. CASE ~Running
    BY <1>8, <2>b DEF CheckAlive
  <2>. QED BY <2>a, <2>b
<1>9. CASE Reply
  BY <1>9 DEF Reply
<1>10. CASE ReplyFails
  BY <1>10 DEF ReplyFails
<1>11. CASE SetTrap
  BY <1>11 DEF SetTrap
<1>12. CASE QemuOver
  BY <1>12 DEF QemuOver
<1>. QED BY <1>1, <1>2, <1>3, <1>4, <1>5, <1>6, <1>7, <1>8, <1>9, <1>10, <1>11, <1>12
         DEF Runs

(* Signals, QEMU and the rest of the host. *)
LEMMA OutsideIInv ==
    IInv /\ (SignalEarly \/ Shutdown \/ QemuListens \/ QemuStops
                \/ \E p \in Ports : OtherTakes(p) \/ OtherLeaves(p)) => IInv'
<1> SUFFICES ASSUME IInv,
                    SignalEarly \/ Shutdown \/ QemuListens \/ QemuStops
                        \/ \E p \in Ports : OtherTakes(p) \/ OtherLeaves(p)
             PROVE IInv'
  OBVIOUS
<1> USE DEF IInv, LauncherOK, Started, Answering, Replying, LoopOver, Told, NoOrphan,
            Running, Taken, machine
<1>1. CASE SignalEarly
  BY <1>1 DEF SignalEarly
<1>2. CASE Shutdown
  BY <1>2 DEF Shutdown
<1>3. CASE QemuListens
  BY <1>3 DEF QemuListens
<1>4. CASE QemuStops
  BY <1>4 DEF QemuStops
<1>5. CASE \E p \in Ports : OtherTakes(p)
  <2>a. PICK p \in Ports : OtherTakes(p)
    BY <1>5
  <2>b. holder' \in [Ports -> {"nobody", "other", "qemu"}]
    BY <2>a DEF OtherTakes
  <2>c. stolen' \in BOOLEAN /\ (stolen => stolen') /\ (p = ADB_PORT => stolen' \/ served)
    BY <2>a DEF OtherTakes
  <2>d. LauncherOK'
    BY <2>a, <2>b, <2>c DEF OtherTakes
  <2>e. Answering'
    BY <2>a, <2>c DEF OtherTakes
  <2>f. (Started /\ LoopOver /\ Told /\ NoOrphan)'
    BY <2>a DEF OtherTakes
  <2>g. Replying'
    BY <2>a, <2>c DEF OtherTakes
  <2>. QED BY <2>d, <2>e, <2>f, <2>g
<1>6. CASE \E p \in Ports : OtherLeaves(p)
  BY <1>6 DEF OtherLeaves
<1>. QED BY <1>1, <1>2, <1>3, <1>4, <1>5, <1>6

LEMMA Invariance == Spec => []IInv
<1>1. IInv /\ [Next]_vars => IInv'
  <2>a. CASE UNCHANGED vars
    BY <2>a DEF vars, machine, IInv, LauncherOK, Started, Answering, Replying, LoopOver,
                Told, NoOrphan, Running, Taken
  <2>. QED BY <2>a, RunsIInv, OutsideIInv DEF Next
<1>. QED BY <1>1, InitIInv, PTL DEF Spec

(* The launchers' variables have their types, and the port is probed no    *)
(* more often than the loop says.                                          *)
THEOREM LauncherTypes == Spec => []LauncherOK
BY Invariance, PTL DEF IInv

(* Ready is said of the machine that was started, unless the port was not  *)
(* its own from the start or run.sh ran out of probes.                     *)
THEOREM ReadyIsTrue == Spec => []ReadyIsOurs
<1>1. IInv => ReadyIsOurs
  BY DEF IInv, Replying, ReadyIsOurs
<1>. QED BY <1>1, Invariance, PTL

(* A script that has exited has left no machine that was not told to stop, *)
(* but for a signal before the trap and a reply that nobody took.          *)
THEOREM NoMachineLeft == Spec => []NoOrphan
BY Invariance, PTL DEF IInv

================================
