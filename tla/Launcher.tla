-------------------------------- MODULE Launcher --------------------------------
(***************************************************************************)
(* Starting the virtual machine: scripts/run.sh, and the stub.sh that      *)
(* package.sh puts in front of the image.  The script chooses a port,      *)
(* starts QEMU, which binds it when it gets there, probes the port, and    *)
(* says that it is ready; then it lives as long as QEMU does.              *)
(*                                                                         *)
(* Between any two steps other programs take and leave ports, QEMU stops,  *)
(* and somebody interrupts the script.                                     *)
(***************************************************************************)
EXTENDS Integers

CONSTANTS
    Ports,        \* TCP ports of the host
    MaxProbes,    \* how often the port is tried: 120
    Scripts       \* "run" and "stub"

ASSUME PortsAssumption == Ports \subseteq Nat \ {0}
ASSUME MaxProbesAssumption == MaxProbes \in Nat \ {0}
ASSUME ScriptsAssumption == Scripts \subseteq {"run", "stub"}

VARIABLES
    script,     \* which of the two runs
    pc,         \* where it is
    ADB_PORT,   \* the port asked for, 0 for any; then the one chosen
    probes,     \* turns of the loop that found nobody
    replied,    \* the port was written to the reply fd, and Ready was printed
    holder,     \* who listens on each port
    qemu,       \* the machine
    killed,     \* it was sent a SIGTERM
    served,     \* history: it has listened on its port
    stolen,     \* history: somebody else had the port before it
    abandoned   \* history: the script died without a word to QEMU

vars == <<script, pc, ADB_PORT, probes, replied, holder, qemu, killed,
          served, stolen, abandoned>>

machine == <<holder, qemu, killed, served>>

Running == qemu \in {"starting", "listening"}
Taken(p) == holder[p] # "nobody"

Init ==
    /\ script \in Scripts
    /\ pc = "pick"
    /\ ADB_PORT \in Ports \cup {0}
    /\ probes = 0
    /\ replied = FALSE
    /\ holder \in [Ports -> {"nobody", "other"}]
    /\ qemu = "none"
    /\ killed = FALSE
    /\ served = FALSE
    /\ stolen = FALSE
    /\ abandoned = FALSE

--------------------------------------------------------------------------------
(* Before the machine runs. *)

(* The kernel gives a port to a socket that is closed again at once; where *)
(* there is no python, ports are probed until one does not answer.  A port *)
(* that was asked for is not looked at.                                    *)
PickPort ==
    /\ pc = "pick"
    /\ ADB_PORT' \in IF ADB_PORT = 0 THEN {p \in Ports : ~Taken(p)} ELSE {ADB_PORT}
    /\ stolen' = Taken(ADB_PORT')
    /\ pc' = "start"
    /\ UNCHANGED <<script, probes, replied, machine, abandoned>>

NoFreePort ==
    /\ pc = "pick"
    /\ ADB_PORT = 0 /\ \A p \in Ports : Taken(p)
    /\ pc' = "exited"
    /\ UNCHANGED <<script, ADB_PORT, probes, replied, machine, stolen, abandoned>>

(* The payload of stub.sh is incomplete. *)
NoImage ==
    /\ pc = "start"
    /\ script = "stub"
    /\ pc' = "exited"
    /\ UNCHANGED <<script, ADB_PORT, probes, replied, machine, stolen, abandoned>>

StartQemu ==
    /\ pc = "start"
    /\ qemu' = "starting"
    /\ pc' = "probe"
    /\ UNCHANGED <<script, ADB_PORT, probes, replied, holder, killed, served,
                   stolen, abandoned>>

--------------------------------------------------------------------------------
(* The loop that waits for the port, and what comes after it. *)

Probe(next) ==
    /\ pc = "probe"
    /\ pc' = next
    /\ UNCHANGED <<script, ADB_PORT, probes, replied, stolen, abandoned>>

(* Somebody accepts the connection. *)
ProbeAnswered ==
    /\ Probe("reply")
    /\ probes < MaxProbes
    /\ Taken(ADB_PORT)
    /\ UNCHANGED machine

(* The loop has no end of its own. *)
ProbeRefused_bug ==
    /\ Probe("check")
    /\ ~Taken(ADB_PORT)
    /\ UNCHANGED machine

ProbeRefused ==
    /\ Probe("check")
    /\ probes < MaxProbes
    /\ ~Taken(ADB_PORT)
    /\ UNCHANGED machine

(* stub.sh does without _ready. *)
GiveUp_bug ==
    /\ Probe("reply")
    /\ probes = MaxProbes
    /\ UNCHANGED machine

(* The loop is over.  stub.sh kills QEMU and exits 1; run.sh goes on as if *)
(* the last probe had been answered.                                       *)
GiveUp ==
    /\ Probe(IF script = "run" THEN "reply" ELSE "exited")
    /\ probes = MaxProbes
    /\ killed' = (script = "stub")
    /\ UNCHANGED <<holder, qemu, served>>

(* kill -0, and half a second of sleep, which are not counted. *)
CheckAlive_bug ==
    /\ pc = "check"
    /\ pc' = IF Running THEN "probe" ELSE "exited"
    /\ UNCHANGED <<script, ADB_PORT, probes, replied, machine, stolen, abandoned>>

(* kill -0, and half a second of sleep. *)
CheckAlive ==
    /\ pc = "check"
    /\ pc' = IF Running THEN "probe" ELSE "exited"
    /\ probes' = IF Running THEN probes + 1 ELSE probes
    /\ UNCHANGED <<script, ADB_PORT, replied, machine, stolen, abandoned>>

Reply ==
    /\ pc = "reply"
    /\ replied' = TRUE
    /\ pc' = "ready"
    /\ UNCHANGED <<script, ADB_PORT, probes, machine, stolen, abandoned>>

(* Nobody reads the reply fd: echo fails, and set -e ends the script. *)
ReplyFails ==
    /\ pc = "reply"
    /\ pc' = "exited"
    /\ abandoned' = TRUE
    /\ UNCHANGED <<script, ADB_PORT, probes, replied, machine, stolen>>

(* trap ... INT TERM *)
SetTrap ==
    /\ pc = "ready"
    /\ pc' = "wait"
    /\ UNCHANGED <<script, ADB_PORT, probes, replied, machine, stolen, abandoned>>

(* wait is called again, whatever it said. *)
QemuOver_bug == pc = "wait" /\ ~Running /\ UNCHANGED vars

(* The end of the last loop, or of the wait of the signal handler. *)
QemuOver ==
    /\ pc \in {"wait", "stopping"}
    /\ ~Running
    /\ pc' = "exited"
    /\ UNCHANGED <<script, ADB_PORT, probes, replied, machine, stolen, abandoned>>

--------------------------------------------------------------------------------
(* INT and TERM. *)

(* Until the trap is set a signal just ends the script. *)
SignalEarly ==
    /\ pc \in {"pick", "start", "probe", "check", "reply", "ready"}
    /\ pc' = "exited"
    /\ abandoned' = (qemu # "none")
    /\ UNCHANGED <<script, ADB_PORT, probes, replied, machine, stolen>>

(* The handler exits at once. *)
Shutdown_bug ==
    /\ pc = "wait"
    /\ pc' = "exited"
    /\ UNCHANGED <<script, ADB_PORT, probes, replied, machine, stolen, abandoned>>

Shutdown ==
    /\ pc = "wait"
    /\ pc' = "stopping"
    /\ killed' = TRUE
    /\ UNCHANGED <<script, ADB_PORT, probes, replied, holder, qemu, served, stolen, abandoned>>

--------------------------------------------------------------------------------
(* QEMU, with hostfwd=tcp::ADB_PORT-:5555, and the rest of the host. *)

QemuListens ==
    /\ qemu = "starting"
    /\ ~Taken(ADB_PORT)
    /\ qemu' = "listening"
    /\ holder' = [holder EXCEPT ![ADB_PORT] = "qemu"]
    /\ served' = TRUE
    /\ UNCHANGED <<script, pc, ADB_PORT, probes, replied, killed, stolen, abandoned>>

(* It cannot have the port, it fails, it is killed, or the guest halts. *)
QemuStops ==
    /\ Running
    /\ qemu' = "dead"
    /\ holder' = [p \in Ports |-> IF holder[p] = "qemu" THEN "nobody" ELSE holder[p]]
    /\ UNCHANGED <<script, pc, ADB_PORT, probes, replied, killed, served, stolen, abandoned>>

OtherTakes(p) ==
    /\ ~Taken(p)
    /\ holder' = [holder EXCEPT ![p] = "other"]
    /\ stolen' = (stolen \/ (p = ADB_PORT /\ ~served))
    /\ UNCHANGED <<script, pc, ADB_PORT, probes, replied, qemu, killed, served, abandoned>>

OtherLeaves(p) ==
    /\ holder[p] = "other"
    /\ holder' = [holder EXCEPT ![p] = "nobody"]
    /\ UNCHANGED <<script, pc, ADB_PORT, probes, replied, qemu, killed, served, stolen, abandoned>>

--------------------------------------------------------------------------------

Runs ==
    \/ PickPort \/ NoFreePort \/ NoImage \/ StartQemu
    \/ ProbeAnswered \/ ProbeRefused \/ GiveUp \/ CheckAlive
    \/ Reply \/ ReplyFails \/ SetTrap \/ QemuOver

Next ==
    \/ Runs
    \/ SignalEarly \/ Shutdown
    \/ QemuListens \/ QemuStops
    \/ \E p \in Ports : OtherTakes(p) \/ OtherLeaves(p)

Spec == Init /\ [][Next]_vars

(* The script runs, and a QEMU that was sent a SIGTERM stops in the end.   *)
(* Nothing else is assumed: QEMU may never listen.                         *)
FairSpec == Spec /\ WF_vars(Runs) /\ WF_vars(killed /\ QemuStops)

--------------------------------------------------------------------------------

LauncherOK ==
    /\ script \in Scripts
    /\ pc \in {"pick", "start", "probe", "check", "reply", "ready", "wait",
               "stopping", "exited"}
    /\ ADB_PORT \in Ports \cup {0}
    /\ probes \in 0 .. MaxProbes
    /\ holder \in [Ports -> {"nobody", "other", "qemu"}]
    /\ qemu \in {"none", "starting", "listening", "dead"}
    /\ replied \in BOOLEAN /\ killed \in BOOLEAN
    /\ served \in BOOLEAN /\ stolen \in BOOLEAN /\ abandoned \in BOOLEAN

(* Ready is said of the machine that was started: QEMU has by then         *)
(* listened on the port that was replied.  It takes that nobody else had   *)
(* the port first (the port is free again before QEMU is even started),    *)
(* and for run.sh that it was not the probes that ran out.                 *)
ReadyIsOurs ==
    replied /\ ~stolen => served \/ (script = "run" /\ probes = MaxProbes)

(* No machine is left behind: when the script is gone QEMU is, or was told *)
(* to stop.  The two ways round it are a signal before the trap is set and *)
(* a reply that nobody takes.                                              *)
NoOrphan == pc = "exited" /\ ~abandoned => ~Running \/ killed

(* Whoever waits for the reply gets it or sees the script end, even if     *)
(* QEMU neither listens nor stops.                                         *)
Answers == qemu = "starting" ~> replied \/ pc = "exited"

(* After Ready the script lives no longer than its machine, and a signal   *)
(* ends both.                                                              *)
EndsTogether ==
    /\ pc = "wait" /\ qemu = "dead" ~> pc = "exited"
    /\ pc = "stopping" ~> pc = "exited" /\ qemu = "dead"

================================================================================
