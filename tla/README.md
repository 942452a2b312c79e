# A TLA+ model of mock-adbd

mock-adbd is a small Android Debug Bridge daemon (`guest-adbd/`, Rust) that runs
in a QEMU guest, with the shell scripts that build the guest and start it
(`scripts/`). An adb server connects over TCP and opens streams: shells
(`shell:`, `shell,v2:`) and file transfers (`sync:`). These modules model the
daemon, check it with TLC and prove part of it with TLAPS.

Paths below are relative to the repository root.

## 1. The system

| component | where | state | operations |
|---|---|---|---|
| listener | `main.rs` `main` | the process: descriptors, pids | accept, one detached thread per connection |
| connection handler | `main.rs` `handle_connection` | `connected`, a `SessionManager`, the socket | read one message, handle it, poll every shell; until an error |
| service selection | `main.rs` `parse_service` | none | destination of an OPEN to shell v1, shell v2, sync or other |
| session manager | `session.rs` `SessionManager` | two maps by local id, `next_local_id` | alloc, insert, get, remove, clear |
| shell session | `session.rs` `ShellSession` | descriptors, pid, `finished` | spawn, read stdout/stderr, write stdin, `try_wait`, cleanup on drop |
| file sync service | `sync.rs` `SyncSession` | `buffer`, `state`, `current_file` | `handle_data`: STAT, LIST, SEND/DATA/DONE, RECV, QUIT |
| wire protocol | `protocol.rs` | none | message layout, header check |
| shell v2 framing | `shell_v2.rs` | none | frames inside the WRTEs of a shell v2 stream |
| launchers | `scripts/run.sh`, `scripts/stub.sh` | the chosen port, QEMU's pid | find a port, start QEMU, probe, reply, wait, shut down |
| build, packaging, CI, tests | `scripts/`, `.github/`, `tests/` | none | straight-line scripts |

**How they interact.** The handler is one thread. Each turn of its loop reads at
most one message (waiting 10 ms for its first byte, then at most 5 s for the
rest), handles it, and then visits every shell session once: one read of stdout,
one of stderr where there is such a pipe, one `waitpid(WNOHANG)`. Everything the
handler sends is a blocking `write_all`. The shells run on their own, and meet
the handler only in pipes (or a pty) and in their exit status. A sync session is
called synchronously with the data of a WRTE and returns its answer. Connections
share no data, only the process: pids, descriptors that forked shells inherit,
the file system.

**What is hard here.** Shells write and exit between any two steps of the poll.
Streams are found by the daemon's own id, which starts over with every CNXN
while messages of the old streams are in flight; the peer's id is never compared.
The poll iterates over a copy of the ids while it removes sessions. Both sides
may close a stream at once. A send may fail in the middle of a handler or of a
poll. The client's bytes are cut anywhere, by the WRTEs and by TCP, and may stop
in the middle of a message. A shell's stdin may be full. Threads open and close
descriptors, fork and wait at the same time, and the kernel hands numbers out again
at once. QEMU may fail, or find its port taken, while a script probes it.
`PROJECT.json` lists these hazards with the line each one bites at.

**What makes each part correct.**

- *Handler and session manager*: nothing happens before the handshake; a local
  id that is given out is not in use; the poll only visits live sessions; a
  reaped child is reported once and its session dropped; a peer that hangs up
  leaves nothing behind.
- *Handler and a conforming client*: each OPEN is answered by exactly one OKAY
  or CLSE and each WRTE by exactly one OKAY, in the order they were sent; output, exit
  and CLSE of a stream come in this order, under its ids and with nothing but
  acknowledgements behind them; no message reaches another
  stream; no stream is gone without a CLSE on its way; every exit is reported; the
  daemon stays as long as the client does, silent or not.
- *Sync session*: requests are answered in order and files hold what was pushed,
  however the bytes are cut.
- *Transport*: a message is read whole or the connection ends; the handler never
  loses its place in the stream.
- *Shell input*: a shell is given what was typed, in order and once, as far as it
  takes it; a client that has gone leaves no shell behind.
- *Processes and descriptors*: a number that a thread still uses is what it was made
  for; nothing leaks; an exit status goes to its own session; no shell is left that
  was not told to stop; no thread waits for a shell; no two shells of a connection keep
  each other's input open.
- *Launchers*: Ready is said of the machine that was started; whoever waits for the
  reply gets it or sees the script end; no QEMU is left behind.

## 2. Modules

| module | models | |
|---|---|---|
| `AdbProtocol` | `protocol.rs`, `parse_service` | messages and destinations |
| `Adbd` | `handle_connection`, `SessionManager`, `ShellSession` | one connection, its shells, and a peer that may send anything |
| `AdbStreams` | the same code, seen from outside | the abstract specification: what each message of the client is answered with, and what may be on the wire in which order |
| `AdbSystem` | `Adbd` with a conforming client | composition; `ImplementsStreams` is the refinement of `AdbStreams` |
| `SyncSession` | `sync.rs` | one sync session, its files, a client and its WRTEs |
| `Transport` | `read_exact`, `read_message`, `read_adb_message_nonblocking`, `parse_header` | the bytes of one connection, and how they become messages |
| `ShellInput` | the A_WRTE arm, `shell_v2.rs`, `write_stdin` | extends `Transport` with one shell session, its stdin and a client that types |
| `ShellProcs` | `ShellSession::new`, `try_wait`, `cleanup`, `main` | the process: its threads' descriptors, pids and shells, system call by system call |
| `Launcher` | `run.sh`, `stub.sh` | a script, QEMU, the ports of the host |
| `AdbdProofs`, `AdbStreamsProofs`, `AdbSystemProofs`, `ShellProcsProofs`, `LauncherProofs`, `ShellInputProofs`, `SyncSessionProofs` | | theorems about these modules |
| `SequenceLemmas` | | lemmas about sequences of words, for the last two |
| `MC*` | | instances for TLC |

Definitions that end in `_bug` are plausible mistakes. No specification uses
them; each property of a passing run fails when one of them takes the place of
the definition after it, which `PROJECT.json` lists under `mutants`.

### Adbd

State follows the code. `sessions` and `sync_sessions` are the two `HashMap`s as
partial functions, `next_local_id` the counter, `connected` the flag. `kids` has,
for each session, whether its process is alive and how much unread output its
stdout and stderr hold. `inbox` and `outbox` are the two directions of the TCP
stream, `peer` says the peer has not closed its socket. `wrapped` is a history
variable: the counter has passed its last value since the last `clear`.

`pc` is the place in the loop body:

| `pc` | place | actions from there |
|---|---|---|
| `read` | `read_adb_message_nonblocking` and the match | `HandleCnxn`, `OpenShell`, `OpenShellFails`, `OpenSync`, `OpenOther`, `HandleWrte`, `HandleClse`, `HandleOther`, `ReadNothing`, `ReadFails` |
| `cnxn` | after the banner was sent | `FinishCnxn` |
| `wrte` | after the WRTE was acknowledged | `ApplySync`, `ApplySyncQuit`, `ApplyShell` |
| `unsync` | after the CLSE that answers a QUIT | `FinishSyncQuit` |
| `begin` | the copy of the live ids | `BeginPoll` |
| `poll` | between two visits | `PollStdout`, `EndPoll` |
| `stderr`, `wait` | inside a visit | `PollStderr`; `PollAlive`, `PollExited` |
| `close` | after output, exit and CLSE were sent | `PollClose` |
| `done` | the function returned | |

A `send_message` appends to `sendq`; the handler takes its next step only when
`sendq` is empty (`At`), so the peer and the shells move while it blocks. `Send`
moves one message to the wire when there is room, `SendFails` is the `?` of a
send to a closed socket (the poll's last CLSE is sent with `let _ =`, and so it
alone does not end the connection). Iterating a `HashMap`'s keys is the choice of
any id not visited yet.

Abstractions: lengths, checksums and magic numbers are left out, and a message that
fails `parse_header` or is never completed is one `BAD` message. Output is counted in
units up to `PipeCap`. `ApplySync` answers with any number of chunks up to
`MaxChunks`, or quits: `SyncSession` says which. What a shell does with its input is
the shell's own (its input changes no variable here). `DropShell` takes session and
process away in one step: the code removes the session from the map before it sends
the CLSE (`main.rs:300`), which is all the handler can see, and runs `cleanup` when
the value is dropped behind the send; that, and the shells that outlive it, is
`ShellProcs`. `next_local_id` is a `u32` that wraps, as in the release build; a debug
build would panic there. A process that has left its session is not followed any more.

### AdbSystem and AdbStreams

`AdbSystem` puts a conforming client (the adb server; not in this repository,
modelled from what the code expects of it) in the place of the arbitrary peer: it
waits for the banner, uses stream ids once, writes only to streams whose OKAY it
has seen, answers a CLSE with its own, and may send a second CNXN, close streams
or hang up at any point.

`AdbStreams` has no handler, no table and no process: `up` (the client is there), for
each stream a phase (`idle`, `asked`, `v1`, `v2`, `sync`, `answering`, `closed`) and its
local id, and the two directions of the connection: `asks`, what the client has said
and the daemon has not heard, and `wire`, what the client has still to take. The client
may connect, ask for a stream once, and say what it likes of a stream whose OPEN was
answered; each of its messages is heard in turn (`Hears`) and has one answer, or none if
it is an OKAY or the CLSE of a closed stream (`Ignore`). A sync stream whose WRTE was
acknowledged is `answering`, and nothing else is heard before it has answered. The
daemon speaks unasked only to give a shell's output or to end it.

In the refinement mapping `asks` is `inbox` reduced to command and stream (`AskOf`), a
stream is `asked` while its OPEN is in `inbox`; live while a session has its remote id,
except while the CLSE or the banner that ends it is being sent; a sync stream is
`answering` between the OKAY of a WRTE and what `handle_data` returned (`Owed`); and
`wire` is `outbox`, `sendq` and `wrtes` in a row: what a visit of the poll has read is
already promised. When the client has hung up, all is over at once (`Down`): nobody
sees what the handler still does.

### SyncSession

The byte stream is a sequence of words: id, length, path and piece of a file are
a word each, so a header can be cut in the middle. One WRTE carries any number of
unsent words into `handle_data`; the loop inside it is one action per turn.
`File::create` empties the file at once and may be refused (`Refused`); a write of
pushed data and a read of a pulled file may fail part-way, which sets the history
variable `faulty`. Requests may be sent without waiting for answers, and a push may
break off before its DONE. `Meant` is the reference: the answers and files of a
list of requests taken one by one, with neither words nor cuts (a `FoldLeft`).
The words of a file are any numbers, ids of the protocol among them. `InStep` says up
to where a script is promised anything: a push that breaks off must be the last request
that is there, and behind a push that is refused there must be no word at all, unless
its time stamp is 0: its DONE is then skipped as a request without a payload.
Files are one block (64 KiB in the code) long; there is one directory, which LIST may
ask for, as it may for a file, of which nothing is listed.

### Transport and ShellInput

`Adbd` takes a message as one step; here it is taken apart. In `Transport` the client
writes words, TCP delivers them in pieces, and `pc` is where the handler is: `peek`,
in the `header` or the `data` of a message, in its handling, or `done`. A header is
two words, so it can be cut. `ReadTimesOut` may happen whenever a read waits, for
what was written may be late; `ClientFallsSilent` drops what is on its way, without
closing the connection. `ClientHangsUp` with unread words is a FIN or a reset:
`EndOfStream` may come before they are read.

`ShellInput` extends it with the A_WRTE arm for one shell session: the acknowledgement,
the loop over the frames of the WRTE (`todo` is `msg.data` behind `offset`), and
`write_all` to a descriptor that does not block. The shell reads and exits at any
point. `script` is what the client means, as frames; `Meant` is the reference for
what that gives the shell. History variables state exactly when a property holds:
`whole` (each WRTE carried whole frames), `lost` (a write to stdin has failed), `fed`
(what was written), `handled` (how much of the script handled WRTEs carried).
Stdout and stderr are left to `Adbd`; frames with ids that only the daemon sends are
read and ignored like CloseStdin.

### ShellProcs

`fdt` is the descriptor table of the daemon: each number stands for an end of a
session's pty or pipes, a socket, or nothing. `ours` and `theirs` are the fields and
locals that hold numbers; `phase` is how far `new`, a live session or `cleanup` has
got, one system call at a time, and `closing` the numbers about to be closed. `procs`
are the pids: alive, zombie or free, whose shell, and which ends they hold, copied at
`fork` as nothing is closed on exec but sockets. A number closed is given out again,
the lowest first, to whichever thread comes next. One thread works on one session at
a time (`Busy`); threads are not synchronised.

Two history variables mark where the code no longer knows what it holds. `blind`: a
`pipe` call has failed and was not looked at, so a session has the number 0. `stale`:
a pid was given again by which a session in `cleanup` still goes. The properties
about descriptors hold until the first, `ExitIsOurs` until the second, and
`NoneForgotten` without either.

### Launcher

`script` is `run` or `stub`; they share every step but `NoImage` and what they do
when the probes run out (`GiveUp`). QEMU is started at once and binds the port later,
if it can. `served` (QEMU has listened), `stolen` (another program had the port
first) and `abandoned` (the script died before its trap was set) are history.
`QemuListens` stands for QEMU's own listener, which accepts before the guest has
booted: that a probe is answered says that QEMU listens, not that adbd does.

## 3. Runs

| run | bounds | shows |
|---|---|---|
| `daemon` | any peer; four local ids (0 to 3), at most two in use; a login shell, sync and an unknown service; one message each way; one unit of output | `TypeOK`, `HandshakeGate`, `IdsFresh`, `PollSnapshotLive`, `FinishedOnlyWhileClosing`, `HangupEnds` |
| `system` | conforming client; two streams, two CNXNs, two messages in flight to the daemon; a login shell and sync | `SysTypeOK`, `NoCrossTalk`, `IdsTellApart`, `OpenOrTold`, `StaysConnected`, `ImplementsStreams` |
| `refine_services` | conforming client; two streams over all four services, one CNXN | `ImplementsStreams` |
| `progress` | two streams, two CNXNs, login shells, with fairness | `OpenAnswered`, `ExitDropped`, `CloseHonoured` |
| `streams` | `AdbStreams` alone, two streams, at most three messages on the wire and two unheard | `ClseIsLast`, `ExitThenClse`, `Answerable` |
| `sync` | three requests on two paths, one of them refused; an empty file and one whose two words look like a request to list; time stamps 0, 5 (which ends inside the push that follows) and 99 (longer than all that follows) | `SyncTypeOK`, `AnswersAsAsked`, `FilesAsPushed` |
| `input` | two frames of every kind a client sends, with a key of one word and one of two; WRTEs of 0 to 6 words; a stdin that holds two; a v2 login shell and a v1 shell | `InputOK`, `AtMessageStart`, `InputAsTyped`, `NothingInvented`, `MessageEnds`, `InputEnds` |
| `procs` | two connections, two sessions of all four kinds, two pids, nine descriptors | `ProcsOK`, `FdsOwned`, `NoneLeaked`, `ExitIsOurs`, `NoCircle`, `NoneForgotten`, `NeverWaits` |
| `launcher` | both scripts, 120 probes as in the code, two ports or any | `LauncherOK`, `ReadyIsOurs`, `NoOrphan`, `Answers`, `EndsTogether` |
| `output_lost` | one command | `OutputComplete` is violated |
| `frames` | as `input`, a login shell with room in its stdin | `FramesOfTheStream` is violated |
| `stdin_eof` | as `procs` | `EofOnClose` is violated |

Why the bounds are enough. Four local ids let the counter wrap after three opens, so
that an id is given out while it is in use, and hold two live ids before it does; two
sessions at once let one be removed while the other is still to visit. In `daemon` the
peer speaks only when the handler is about to read and after it has read what it was
sent (`Bound` in `MCAdbd`): an arbitrary peer says the same things whenever it writes
them, so no step of the daemon is left out, but an OPEN while two streams live; and
once it has closed its socket the bound cuts off nothing but an idle turn of the loop
before the last message is read, so `HangupEnds` loses nothing by it. Two streams and
two CNXNs give an old stream's id to a new one while the old stream's WRTE or CLSE is
in flight, which needs the two messages of `InCap`; more streams repeat this. In
`streams` three messages on the wire are an exit, its CLSE and one behind it, and two
unheard ones are a CNXN and an OPEN, in either order (`Bound` in `MCAdbStreams`). One
unit of output and one message of wire room are enough for the handler to block in
every send and for a pipe to be empty, full, or filled again after it was read.
`PipeCap` 1 does not tell "one read of 8192 bytes took a part" from "written after the
read": both leave something unread at the exit. Three requests are a push, a pull of
what it left, and one more in front, between or behind. Two frames are one and what
stands behind it, in the same WRTE or the next; a key of two words and a stdin of two
let a write be whole, torn by a full pipe, or refused. In `procs`, a session on pipes
with its stderr apart needs six numbers and 0 and the two sockets take three: the
second session runs out of numbers at each of its calls, in every order with the
closes of the first; two pids are used up as soon as one shell is not waited for. In
`launcher` two ports are the chosen one and another.

What the runs show of the code, beyond properties that hold:

- **Output can be lost.** `try_wait` is asked after the one read of stdout and
  stderr. A command that writes in between and exits, or that leaves more than one
  read, loses that output with its session, after an orderly exit frame and CLSE.
  `tests/integration_test.sh:90` takes the output for granted.
- **Frames are not of the stream.** `main.rs:235` looks for frames in each WRTE by
  itself. A frame that is cut in two is dropped, and its second half is read as a
  frame, though `shell_v2.rs:3` has them multiplexed over the stream. In the trace of
  `frames` the frame 0, 1, 7 (a key) is cut behind its id; both WRTEs are acknowledged
  and handled, and the shell is given nothing. With whole frames `InputAsTyped` holds.
- **A shell's input may not end with its session.** The comment at `main.rs:250` says
  of CloseStdin "the process will get EOF when we close". `fork` copies every
  descriptor: in the trace of `stdin_eof` another connection starts a shell while the
  session lives, `cleanup` closes the daemon's end and sends a SIGTERM, which an
  interactive shell ignores, and the second shell still holds the pty of the first.
  What the copies cannot do, within one connection, is make two shells wait for each
  other (`NoCircle`): the thread finishes one OPEN before it reads the next, so what is
  inherited goes from the earlier shell to the later. Two connections whose `new` run at
  once can: each may fork between the other's `pipe` and the `close` of it.
- The comment at `main.rs:310` has the client's OKAY allow the next WRTE; the code
  logs the OKAY and sends whenever there is output. `AdbStreams` therefore promises
  order and not a window, and has `Ignore` for the client's OKAY.
- An acknowledged WRTE may have gone to no stream at all; with a conforming client
  its CLSE is then on its way (`OpenOrTold`). Or it may have found stdin full: the
  rest of that write is lost (`lost`), in order and without repetition.
- After a refused push a sync session is out of step: the DONE of that push is read
  as a request whose length is a time stamp, and what comes behind it as the payload.
  How many words that takes is the time stamp's, so the session may find a request in
  the middle of a later file and answer it. `AnswersAsAsked` promises nothing from the
  first word behind such a push on (`InStep`), because the code does not. A time stamp
  of 0 does no harm.
- The two `pipe` calls of `ShellSession::new` are not looked at (`blind`); a session
  that fails to start leaves its descriptors open (the exception in `NoneLeaked`); a
  shell that outlives `cleanup`'s one `waitpid` stays a zombie, which is what
  `NeverWaits` costs; and `cleanup` signals a pid that `try_wait` may already have
  given back (`stale`).
- `run.sh` replies after 120 failed probes, where `stub.sh` kills QEMU and fails. The
  port chosen for `-p 0` is free again before QEMU is started, though the comment at
  `stub.sh:100` says "no TOCTOU"; `ReadyIsOurs` is about neither. A signal before the
  trap is set, and a reply that nobody reads, leave QEMU running (`abandoned`).

## 4. Fairness

`Adbd.FairSpec` and `AdbSystem.FairSysSpec` assume only what the thread and TCP give.
The handler is one running thread: its own steps are weakly fair. A read may find
nothing for 10 ms again and again before the bytes arrive, which disables the reading
of a message each time, so *reading a message* is strongly fair: TCP delivers what was
sent, or reports the end. Sends go on when there is room. Shells need not write, exit
or do anything. In `daemon` nothing is assumed of the peer. In `progress` the client
goes on reading (`WF(ClientReceives)`): a peer that stops reading blocks the handler
in `send_message`, which has no timeout, and nothing can be promised then.

`ShellInput.FairSpec` assumes only that the handler runs and that a read which waits
ends, by a word or by its timeout; nothing of the client, the network or the shell.
`Launcher.FairSpec` assumes that the script runs and that a QEMU that was sent a
SIGTERM stops in the end; QEMU may never listen. `ShellProcs` states no fairness: a
shell may ignore its signal for ever, and that no thread waits for it is the safety
property `NeverWaits`.

Deadlock is checked in all runs but `streams`, `sync`, `input`, `frames`, `procs`,
`stdin_eof` and `launcher`: there a client may go or stop, every session may be over,
and a script ends. In the others a handler that has returned is the explicit
`Terminated`.

## 5. Proofs

`AdbdProofs` proves for every value of the constants (any number of remote ids,
local ids, destinations and any capacities), for the daemon against an arbitrary
peer:

| theorem | states |
|---|---|
| `TypeCorrect` | `Spec => []TypeOK` |
| `HandshakeGated` | `Spec => []HandshakeGate` |
| `FreshIds` | `Spec => []IdsFresh` |
| `SnapshotIsLive` | `Spec => []PollSnapshotLive` |
| `ExitCodeOnce` | `Spec => []FinishedOnlyWhileClosing` |

The assumptions are those of the modules: remote ids are naturals, there are at
least two local ids, destinations have the parsed form, capacities are naturals and
the wire holds at least one message.

All five follow from one inductive invariant, `IInv`. The properties alone are not
inductive: `IdsFresh` needs `CounterStarted` (the counter is past 0 until it wraps,
or the next id would be 0 and count as below itself), `PollSnapshotLive` needs
`PollIdle` (outside the poll the copy of the ids is empty; else a CLSE handled in
between would leave a dead id in it), and `FinishedOnlyWhileClosing` needs
`PollSnapshotLive` (the session marked is the one being visited). `TypeOK` is
proved first, one lemma per group of actions (`ReadStepType`, `FinishStepType`,
`PollStepType`, `SendStepType`, `KidsStepType`, `PeerStepType`), over lemmas on the
helpers (`AllocNext`, `OpenType`, `ClearType`, `PushType`, ...); then one lemma per
further conjunct (`HandshakeStep`, `IdsStep`, `SnapshotStep`, `FinishedStep`), and
`Invariance` puts them together. The arithmetic that matters is the `%` of
`alloc_next`, isolated in `AllocNext`.

`AdbStreamsProofs` proves what a client may rely on, for any number of streams, any
ids and sync answers of any length (assuming no stream has the id 0):

| theorem | states |
|---|---|
| `CloseIsFinal` | `Spec => []ClseIsLast` |
| `ExitIsFollowed` | `Spec => []ExitThenClse` |
| `NothingUnanswerable` | `Spec => []Answerable` |

The inductive invariant is `SInv`: the types, the three properties, `LidsDistinct`
(live streams have distinct ids) and `ClseCloses` (a stream whose CLSE is on the wire
is closed), without which a step could not exclude that it speaks behind a CLSE.
`Answerable` is what makes `Hears` total: an OPEN that was not heard is the only one
of its stream, and the stream is still `asked`, even when a CNXN that was heard in
between has closed the others; so no OPEN of the client can find the stream in a phase
in which `Accept` and `Refuse` would answer it twice. `QuietConcat`, `ExitsConcat` and
`TailKeeps` say how the two properties of the wire carry over to a concatenation and a
tail; `SayKeeps` turns them into the obligation of a step that says something.

`AdbSystemProofs` proves `ClientIsAPeer`, `SysSpec => Spec`: with any conforming
client the daemon does only what it does with an arbitrary peer, so the five theorems
about `Adbd` hold in `AdbSystem` too. The step needs that the client's `loc` holds
local ids, which it has from the daemon's messages; so the types of both sides are
proved together (`SystemInvariance`, `SystemTypeCorrect`).

Its second part proves what else the run `system` checks:

| theorem | states |
|---|---|
| `ClientIsKept` | `SysSpec => []StaysConnected` |
| `CrossTalkFree` | `SmallIds` implies `SysSpec => []NoCrossTalk` |
| `NoIdTwice` | `SmallIds` implies `SysSpec => []IdsTellApart` |
| `NoStreamLost` | `SmallIds` implies `SysSpec => []OpenOrTold` |

`ClientIsKept` has no assumption but those of the modules. The handler returns when it
reads a malformed message, when a send fails or when the stream has ended; what is to be
shown is that no message in flight is of the first kind (`WellFormed`), which each
message the client can send keeps.

`SmallIds` says that the client's stream ids stay below the last local id. The client
takes its ids in ascending order and uses each once, so the daemon's counter then
never wraps between two clears; with `u32` ids it excludes one value. The invariant
`CrossInv` has a witness: `own[r]`, the id the daemon gave stream `r` since the last
clear, or 0. None of the three properties speaks of it, and none is inductive without
it, because a local id means something only together with all that is in flight.
`Ids(own)` says that the tables hold each session under the id of its stream,
`Words(own)` that every message in flight, both ways, names a stream and its id,
`Told(own)` that a stream the client counts on is live or its CLSE is in flight. The
hard case is the second CNXN, which clears the tables and starts the ids over: `Turns`
says why nothing of the old ids is left then. A client that has sent a CNXN says
nothing more until the banner, so the CNXN is the last message in the inbox and all
before it has been read; the banner is the last message in the outbox, so all that was
said before it has been taken when the client goes on. Between banner and clear (`pc =
"cnxn"`) the client may already have sent OPENs, which the daemon has not read. One
lemma per action says that it keeps the invariant, with the same `own` or, for
`OpenShell`, `OpenSync` and `FinishCnxn`, another.

Its third part proves `StreamsImplemented`: `SmallIds` implies
`SysSpec => ImplementsStreams`, the refinement that `system` and `refine_services` check
on small instances. `Phase`, `Lid`, `Queue` and `Wire` are the refinement mapping of
`AdbSystem`. One lemma per action of `AdbStreams` (`AsAccept`, `AsExit`, ...) says what a
step has to do to the four to be that action; one per way of speaking (`SaysWire`,
`PushWire`, `FlushWire`, `SendWire`, `TakeWire`) what it does to the wire, and one per way
of listening (`ReadHears`, `SentAsks`, `NothingHeard`) what it does to the questions; and
one per action of the daemon or the client (`...Refines`) puts them together. `Alike` says
which steps leave a stream undisturbed. That a stream has at most one session, and an id
that no other has, comes from `CrossInv` (`Mine`, `Owned`); it is also why a message that
is heard is about the session that answers it, though the daemon looks at the id alone.
Three facts come on top, `RInv`: nothing a poll has queued is left when the handler speaks
for itself, or the answer would overtake output; stderr is read for v2 sessions only; and
before the first banner nothing has been asked for and nothing said (`Unconnected`),
because the daemon reads such an OPEN and drops it without an answer. An action of the
handler that spans several sends is several steps of the promise: the acknowledgement of
a WRTE (`Ack`) and the answer of the sync session (`SyncAnswer`, `SyncQuit`) are apart,
since shells and client move between them.

`OnTheWire` collects what the refinement is worth: `AdbStreamsProofs`, instantiated with
the same mapping (`Promise`), says of the daemon's tables and wire what it proves of
AdbStreams. Under `SmallIds`, `ClseIsLast`, `ExitThenClse`, `LidsDistinct` and
`Answerable` hold on what a conforming client reads, in every behaviour of `SysSpec`.

`ShellProcsProofs` proves, for any number of connections, sessions, pids and
descriptors (assuming that the highest number is a natural and that "none" is no pid and
no connection):

| theorem | states |
|---|---|
| `ProcsTypes` | `Spec => []ProcsOK` |
| `DescriptorsAreOwned` | `Spec => []FdsOwned` |
| `DescriptorsDoNotLeak` | `Spec => []NoneLeaked` |
| `ExitStatusIsOurs` | `Spec => []ExitIsOurs` |
| `NoShellForgotten` | `Spec => []NoneForgotten` |
| `NoCircleOfShells` | `Spec => []NoCircle` |

Four invariants, one on top of the other. `TInv` is the types and `Shape`: which
numbers a session has in which phase. `PInv` adds what concerns processes: `Minded` (a
shell that runs untold has a session that will still signal it) and `OnePid` (no two
sessions go by one pid, until one was given again). `FInv` adds, while no `pipe` call
has failed unseen, `Sound`: for each session its numbers stand for its own ends, each
for the right one and no two alike, and it knows all of its ends that are open
(`Owns`, `Apart`, `Keeps`); each connection has its socket; each process holds none of
its own session's daemon ends (`Apt`). The properties alone are not inductive:
`FdsOwned` says that a number is the session's, but a `close` keeps it only if no
other variable has the same number (`Apart`), and `Apt` needs at the `fork` that
`ours` names all the daemon's ends there are (`Keeps`). `RowOf` says what a row of
numbers to close consists of, `NewEnds` and `Untouched` what a system call leaves
alone; every action is then one step per conjunct it can disturb.

`CInv` adds what `NoCircle` rests on. `Apiece`, two shells that feed each other are of
two connections, is not inductive: at the `fork` the new shell may copy ends of every
session there is, and it must be known that no shell of its connection has any of its
own yet. That is `Later`: while a session is being made, no shell of its connection
holds an end of it, and before that nobody does, because ends are copied only by `fork`,
a thread that is in the middle of one session forks no other (`Single`), and what holds
ends is the shell of a session that was made (`Placed`). That no shell feeds itself is `Apt`.

`LauncherProofs` proves `LauncherTypes`, `ReadyIsTrue` and `NoMachineLeft` (`LauncherOK`,
`ReadyIsOurs`, `NoOrphan`) for any ports and any number of probes. `IInv` adds when
QEMU has been started, that a port which somebody answers for is QEMU's or was stolen
(`Answering`), what had to happen before a reply (`Replying`) and that the handler of a
signal has told QEMU (`Told`).

`ShellInputProofs` proves, for scripts of any length, keys of any words, and any size of
a message, of the pipe and of what the stream holds:

| theorem | states |
|---|---|
| `InputTypes` | `Spec => []InputOK` |
| `AlwaysAtMessageStart` | `Spec => []AtMessageStart` |
| `TypedIsGiven` | `Spec => []InputAsTyped` |
| `NothingElseGiven` | `Spec => []NothingInvented` |

`IInv` has four parts. `TypeInv` adds to the types what the buffer holds at each `pc`
and that `pending` is the end of what the client says. `PlaceInv` has a witness: a
function `off` that maps every place in `buf \o stream` where a message starts to how
many words of the script lie before it. What starts there is a header, its data are the
words that come next in the script, and behind them is the next such place
(`InPlace`). `ReadSome` only moves words from one sequence to the other, which leaves
`off` as it is; a message that is written adds a place (`InPlaceMore`), one that was
handled takes the first away (`InPlaceNext`). Behind a bad header nothing is promised,
because the handler never gets there. `TodoInv` says that the rest of a WRTE are the
words behind the `Taken` ones. `GivenInv` says that the shell was given, with what
`write_stdin` still holds, what the first `k` frames mean, where the `k`-th frame ends at
`Taken`; and that it is found in order in what they mean even when a write has failed.
`AtFrame` is where it all meets: with whole frames in each WRTE, the words that the
handler parses are those of the `k + 1`-st frame, to the last one, so `parse` neither
fails nor finds another frame.

What a script means and how it looks on the wire are folds over sequences (`FoldLeft`,
`FlattenSeq`). The first lemmas, and `SequenceLemmas`, show by induction over the naturals
(a set of naturals without a least counterexample, from the library's `WFMin`) that they
take the frames one by one (`MeantOneMore`, `FlatOneMore`); nothing after these expands a
fold. `SequenceLemmas` also says what joining, cutting and moving words does
(`Joined`, `CutType`, `Drained`, `Carried`); the proofs cite it instead of `SubSeq`.

`SyncSessionProofs` proves, for any paths, contents, time stamps and number of requests:

| theorem | states |
|---|---|
| `SyncTypeCorrect` | `Spec => []SyncTypeOK` |
| `AnswersCorrect` | `Spec => []AnswersAsAsked` |
| `FilesCorrect` | `Spec => []FilesAsPushed` |

The two properties count what has been received (`Delivered`); what the parser does next
depends on what lies in its buffer. The inductive invariant, `IInv`, is therefore about the
latter: `buffer \o unsent` is always the end of the script's words, from one of four places
on (`At`). `Between(k)`: `k` requests are done with, and answers and files are as meant.
`PushStarted(k)` and `PushWritten(k)`: the next one is a push whose file is open, and empty
or written. `Refusing(k)`: it was refused, and its words are skipped as requests. Each
place says how much the buffer can hold when `handle_data` has returned. A WRTE moves
words and keeps the place; a request that is added comes last (`LaterAppend`); each turn
of the loop consumes exactly the next part of the words (`Consumed`), because ids tell the
kinds apart (`KindById`) and lengths are those of the parts (`AtRequest`, `AtData`,
`AtEnd`), so `Done` cannot come before its file is written, nor a request be read inside
one. Two ways out are part of the invariant: a file has failed (`faulty`), or there are
words behind a refused push that has a time stamp (`Astray`). The second is needed as soon
as such a DONE is skipped: that its "payload" is there means that there are such words, and
then `InStep` is false for good. What the places mean for `Delivered` is the last part
(`BetweenDelivered` and so on): the number of requests whose last word is in front of the
place, but for a push that has no DONE, which is there when it is written, and only ends
when the next header is. `InStep` had been too weak before the proof: it asked only that
no whole request lie behind a refused push. TLC then refuted `AnswersAsAsked` with a time
stamp that ends inside the next push, and a file there that looks like a request.

Only model-checked: the liveness properties and `NeverWaits` (temporal fairness and
ENABLED are outside what the prover does).
Every other property of a run has its theorem.

## 6. Not modelled, and why

- Image build, packaging and CI: straight-line scripts, no state of their own.
- The layout of messages and the checksum, which the daemon writes and never reads.
- The files' mode and time stamps, and the abort of the process when a file is older
  than 1970 (`sync.rs:76`): one `unwrap`, without steps to check.
- Output that a shell's descendants write after the shell's exit.
- What a client's end of file does: the handler's socket has no half-closed state.
- How long a client may be silent between two messages: for ever (`main.rs:445`); that the
  daemon stays is `StaysConnected`.
- That adbd listens in the guest once QEMU listens outside it.

## 7. Plan

Done, in this order: `AdbProtocol`, `Adbd`, `AdbStreams`, `AdbSystem` and the proofs
about them (the handler that everything else hangs on came first), `SyncSession`,
`Transport`, `ShellInput` and its proofs, `ShellProcs` and its proofs, `Launcher` and
its proofs, the proofs about `SyncSession`.

Not done:

1. `Adbd` with the reading of `Transport` in the place of its one-step messages, as a
   refinement: `BAD` is a header that is refused, a read that ends, or a timeout.
