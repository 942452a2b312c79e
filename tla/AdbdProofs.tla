-------- MODULE AdbdProofs --------
(***************************************************************************)
(* Proofs about Adbd: its type invariant and its safety properties hold    *)
(* for any peer, any ids, any destinations and any capacities.             *)
(***************************************************************************)
EXTENDS Adbd, SequenceTheorems, TLAPS

(* The ids the protocol modules are parameterised by.                      *)
LEMMA ZeroOne == 0 \in LocalIds /\ 1 \in LocalIds
  BY IdSpaceAssumption DEF LocalIds

(* Adding one to an id gives an id, and the next one unless it wraps.      *)
LEMMA AllocNext ==
  ASSUME NEW n \in LocalIds
  PROVE  /\ alloc_next(n) \in LocalIds
         /\ alloc_next(n) # 0 => alloc_next(n) = n + 1
  <1>1. n \in Nat /\ n + 1 \in 1 .. IdSpace /\ IdSpace \in Nat \ {0}
    BY IdSpaceAssumption DEF LocalIds
  <1>2. CASE n + 1 = IdSpace
    BY <1>1, <1>2 DEF alloc_next, LocalIds
  <1>3. CASE n + 1 < IdSpace
    BY <1>1, <1>3 DEF alloc_next, LocalIds
  <1>4. QED
    BY <1>1, <1>2, <1>3

(* The messages the daemon makes, and those of any peer.                   *)
LEMMA CnxnType == cnxn \in DaemonMsg
  BY ZeroOne DEF cnxn, DaemonMsg, Payloads

LEMMA AnswerType ==
  ASSUME NEW l \in LocalIds, NEW r \in RemoteIds \cup {0}
  PROVE  okay(l, r) \in DaemonMsg /\ clse(l, r) \in DaemonMsg
  BY DEF okay, clse, DaemonMsg, Payloads

LEMMA WrteType ==
  ASSUME NEW l \in LocalIds, NEW r \in RemoteIds \cup {0}, NEW p \in Payloads
  PROVE  wrte(l, r, p) \in DaemonMsg
  BY DEF wrte, DaemonMsg

LEMMA AnyMessageType == AnyMessage \subseteq PeerMsg
  BY ZeroOne DEF AnyMessage, PeerMsg, PeerCnxn, BadMessage, PeerOpen, PeerStream

--------------------------------
(* The types, action by action. *)

LEMMA InitType == Init => TypeOK
  <1> SUFFICES ASSUME Init PROVE TypeOK
    OBVIOUS
  <1>1. EmptyMap \in [{} -> Session] /\ EmptyMap \in [{} -> Kid]
          /\ EmptyMap \in [{} -> RemoteIds \cup {0}] /\ DOMAIN EmptyMap = {}
    BY DEF EmptyMap
  <1>2. TablesOK
    BY <1>1, ZeroOne DEF Init, TablesOK, active_ids
  <1>3. ControlOK
    BY ZeroOne DEF Init, ControlOK, Pcs
  <1>4. QueuesOK
    BY DEF Init, QueuesOK
  <1> QED
    BY <1>2, <1>3, <1>4 DEF TypeOK

(* What clear leaves is well typed; Return leaves nothing else.            *)
LEMMA ClearType ==
  ASSUME clear
  PROVE  /\ active_ids' = {} /\ (DOMAIN sync_sessions)' = {}
         /\ (sessions \in [active_ids -> Session])'
         /\ (sync_sessions \in [DOMAIN sync_sessions -> RemoteIds \cup {0}])'
         /\ (kids \in [active_ids -> Kid])'
         /\ next_local_id' \in LocalIds
         /\ wrapped' = FALSE
  BY ZeroOne DEF clear, EmptyMap, active_ids

LEMMA ReturnType ==
  ASSUME TypeOK, Return
  PROVE  TypeOK'
  <1>1. TablesOK'
    BY ClearType DEF Return, TablesOK
  <1>2. ControlOK'
    BY ZeroOne, ClearType DEF Return, TypeOK, ControlOK, Pcs
  <1>3. QueuesOK'
    BY DEF Return, TypeOK, QueuesOK
  <1> QED
    BY <1>1, <1>2, <1>3 DEF TypeOK

(* The message a read finds.                                               *)
LEMMA ReadType ==
  ASSUME TypeOK, NEW c, Read(c)
  PROVE  /\ Head(inbox) \in PeerMsg
         /\ inbox' \in Seq(PeerMsg)
         /\ Head(inbox).arg0 \in RemoteIds \cup {0}
         /\ Head(inbox).arg1 \in LocalIds
         /\ sendq = <<>>
  <1>1. inbox \in Seq(PeerMsg) /\ inbox # <<>> /\ inbox' = Tail(inbox)
    BY DEF TypeOK, QueuesOK, Read
  <1>2. Head(inbox) \in PeerMsg /\ inbox' \in Seq(PeerMsg)
    BY <1>1
  <1> QED
    BY <1>2 DEF PeerMsg, Read, At

LEMMA OpenType ==
  ASSUME TypeOK, NEW kinds, OpenAs(kinds)
  PROVE  ControlOK' <=> wrapped' \in BOOLEAN
  BY ZeroOne DEF TypeOK, ControlOK, OpenAs, poll, Pcs

LEMMA AllocType ==
  ASSUME TypeOK, alloc_local_id
  PROVE  next_local_id' \in LocalIds /\ wrapped' \in BOOLEAN
  BY AllocNext DEF TypeOK, TablesOK, ControlOK, alloc_local_id

LEMMA ReadStepType ==
  ASSUME TypeOK, ReadMessage \/ ReadNothing
  PROVE  TypeOK'
  <1>1. CASE HandleCnxn
    <2>a. TablesOK'
      BY <1>1 DEF HandleCnxn, TypeOK, TablesOK, tables, active_ids
    <2>b. ControlOK'
      BY <1>1 DEF HandleCnxn, TypeOK, ControlOK, tables, poll, Pcs
    <2>c. QueuesOK'
      BY <1>1, ReadType, CnxnType
         DEF HandleCnxn, TypeOK, QueuesOK, poll
    <2> QED
      BY <2>a, <2>b, <2>c DEF TypeOK
  <1>2. CASE OpenShell
    <2> DEFINE service == parse_service(Head(inbox).dest)
               remote  == Head(inbox).arg0
               v2      == service.kind = "ShellV2"
               session == [remote |-> remote, v2 |-> v2,
                           err |-> v2 /\ service.command, finished |-> FALSE]
               kid     == [alive |-> TRUE, out |-> 0, err |-> 0]
    <2>a. OpenAs({"ShellV1", "ShellV2"}) /\ Read("OPEN")
      BY <1>2 DEF OpenShell, OpenAs
    <2>b. /\ sessions' = insert(sessions, next_local_id, session)
          /\ kids' = insert(kids, next_local_id, kid)
      BY <1>2 DEF OpenShell
    <2>c. session \in Session /\ kid \in Kid
      <3>1. v2 \in BOOLEAN /\ (v2 /\ service.command) \in BOOLEAN
        OBVIOUS
      <3>2. remote \in RemoteIds \cup {0}
        BY <2>a, ReadType
      <3> HIDE DEF remote, v2
      <3> QED
        BY <3>1, <3>2, PipeCapAssumption DEF Session, Kid
    <2>d. TablesOK'
      <3> HIDE DEF session, kid
      <3>1. /\ sessions' \in [active_ids \cup {next_local_id} -> Session]
            /\ kids' \in [active_ids \cup {next_local_id} -> Kid]
            /\ active_ids' = active_ids \cup {next_local_id}
        BY <2>b, <2>c DEF insert, TypeOK, TablesOK, active_ids
      <3> QED
        BY <1>2, <3>1, AllocType DEF OpenShell, TypeOK, TablesOK
    <2>e. ControlOK'
      BY <1>2, <2>a, OpenType, AllocType DEF OpenShell
    <2>f. QueuesOK'
      BY <1>2, <2>a, ReadType, AnswerType
         DEF OpenShell, OpenAs, TypeOK, TablesOK, QueuesOK, poll
    <2> QED
      BY <2>d, <2>e, <2>f DEF TypeOK
  <1>3. CASE OpenShellFails
    <2>a. OpenAs({"ShellV1", "ShellV2"}) /\ Read("OPEN")
      BY <1>3 DEF OpenShellFails, OpenAs
    <2>b. TablesOK'
      BY <1>3, AllocType DEF OpenShellFails, TypeOK, TablesOK, active_ids
    <2>c. ControlOK'
      BY <1>3, <2>a, OpenType, AllocType DEF OpenShellFails
    <2>d. QueuesOK'
      BY <1>3, <2>a, ReadType, AnswerType, ZeroOne
         DEF OpenShellFails, OpenAs, TypeOK, TablesOK, QueuesOK, poll
    <2> QED
      BY <2>b, <2>c, <2>d DEF TypeOK
  <1>4. CASE OpenSync
    <2>a. OpenAs({"Sync"}) /\ Read("OPEN")
      BY <1>4 DEF OpenSync, OpenAs
    <2>b. TablesOK'
      <3>1. /\ sync_sessions' \in [DOMAIN sync_sessions \cup {next_local_id}
                                   -> RemoteIds \cup {0}]
            /\ (DOMAIN sync_sessions)' = DOMAIN sync_sessions \cup {next_local_id}
        <4>1. Head(inbox).arg0 \in RemoteIds \cup {0}
          BY <2>a, ReadType
        <4>2. sync_sessions' = insert(sync_sessions, next_local_id, Head(inbox).arg0)
          BY <1>4 DEF OpenSync
        <4>3. sync_sessions \in [DOMAIN sync_sessions -> RemoteIds \cup {0}]
          BY DEF TypeOK, TablesOK
        <4> QED
          BY <4>1, <4>2, <4>3 DEF insert
      <3> QED
        BY <1>4, <3>1, AllocType DEF OpenSync, TypeOK, TablesOK, active_ids
    <2>c. ControlOK'
      BY <1>4, <2>a, OpenType, AllocType DEF OpenSync
    <2>d. QueuesOK'
      BY <1>4, <2>a, ReadType, AnswerType
         DEF OpenSync, OpenAs, TypeOK, TablesOK, QueuesOK, poll
    <2> QED
      BY <2>b, <2>c, <2>d DEF TypeOK
  <1>5. CASE OpenOther
    <2>a. OpenAs({"Other"}) /\ Read("OPEN")
      BY <1>5 DEF OpenOther, OpenAs
    <2>b. TablesOK'
      BY <1>5 DEF OpenOther, TypeOK, TablesOK, tables, active_ids
    <2>c. ControlOK'
      BY <1>5, <2>a, OpenType DEF OpenOther, tables, TypeOK, ControlOK
    <2>d. QueuesOK'
      BY <1>5, <2>a, ReadType, AnswerType, ZeroOne
         DEF OpenOther, OpenAs, TypeOK, TablesOK, QueuesOK, poll
    <2> QED
      BY <2>b, <2>c, <2>d DEF TypeOK
  <1>6. CASE HandleWrte
    <2>a. TablesOK'
      BY <1>6 DEF HandleWrte, TypeOK, TablesOK, tables, active_ids
    <2>b. ControlOK'
      BY <1>6, ReadType DEF HandleWrte, TypeOK, ControlOK, tables, poll, Pcs
    <2>c. QueuesOK'
      BY <1>6, ReadType, AnswerType
         DEF HandleWrte, TypeOK, QueuesOK, poll
    <2> QED
      BY <2>a, <2>b, <2>c DEF TypeOK
  <1>7. CASE HandleClse
    <2> DEFINE l == Head(inbox).arg1
    <2>a. Read("CLSE") /\ l \in LocalIds
      BY <1>7, ReadType DEF HandleClse
    <2>b. ControlOK'
      BY <1>7 DEF HandleClse, TypeOK, ControlOK, poll, Pcs
    <2>c. CASE l \in active_ids
      <3>1. /\ sendq' = <<clse(l, sessions[l].remote)>>
            /\ sessions' = remove(sessions, l)
            /\ kids' = remove(kids, l)
            /\ UNCHANGED <<sync_sessions, next_local_id, wrtes, outbox>>
        BY <1>7, <2>c DEF HandleClse, DropShell, DropSync, DropNothing, Forget, poll
      <3>2. TablesOK'
        BY <3>1 DEF TypeOK, TablesOK, active_ids, remove
      <3>3. sessions[l].remote \in RemoteIds \cup {0}
        BY <2>c DEF TypeOK, TablesOK, Session
      <3>4. QueuesOK'
        BY <2>a, <3>1, <3>3, ReadType, AnswerType DEF TypeOK, QueuesOK
      <3> QED
        BY <2>b, <3>2, <3>4 DEF TypeOK
    <2>d. CASE l \in DOMAIN sync_sessions \ active_ids
      <3>1. /\ sendq' = <<clse(l, sync_sessions[l])>>
            /\ sync_sessions' = remove(sync_sessions, l)
            /\ UNCHANGED <<sessions, kids, next_local_id, wrtes, outbox>>
        BY <1>7, <2>d DEF HandleClse, DropShell, DropSync, DropNothing, Forget, poll
      <3>2. TablesOK'
        BY <3>1 DEF TypeOK, TablesOK, active_ids, remove
      <3>3. sync_sessions[l] \in RemoteIds \cup {0}
        BY <2>d DEF TypeOK, TablesOK
      <3>4. QueuesOK'
        BY <2>a, <3>1, <3>3, ReadType, AnswerType DEF TypeOK, QueuesOK
      <3> QED
        BY <2>b, <3>2, <3>4 DEF TypeOK
    <2>e. CASE l \notin active_ids \cup DOMAIN sync_sessions
      <3>1. UNCHANGED <<sessions, sync_sessions, kids, sendq, next_local_id, wrtes, outbox>>
        BY <1>7, <2>e DEF HandleClse, DropShell, DropSync, DropNothing, Forget, poll
      <3>2. TablesOK'
        BY <3>1 DEF TypeOK, TablesOK, active_ids
      <3>3. QueuesOK'
        BY <2>a, <3>1, ReadType DEF TypeOK, QueuesOK
      <3> QED
        BY <2>b, <3>2, <3>3 DEF TypeOK
    <2> QED
      BY <2>c, <2>d, <2>e
  <1>8. CASE HandleOther
    <2>a. TablesOK'
      BY <1>8 DEF HandleOther, TypeOK, TablesOK, tables, active_ids
    <2>b. ControlOK'
      BY <1>8 DEF HandleOther, TypeOK, ControlOK, tables, poll, Pcs
    <2>c. QueuesOK'
      BY <1>8 DEF HandleOther, TypeOK, QueuesOK, poll
    <2> QED
      BY <2>a, <2>b, <2>c DEF TypeOK
  <1>9. CASE ReadFails
    BY <1>9, ReturnType DEF ReadFails
  <1>10. CASE ReadNothing
    <2>a. TablesOK'
      BY <1>10 DEF ReadNothing, TypeOK, TablesOK, tables, active_ids
    <2>b. ControlOK'
      BY <1>10 DEF ReadNothing, TypeOK, ControlOK, tables, poll, Pcs
    <2>c. QueuesOK'
      BY <1>10 DEF ReadNothing, TypeOK, QueuesOK, poll
    <2> QED
      BY <2>a, <2>b, <2>c DEF TypeOK
  <1> QED
    BY <1>1, <1>2, <1>3, <1>4, <1>5, <1>6, <1>7, <1>8, <1>9, <1>10 DEF ReadMessage

LEMMA FinishStepType ==
  ASSUME TypeOK, Finish
  PROVE  TypeOK'
  <1>1. CASE FinishCnxn
    <2>a. TablesOK'
      BY <1>1, ClearType DEF FinishCnxn, TablesOK
    <2>b. ControlOK'
      BY <1>1, ClearType DEF FinishCnxn, TypeOK, ControlOK, poll, Pcs
    <2>c. QueuesOK'
      BY <1>1 DEF FinishCnxn, TypeOK, QueuesOK, poll
    <2> QED
      BY <2>a, <2>b, <2>c DEF TypeOK
  <1>2. ASSUME NEW last \in Seq(DaemonMsg), AnswerSync(last)
        PROVE  TablesOK' /\ QueuesOK'
    <2>a. msg.arg1 \in LocalIds /\ msg.arg0 \in RemoteIds \cup {0}
      BY <1>2 DEF AnswerSync, At, TypeOK, ControlOK, PeerMsg
    <2>b. wrte(msg.arg1, msg.arg0, "sync") \in DaemonMsg
      BY <2>a, WrteType DEF Payloads
    <2>c. sendq' \in Seq(DaemonMsg)
      <3>1. PICK n \in 0 .. MaxChunks :
              sendq' = [i \in 1 .. n |-> wrte(msg.arg1, msg.arg0, "sync")] \o last
        BY <1>2 DEF AnswerSync
      <3>2. [i \in 1 .. n |-> wrte(msg.arg1, msg.arg0, "sync")] \in Seq(DaemonMsg)
        <4>1. n \in Nat
          BY MaxChunksAssumption
        <4> QED
          BY <4>1, <2>b, IsASeq
      <3> QED
        BY <1>2, <3>1, <3>2
    <2>d. TablesOK'
      BY <1>2 DEF AnswerSync, TypeOK, TablesOK, tables, active_ids
    <2>e. QueuesOK'
      BY <1>2, <2>c DEF AnswerSync, TypeOK, QueuesOK, poll
    <2> QED
      BY <2>d, <2>e
  <1>3. CASE ApplySync
    <2>a. TablesOK' /\ QueuesOK'
      <3>1. AnswerSync(<<>>) /\ <<>> \in Seq(DaemonMsg)
        BY <1>3 DEF ApplySync
      <3> QED
        BY <1>2, <3>1
    <2>b. ControlOK'
      BY <1>3 DEF ApplySync, AnswerSync, TypeOK, ControlOK, tables, poll, Pcs
    <2> QED
      BY <2>a, <2>b DEF TypeOK
  <1>4. CASE ApplySyncQuit
    <2>a. msg.arg1 \in LocalIds /\ msg.arg0 \in RemoteIds \cup {0}
      BY <1>4 DEF ApplySyncQuit, AnswerSync, At, TypeOK, ControlOK, PeerMsg
    <2>b. <<clse(msg.arg1, msg.arg0)>> \in Seq(DaemonMsg)
      BY <2>a, AnswerType
    <2>c. TablesOK' /\ QueuesOK'
      BY <1>2, <1>4, <2>b DEF ApplySyncQuit
    <2>d. ControlOK'
      BY <1>4 DEF ApplySyncQuit, AnswerSync, At, TypeOK, ControlOK, tables, poll, Pcs
    <2> QED
      BY <2>c, <2>d DEF TypeOK
  <1>5. CASE FinishSyncQuit
    <2>a. TablesOK'
      BY <1>5 DEF FinishSyncQuit, TypeOK, TablesOK, active_ids, remove
    <2>b. ControlOK'
      BY <1>5 DEF FinishSyncQuit, TypeOK, ControlOK, poll, Pcs
    <2>c. QueuesOK'
      BY <1>5 DEF FinishSyncQuit, TypeOK, QueuesOK, poll
    <2> QED
      BY <2>a, <2>b, <2>c DEF TypeOK
  <1>6. CASE ApplyShell
    <2>a. TablesOK'
      BY <1>6 DEF ApplyShell, TypeOK, TablesOK, tables, active_ids
    <2>b. ControlOK'
      BY <1>6 DEF ApplyShell, TypeOK, ControlOK, tables, poll, Pcs
    <2>c. QueuesOK'
      BY <1>6 DEF ApplyShell, TypeOK, QueuesOK, poll
    <2> QED
      BY <2>a, <2>b, <2>c DEF TypeOK
  <1> QED
    BY <1>1, <1>3, <1>4, <1>5, <1>6 DEF Finish

(* What one more frame adds to wrte_msgs.                                  *)
LEMMA PushType ==
  ASSUME TypeOK, NEW id \in active_ids, NEW n, NEW p \in Payloads, Push(id, n, p)
  PROVE  wrtes' \in Seq(DaemonMsg)
  <1>1. id \in LocalIds /\ sessions[id].remote \in RemoteIds \cup {0}
    BY DEF TypeOK, TablesOK, Session
  <1>2. wrte(id, sessions[id].remote, p) \in DaemonMsg
    BY <1>1, WrteType
  <1>3. wrtes \in Seq(DaemonMsg)
    BY DEF TypeOK, QueuesOK
  <1> QED
    BY <1>2, <1>3 DEF Push

(* Reading n of the units a pipe holds leaves it within its capacity.      *)
LEMMA LessType ==
  ASSUME NEW c \in 0 .. PipeCap, NEW n \in 0 .. c
  PROVE  c - n \in 0 .. PipeCap
  BY PipeCapAssumption

LEMMA PollStepType ==
  ASSUME TypeOK, PollSnapshotLive, PollShells
  PROVE  TypeOK'
  <1>1. CASE BeginPoll
    <2>a. TablesOK'
      BY <1>1 DEF BeginPoll, TypeOK, TablesOK, tables, active_ids
    <2>b. ControlOK'
      BY <1>1 DEF BeginPoll, TypeOK, TablesOK, ControlOK, tables, Pcs
    <2>c. QueuesOK'
      BY <1>1 DEF BeginPoll, TypeOK, QueuesOK
    <2> QED
      BY <2>a, <2>b, <2>c DEF TypeOK
  <1>2. CASE EndPoll
    <2>a. TablesOK'
      BY <1>2 DEF EndPoll, TypeOK, TablesOK, tables, active_ids
    <2>b. ControlOK'
      BY <1>2 DEF EndPoll, TypeOK, ControlOK, tables, poll, Pcs
    <2>c. QueuesOK'
      BY <1>2 DEF EndPoll, TypeOK, QueuesOK, poll
    <2> QED
      BY <2>a, <2>b, <2>c DEF TypeOK
  <1>3. ASSUME NEW id \in LocalIds, PollStdout(id) PROVE TypeOK'
    <2>a. id \in active_ids
      BY <1>3 DEF PollStdout, PollSnapshotLive
    <2>b. PICK n \in 0 .. kids[id].out :
            /\ kids' = [kids EXCEPT ![id].out = @ - n]
            /\ Push(id, n, IF sessions[id].v2 THEN "stdout" ELSE "raw")
      BY <1>3 DEF PollStdout
    <2>c. TablesOK'
      <3>1. kids[id].out - n \in 0 .. PipeCap
        BY <2>a, LessType DEF TypeOK, TablesOK, Kid
      <3> QED
        BY <1>3, <2>a, <2>b, <3>1 DEF PollStdout, TypeOK, TablesOK, Kid, tables, active_ids
    <2>d. ControlOK'
      BY <1>3 DEF PollStdout, TypeOK, ControlOK, tables, Pcs
    <2>e. QueuesOK'
      <3>1. (IF sessions[id].v2 THEN "stdout" ELSE "raw") \in Payloads
        BY DEF Payloads
      <3>2. wrtes' \in Seq(DaemonMsg)
        BY <2>a, <2>b, <3>1, PushType
      <3> QED
        BY <1>3, <3>2 DEF PollStdout, TypeOK, QueuesOK
    <2> QED
      BY <2>c, <2>d, <2>e DEF TypeOK
  <1>4. CASE PollStderr
    <2>a. cur \in active_ids
      BY <1>4 DEF PollStderr, At, PollSnapshotLive, Polling
    <2>b. PICK n \in 0 .. kids[cur].err :
            /\ kids' = [kids EXCEPT ![cur].err = @ - n]
            /\ Push(cur, n, "stderr")
      BY <1>4 DEF PollStderr
    <2>c. TablesOK'
      <3>1. kids[cur].err - n \in 0 .. PipeCap
        BY <2>a, LessType DEF TypeOK, TablesOK, Kid
      <3> QED
        BY <1>4, <2>a, <2>b, <3>1 DEF PollStderr, TypeOK, TablesOK, Kid, tables, active_ids
    <2>d. ControlOK'
      BY <1>4 DEF PollStderr, TypeOK, ControlOK, tables, Pcs
    <2>e. QueuesOK'
      <3>1. wrtes' \in Seq(DaemonMsg)
        BY <2>a, <2>b, PushType DEF Payloads
      <3> QED
        BY <1>4, <3>1 DEF PollStderr, TypeOK, QueuesOK
    <2> QED
      BY <2>c, <2>d, <2>e DEF TypeOK
  <1>5. CASE PollAlive
    <2>a. TablesOK'
      BY <1>5 DEF PollAlive, TypeOK, TablesOK, tables, active_ids
    <2>b. ControlOK'
      BY <1>5, ZeroOne DEF PollAlive, TypeOK, ControlOK, tables, Pcs
    <2>c. QueuesOK'
      BY <1>5 DEF PollAlive, TypeOK, QueuesOK
    <2> QED
      BY <2>a, <2>b, <2>c DEF TypeOK
  <1>6. CASE PollExited
    <2>a. cur \in active_ids /\ cur \in LocalIds
      BY <1>6 DEF PollExited, At, PollSnapshotLive, Polling, TypeOK, ControlOK
    <2>b. TablesOK'
      BY <1>6, <2>a DEF PollExited, TypeOK, TablesOK, Session, active_ids
    <2>c. ControlOK'
      BY <1>6 DEF PollExited, TypeOK, ControlOK, Pcs
    <2>d. QueuesOK'
      <3>1. sessions[cur].remote \in RemoteIds \cup {0}
        BY <2>a DEF TypeOK, TablesOK, Session
      <3>2. ExitFrame(cur) \in Seq(DaemonMsg)
        BY <2>a, <3>1, WrteType DEF ExitFrame, Payloads
      <3>3. clse(cur, sessions[cur].remote) \in DaemonMsg
        BY <2>a, <3>1, AnswerType
      <3>4. Farewell(cur) \in Seq(DaemonMsg)
        BY <3>2, <3>3 DEF TypeOK, QueuesOK, Farewell
      <3> QED
        BY <1>6, <3>4 DEF PollExited, TypeOK, QueuesOK
    <2> QED
      BY <2>b, <2>c, <2>d DEF TypeOK
  <1>7. CASE PollClose
    <2>a. TablesOK'
      BY <1>7 DEF PollClose, Forget, TypeOK, TablesOK, active_ids, remove
    <2>b. ControlOK'
      BY <1>7, ZeroOne DEF PollClose, Forget, TypeOK, ControlOK, Pcs
    <2>c. QueuesOK'
      BY <1>7 DEF PollClose, Forget, TypeOK, QueuesOK
    <2> QED
      BY <2>a, <2>b, <2>c DEF TypeOK
  <1> QED
    BY <1>1, <1>2, <1>3, <1>4, <1>5, <1>6, <1>7 DEF PollShells

LEMMA SendStepType ==
  ASSUME TypeOK, Send \/ SendFails
  PROVE  TypeOK'
  <1>1. CASE Send
    <2>a. TablesOK'
      BY <1>1 DEF Send, TypeOK, TablesOK, tables, active_ids
    <2>b. ControlOK'
      BY <1>1 DEF Send, TypeOK, ControlOK, tables, poll
    <2>c. QueuesOK'
      BY <1>1 DEF Send, TypeOK, QueuesOK, poll
    <2> QED
      BY <2>a, <2>b, <2>c DEF TypeOK
  <1>2. CASE SendFails /\ ~Return
    <2>a. TablesOK'
      BY <1>2 DEF SendFails, TypeOK, TablesOK, tables, active_ids
    <2>b. ControlOK'
      BY <1>2 DEF SendFails, TypeOK, ControlOK, tables, poll
    <2>c. QueuesOK'
      <3>1. sendq' = <<>> /\ UNCHANGED <<wrtes, inbox, outbox>>
        BY <1>2 DEF SendFails, poll
      <3> QED
        BY <3>1 DEF TypeOK, QueuesOK
    <2> QED
      BY <2>a, <2>b, <2>c DEF TypeOK
  <1>3. CASE Return
    BY <1>3, ReturnType
  <1> QED
    BY <1>1, <1>2, <1>3

LEMMA KidsStepType ==
  ASSUME TypeOK, NEW id \in LocalIds, KidWrites(id) \/ KidExits(id)
  PROVE  TypeOK'
  <1>1. id \in active_ids /\ kids[id] \in Kid
    BY DEF KidWrites, KidExits, TypeOK, TablesOK
  <1>2. TablesOK'
    <2>a. kids' \in [active_ids -> Kid]
      <3>1. kids \in [active_ids -> Kid]
        BY DEF TypeOK, TablesOK
      <3>2. CASE kids' = [kids EXCEPT ![id].out = @ + 1] /\ kids[id].out < PipeCap
        BY <1>1, <3>1, <3>2, PipeCapAssumption DEF Kid
      <3>3. CASE kids' = [kids EXCEPT ![id].err = @ + 1] /\ kids[id].err < PipeCap
        BY <1>1, <3>1, <3>3, PipeCapAssumption DEF Kid
      <3>4. CASE kids' = [kids EXCEPT ![id].alive = FALSE]
        BY <1>1, <3>1, <3>4 DEF Kid
      <3> QED
        BY <3>2, <3>3, <3>4 DEF KidWrites, KidExits
    <2> QED
      BY <2>a DEF KidWrites, KidExits, TypeOK, TablesOK, tables, active_ids
  <1>3. ControlOK'
    BY DEF KidWrites, KidExits, TypeOK, ControlOK, tables, poll
  <1>4. QueuesOK'
    BY DEF KidWrites, KidExits, TypeOK, QueuesOK, poll
  <1> QED
    BY <1>2, <1>3, <1>4 DEF TypeOK

LEMMA PeerStepType ==
  ASSUME TypeOK, Peer
  PROVE  TypeOK'
  <1>1. ASSUME NEW m \in AnyMessage, PeerSends(m) PROVE TypeOK'
    <2>a. m \in PeerMsg
      BY AnyMessageType
    <2>b. TablesOK'
      BY <1>1 DEF PeerSends, TypeOK, TablesOK, tables, active_ids
    <2>c. ControlOK'
      BY <1>1 DEF PeerSends, TypeOK, ControlOK, tables, poll
    <2>d. QueuesOK'
      BY <1>1, <2>a DEF PeerSends, TypeOK, QueuesOK, poll
    <2> QED
      BY <2>b, <2>c, <2>d DEF TypeOK
  <1>2. CASE PeerReceives
    <2>a. TablesOK'
      BY <1>2 DEF PeerReceives, TypeOK, TablesOK, tables, active_ids
    <2>b. ControlOK'
      BY <1>2 DEF PeerReceives, TypeOK, ControlOK, tables, poll
    <2>c. QueuesOK'
      BY <1>2 DEF PeerReceives, TypeOK, QueuesOK, poll
    <2> QED
      BY <2>a, <2>b, <2>c DEF TypeOK
  <1>3. CASE PeerHangsUp
    <2>a. TablesOK'
      BY <1>3 DEF PeerHangsUp, TypeOK, TablesOK, tables, active_ids
    <2>b. ControlOK'
      BY <1>3 DEF PeerHangsUp, TypeOK, ControlOK, tables, poll
    <2>c. QueuesOK'
      BY <1>3 DEF PeerHangsUp, TypeOK, QueuesOK, poll
    <2> QED
      BY <2>a, <2>b, <2>c DEF TypeOK
  <1> QED
    BY <1>1, <1>2, <1>3 DEF Peer

LEMMA StutterType ==
  ASSUME TypeOK, UNCHANGED vars
  PROVE  TypeOK'
  BY DEF vars, tables, poll, TypeOK, TablesOK, ControlOK, QueuesOK, active_ids

LEMMA NextType ==
  ASSUME TypeOK, PollSnapshotLive, [Next]_vars
  PROVE  TypeOK'
  <1>1. CASE Daemon
    BY <1>1, ReadStepType, FinishStepType, PollStepType, SendStepType DEF Daemon
  <1>2. CASE Kids
    BY <1>2, KidsStepType DEF Kids
  <1>3. CASE Peer
    BY <1>3, PeerStepType
  <1>4. CASE Terminated \/ UNCHANGED vars
    BY <1>4, StutterType DEF Terminated
  <1> QED
    BY <1>1, <1>2, <1>3, <1>4 DEF Next

--------------------------------
(* The steps that leave the tables, the poll and pc as they are.           *)

Outside ==
  \/ Send
  \/ SendFails /\ ~Return
  \/ \E id \in LocalIds : KidWrites(id) \/ KidExits(id)
  \/ Peer
  \/ UNCHANGED vars

LEMMA OutsideUnchanged ==
  ASSUME Outside
  PROVE  UNCHANGED <<connected, tables, poll, pc, msg>>
  BY DEF Outside, Send, SendFails, KidWrites, KidExits, Peer, PeerSends,
         PeerReceives, PeerHangsUp, vars, tables, poll

(* Every step is one of the handler's own, a return, or one of those.      *)
LEMMA StepCases ==
  ASSUME [Next]_vars
  PROVE  \/ ReadMessage \/ ReadNothing \/ Finish \/ PollShells
         \/ Return
         \/ Outside
  BY DEF Next, Daemon, Kids, Outside, Terminated

(* A read begins with no snapshot and ends outside the poll.               *)
LEMMA ReadLeavesPoll ==
  ASSUME PollIdle, (ReadMessage /\ ~Return) \/ ReadNothing \/ Finish
  PROVE  ids' = {} /\ pc' \notin Polling \cup {"poll"}
  BY DEF PollIdle, Polling, ReadMessage, ReadNothing, Finish, HandleCnxn, OpenShell,
         OpenShellFails, OpenSync, OpenOther, OpenAs, HandleWrte, HandleClse,
         HandleOther, ReadFails, FinishCnxn, ApplySync, AnswerSync, ApplySyncQuit,
         FinishSyncQuit, ApplyShell, Read, At, poll

LEMMA SnapshotStep ==
  ASSUME PollSnapshotLive, PollIdle, [Next]_vars
  PROVE  PollSnapshotLive' /\ PollIdle'
  <1>1. CASE (ReadMessage /\ ~Return) \/ ReadNothing \/ Finish
    BY <1>1, ReadLeavesPoll DEF PollSnapshotLive, PollIdle, Polling
  <1>2. CASE Return
    BY <1>2 DEF Return, PollSnapshotLive, PollIdle, Polling
  <1>3. CASE Outside
    BY <1>3, OutsideUnchanged
       DEF PollSnapshotLive, PollIdle, tables, poll, active_ids
  <1>4. CASE BeginPoll
    BY <1>4 DEF BeginPoll, PollSnapshotLive, PollIdle, Polling, tables, active_ids
  <1>5. CASE EndPoll
    BY <1>5 DEF EndPoll, PollSnapshotLive, PollIdle, Polling, poll
  <1>6. ASSUME NEW id \in LocalIds, PollStdout(id)
        PROVE  PollSnapshotLive' /\ PollIdle'
    BY <1>6 DEF PollStdout, PollSnapshotLive, PollIdle, Polling, tables, active_ids
  <1>7. CASE PollStderr
    BY <1>7 DEF PollStderr, At, PollSnapshotLive, PollIdle, Polling, tables, active_ids
  <1>8. CASE PollAlive
    BY <1>8 DEF PollAlive, At, PollSnapshotLive, PollIdle, Polling, tables, active_ids
  <1>9. CASE PollExited
    BY <1>9 DEF PollExited, At, PollSnapshotLive, PollIdle, Polling, active_ids
  <1>10. CASE PollClose
    BY <1>10 DEF PollClose, Forget, At, PollSnapshotLive, PollIdle, Polling, active_ids, remove
  <1> QED
    BY StepCases, <1>1, <1>2, <1>3, <1>4, <1>5, <1>6, <1>7, <1>8, <1>9, <1>10
       DEF PollShells

(* Outside the poll no session is finished, and a read starts none that is. *)
LEMMA FinishedStep ==
  ASSUME TypeOK, PollSnapshotLive, FinishedOnlyWhileClosing, [Next]_vars
  PROVE  FinishedOnlyWhileClosing'
  <1> USE DEF FinishedOnlyWhileClosing, active_ids
  <1>1. CASE (ReadMessage /\ ~Return) \/ ReadNothing
    <2>a. pc = "read"
      BY <1>1 DEF ReadMessage, ReadNothing, HandleCnxn, OpenShell, OpenShellFails,
                  OpenSync, OpenOther, OpenAs, HandleWrte, HandleClse, HandleOther,
                  ReadFails, Read, At
    <2>b. \A l \in DOMAIN sessions : ~sessions[l].finished
      BY <2>a
    <2>c. CASE OpenShell
      BY <2>b, <2>c DEF OpenShell, insert
    <2>d. CASE HandleClse
      BY <2>b, <2>d DEF HandleClse, DropShell, DropSync, DropNothing, Forget, remove
    <2>e. CASE UNCHANGED sessions
      BY <2>b, <2>e
    <2> QED
      BY <1>1, <2>c, <2>d, <2>e
         DEF ReadMessage, ReadNothing, HandleCnxn, OpenShellFails, OpenSync, OpenOther,
             HandleWrte, HandleOther, ReadFails, tables
  <1>2. CASE Finish
    <2>a. pc # "close"
      BY <1>2 DEF Finish, FinishCnxn, ApplySync, AnswerSync, ApplySyncQuit,
                  FinishSyncQuit, ApplyShell, At
    <2>b. CASE FinishCnxn
      BY <2>b, ClearType DEF FinishCnxn
    <2>c. CASE UNCHANGED sessions
      BY <2>a, <2>c
    <2> QED
      BY <1>2, <2>b, <2>c
         DEF Finish, ApplySync, AnswerSync, ApplySyncQuit, FinishSyncQuit, ApplyShell, tables
  <1>3. CASE Return
    BY <1>3, ClearType DEF Return
  <1>4. CASE Outside
    BY <1>4, OutsideUnchanged DEF tables, poll
  <1>5. CASE BeginPoll \/ EndPoll \/ PollStderr \/ PollAlive
                \/ \E id \in LocalIds : PollStdout(id)
    <2>a. pc # "close" /\ UNCHANGED sessions
      BY <1>5 DEF BeginPoll, EndPoll, PollStderr, PollAlive, PollStdout, At, tables
    <2> QED
      BY <2>a
  <1>6. CASE PollExited
    <2>a. cur \in DOMAIN sessions /\ pc' = "close" /\ cur' = cur
      BY <1>6 DEF PollExited, At, PollSnapshotLive, Polling
    <2>b. \A l \in DOMAIN sessions : l # cur => ~sessions'[l].finished
      BY <1>6 DEF PollExited, At
    <2>c. DOMAIN sessions' = DOMAIN sessions
      BY <1>6 DEF PollExited
    <2> QED
      BY <2>a, <2>b, <2>c
  <1>7. CASE PollClose
    BY <1>7 DEF PollClose, Forget, remove
  <1> QED
    BY StepCases, <1>1, <1>2, <1>3, <1>4, <1>5, <1>6, <1>7 DEF PollShells

(* Only an OPEN takes an id, and it takes the counter's; a clear starts    *)
(* over with no id in use; every other step only gives ids back.           *)
LEMMA IdsStep ==
  ASSUME TypeOK, IdsFresh, CounterStarted, [Next]_vars
  PROVE  IdsFresh' /\ CounterStarted'
  <1>1. next_local_id \in LocalIds /\ wrapped \in BOOLEAN /\ LocalIds \subseteq Nat
    BY DEF TypeOK, TablesOK, ControlOK, LocalIds
  <1>2. ASSUME active_ids' \subseteq active_ids,
               DOMAIN sync_sessions' \subseteq DOMAIN sync_sessions,
               UNCHANGED <<next_local_id, wrapped>>
        PROVE  IdsFresh' /\ CounterStarted'
    BY <1>2 DEF IdsFresh, CounterStarted, Live, active_ids
  <1>3. ASSUME clear
        PROVE  IdsFresh' /\ CounterStarted'
    <2>a. active_ids' = {} /\ Live' = {} /\ next_local_id' = 1
      BY <1>3, ClearType DEF clear, Live
    <2> QED
      BY <2>a DEF IdsFresh, CounterStarted
  <1>4. ASSUME alloc_local_id, ~wrapped'
        PROVE  /\ ~wrapped /\ next_local_id > 0
               /\ next_local_id' = next_local_id + 1
               /\ \A l \in Live : 0 < l /\ l < next_local_id
    BY <1>1, <1>4, AllocNext DEF alloc_local_id, IdsFresh, CounterStarted
  <1>5. \A l \in Live : l \in Nat
    BY <1>1 DEF Live, TypeOK, TablesOK
  <1>6. CASE OpenShell
    <2>a. active_ids' = active_ids \cup {next_local_id} /\ UNCHANGED sync_sessions
      BY <1>6 DEF OpenShell, insert, active_ids
    <2>b. alloc_local_id
      BY <1>6 DEF OpenShell
    <2> QED
      BY <1>1, <1>4, <1>5, <2>a, <2>b DEF IdsFresh, CounterStarted, Live
  <1>7. CASE OpenShellFails
    BY <1>1, <1>4, <1>5, <1>7 DEF OpenShellFails, IdsFresh, CounterStarted, Live, active_ids
  <1>8. CASE OpenSync
    <2>a. /\ DOMAIN sync_sessions' = DOMAIN sync_sessions \cup {next_local_id}
          /\ active_ids' = active_ids
      BY <1>8 DEF OpenSync, insert, active_ids
    <2>b. alloc_local_id
      BY <1>8 DEF OpenSync
    <2> QED
      BY <1>1, <1>4, <1>5, <2>a, <2>b DEF IdsFresh, CounterStarted, Live
  <1>9. CASE HandleCnxn \/ OpenOther \/ HandleWrte \/ HandleOther \/ ReadNothing
    BY <1>2, <1>9 DEF HandleCnxn, OpenOther, HandleWrte, HandleOther, ReadNothing,
                      tables, active_ids
  <1>10. CASE HandleClse
    BY <1>2, <1>10 DEF HandleClse, DropShell, DropSync, DropNothing, Forget, remove, active_ids
  <1>11. CASE Return \/ ReadFails
    BY <1>3, <1>11 DEF Return, ReadFails
  <1>12. CASE Finish
    <2>a. CASE FinishCnxn
      BY <1>3, <2>a DEF FinishCnxn
    <2>b. CASE ApplySync \/ ApplySyncQuit \/ ApplyShell
      BY <1>2, <2>b DEF ApplySync, AnswerSync, ApplySyncQuit, ApplyShell, tables, active_ids
    <2>c. CASE FinishSyncQuit
      BY <1>2, <2>c DEF FinishSyncQuit, remove, active_ids
    <2> QED
      BY <1>12, <2>a, <2>b, <2>c DEF Finish
  <1>13. CASE PollShells
    <2>a. CASE PollExited
      BY <1>2, <2>a DEF PollExited, active_ids
    <2>b. CASE PollClose
      BY <1>2, <2>b DEF PollClose, Forget, remove, active_ids
    <2>c. CASE UNCHANGED tables
      BY <1>2, <2>c DEF tables, active_ids
    <2> QED
      BY <1>13, <2>a, <2>b, <2>c
         DEF PollShells, BeginPoll, EndPoll, PollStdout, PollStderr, PollAlive
  <1>14. CASE Outside
    BY <1>2, <1>14, OutsideUnchanged DEF tables, active_ids
  <1> QED
    BY StepCases, <1>6, <1>7, <1>8, <1>9, <1>10, <1>11, <1>12, <1>13, <1>14
       DEF ReadMessage

(* An unconnected handler reads past everything but a CNXN, and has no     *)
(* session a poll or a WRTE could find.                                    *)
LEMMA HandshakeStep ==
  ASSUME TypeOK, HandshakeGate, PollSnapshotLive, [Next]_vars
  PROVE  HandshakeGate'
  <1> SUFFICES ASSUME ~connected'
               PROVE  /\ Live' = {}
                      /\ wrtes' = <<>>
                      /\ OnlyBanners(sendq)'
                      /\ OnlyBanners(outbox)'
    BY DEF HandshakeGate
  <1> USE DEF OnlyBanners
  <1>1. ~connected
    BY DEF Next, Daemon, ReadMessage, HandleCnxn, OpenShell, OpenShellFails, OpenSync,
           OpenOther, OpenAs, HandleWrte, HandleClse, HandleOther, ReadFails, Return,
           ReadNothing, Finish, FinishCnxn, ApplySync, ApplySyncQuit, AnswerSync,
           FinishSyncQuit, ApplyShell, PollShells, BeginPoll, EndPoll, PollStdout,
           PollStderr, PollAlive, PollExited, PollClose, Send, SendFails, Kids,
           KidWrites, KidExits, Peer, PeerSends, PeerReceives, PeerHangsUp,
           Terminated, vars
  <1>2. /\ active_ids = {} /\ DOMAIN sync_sessions = {}
        /\ wrtes = <<>>
        /\ OnlyBanners(sendq) /\ OnlyBanners(outbox)
        /\ sendq \in Seq(DaemonMsg) /\ outbox \in Seq(DaemonMsg)
    BY <1>1 DEF HandshakeGate, Live, TypeOK, QueuesOK
  <1>3. ids = {} /\ pc \notin Polling
    BY <1>2 DEF PollSnapshotLive
  <1>4. CASE HandleCnxn
    BY <1>2, <1>4 DEF HandleCnxn, cnxn, poll, tables, Live, active_ids
  <1>5. CASE HandleOther \/ ReadNothing \/ BeginPoll \/ EndPoll
    BY <1>2, <1>5 DEF HandleOther, ReadNothing, BeginPoll, EndPoll, poll, tables,
                      Live, active_ids
  <1>6. CASE Return
    BY <1>2, <1>6, ClearType DEF Return, Live
  <1>7. CASE ApplyShell \/ FinishSyncQuit
    BY <1>2, <1>7 DEF ApplyShell, FinishSyncQuit, remove, poll, tables, Live, active_ids
  <1>8. CASE Send
    <2>a. Head(sendq).cmd = "CNXN" /\ OnlyBanners(Tail(sendq))
      BY <1>2, <1>8 DEF Send
    <2>b. OnlyBanners(outbox)'
      BY <1>2, <1>8, <2>a DEF Send, DaemonMsg
    <2> QED
      BY <1>2, <1>8, <2>a, <2>b DEF Send, poll, tables, Live, active_ids
  <1>9. CASE SendFails /\ ~Return
    BY <1>2, <1>9 DEF SendFails, poll, tables, Live, active_ids
  <1>10. CASE Kids
    BY <1>2, <1>10 DEF Kids, KidWrites, KidExits, poll, tables, Live, active_ids
  <1>11. CASE Peer
    <2>a. UNCHANGED <<tables, wrtes, sendq>>
      BY <1>11 DEF Peer, PeerSends, PeerReceives, PeerHangsUp, poll
    <2>b. CASE PeerReceives
      BY <1>2, <2>a, <2>b DEF PeerReceives, tables, Live, active_ids
    <2>c. CASE outbox' = <<>> \/ outbox' = outbox
      BY <1>2, <2>a, <2>c DEF tables, Live, active_ids
    <2> QED
      BY <1>11, <2>b, <2>c DEF Peer, PeerSends, PeerHangsUp
  <1>12. CASE UNCHANGED vars
    BY <1>2, <1>12 DEF vars, poll, tables, Live, active_ids
  <1>13. ~(OpenShell \/ OpenShellFails \/ OpenSync \/ OpenOther \/ HandleWrte \/ HandleClse)
    BY <1>1 DEF OpenShell, OpenShellFails, OpenSync, OpenOther, OpenAs, HandleWrte,
                HandleClse
  <1>14. ~(ApplySync \/ ApplySyncQuit \/ FinishCnxn)
    BY <1>2 DEF ApplySync, ApplySyncQuit, AnswerSync, FinishCnxn
  <1>15. ~(PollStderr \/ PollAlive \/ PollExited \/ PollClose)
            /\ \A id \in LocalIds : ~PollStdout(id)
    BY <1>3 DEF PollStderr, PollAlive, PollExited, PollClose, PollStdout, At, Polling
  <1> QED
    BY <1>4, <1>5, <1>6, <1>7, <1>8, <1>9, <1>10, <1>11, <1>12, <1>13, <1>14, <1>15
       DEF Next, Daemon, ReadMessage, Finish, PollShells, ReadFails, Terminated

--------------------------------
(* The theorems. *)

LEMMA InitInv == Init => IInv
  <1> SUFFICES ASSUME Init PROVE IInv
    OBVIOUS
  <1>1. TypeOK
    BY InitType
  <1>2. Live = {} /\ active_ids = {} /\ active_ids \cap DOMAIN sync_sessions = {}
    BY DEF Init, EmptyMap, Live, active_ids
  <1>3. HandshakeGate
    BY <1>2 DEF Init, HandshakeGate, OnlyBanners
  <1>4. IdsFresh /\ PollSnapshotLive /\ FinishedOnlyWhileClosing
    BY <1>2 DEF Init, IdsFresh, PollSnapshotLive, FinishedOnlyWhileClosing, Polling
  <1>5. PollIdle /\ CounterStarted
    BY DEF Init, PollIdle, CounterStarted
  <1> QED
    BY <1>1, <1>3, <1>4, <1>5 DEF IInv

LEMMA NextInv == IInv /\ [Next]_vars => IInv'
  BY NextType, HandshakeStep, IdsStep, SnapshotStep, FinishedStep DEF IInv

(* The conjuncts of IInv hold together in every reachable state.           *)
THEOREM Invariance == Spec => []IInv
  BY InitInv, NextInv, PTL DEF Spec

(* Every variable keeps to its declaration; a session and its process come *)
(* and go together.                                                        *)
THEOREM TypeCorrect == Spec => []TypeOK
  BY Invariance, PTL DEF IInv

(* No peer gets a stream, or anything but a banner, before its CNXN has    *)
(* been answered.                                                          *)
THEOREM HandshakeGated == Spec => []HandshakeGate
  BY Invariance, PTL DEF IInv

(* Until the counter wraps, alloc_local_id gives ids that are not in use.  *)
THEOREM FreshIds == Spec => []IdsFresh
  BY Invariance, PTL DEF IInv

(* The poll's copy of the ids never goes stale.                            *)
THEOREM SnapshotIsLive == Spec => []PollSnapshotLive
  BY Invariance, PTL DEF IInv

(* The exit code try_wait makes up for a reaped child is never sent.       *)
THEOREM ExitCodeOnce == Spec => []FinishedOnlyWhileClosing
  BY Invariance, PTL DEF IInv

================================
