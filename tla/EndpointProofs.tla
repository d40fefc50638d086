--------------------------- MODULE EndpointProofs ---------------------------
(***************************************************************************)
(* The private endpoint, for every number of processes and of inodes, when *)
(* services and nukes do not start into each other (Patient): at most one  *)
(* process of a service listens, the socket file is its own, and a nuke    *)
(* deletes nothing under it.                                               *)
(***************************************************************************)
EXTENDS Endpoint, TLAPS

Idle == {"off", "refused"}
Holding == {"clear", "unlink", "bind", "database", "serving", "leaving", "closing"}
Opened == Holding \cup {"try"}
Starting == {"lock", "try", "clear", "unlink", "bind", "database"}
Probed == {"confirm", "state", "runtime"}
Inodes == 1 .. MaxInodes

(* The shape of the state. *)
Types ==
  /\ pc \in [Procs -> Idle \cup Opened \cup {"lock", "probe"} \cup Probed]
  /\ \A p \in Servers : pc[p] \notin {"probe"} \cup Probed
  /\ \A n \in Nukers : pc[n] \in {"off", "probe"} \cup Probed
  /\ opened \in [Procs -> Inodes \cup {None}]
  /\ holder \in [Inodes -> Servers \cup {None}]
  /\ lockPath \in Inodes \cup {None}
  /\ inodes \in 0 .. MaxInodes

(* The lock a process holds is the one at the path: only a nuke moves the  *)
(* path, and none gets as far beside a service.                            *)
Locks ==
  /\ \A p \in Servers : pc[p] \in Opened => opened[p] = lockPath /\ lockPath \in Inodes
  /\ \A p \in Servers : pc[p] \in Holding => holder[lockPath] = p
  /\ \A i \in Inodes : holder[i] # None => pc[holder[i]] \in Holding

(* A nuke past its probe is alone, and one before it sees no start. *)
Apart ==
  \A n \in Nukers, p \in Servers :
    /\ pc[n] \in Probed => pc[p] \in Idle
    /\ pc[n] = "probe" => pc[p] \notin Starting

IInv == Types /\ Locks /\ Apart /\ SocketIsServers

(* Nothing is running and no file is there. *)
LEMMA InitIInv == Init => IInv
  BY EndpointAssumption DEF Init, IInv, Types, Locks, Apart, SocketIsServers, Idle, Holding, Opened, Starting, Probed, Inodes, Procs, Goto

(* A start waits for every nuke to be over. *)
LEMMA PrepareprivatedirIInv == ASSUME Patient, IInv, NEW p \in Servers, prepare_private_dir(p) PROVE IInv'
<1> USE EndpointAssumption DEF IInv, Idle, Holding, Opened, Starting, Probed, Inodes, Procs, Goto
<1>1. Types'
  BY DEF Types, prepare_private_dir
<1>2. Locks'
  BY DEF Types, Locks, Apart, prepare_private_dir
<1>3. Apart'
  BY DEF Types, Locks, Apart, prepare_private_dir
<1>4. SocketIsServers'
  BY DEF Types, Locks, Apart, SocketIsServers, prepare_private_dir
<1> QED
  BY <1>1, <1>2, <1>3, <1>4

(* The lock opened is the one at the path. *)
LEMMA OpenLockIInv == ASSUME Patient, IInv, NEW p \in Servers, OpenLock(p) PROVE IInv'
<1> USE EndpointAssumption DEF IInv, Idle, Holding, Opened, Starting, Probed, Inodes, Procs, Goto
<1>1. Types'
  BY DEF Types, OpenLock, Gone
<1>2. Locks'
  BY DEF Types, Locks, Apart, OpenLock, Gone
<1>3. Apart'
  BY DEF Types, Locks, Apart, OpenLock, Gone
<1>4. SocketIsServers'
  BY DEF Types, Locks, Apart, SocketIsServers, OpenLock, Gone
<1> QED
  BY <1>1, <1>2, <1>3, <1>4

(* A lock that is taken was free: nobody else is past this point. *)
LEMMA TryLockIInv == ASSUME Patient, IInv, NEW p \in Servers, TryLock(p) PROVE IInv'
<1> USE EndpointAssumption DEF IInv, Idle, Holding, Opened, Starting, Probed, Inodes, Procs, Goto
<1>1. Types'
  <2>1. opened[p] \in Inodes
    BY DEF Locks, TryLock
  <2>2. CASE holder[opened[p]] # None
    <3>1. Gone(p, "refused") /\ UNCHANGED <<lockPath, inodes>>
      BY <2>2 DEF TryLock
    <3> QED
      BY <3>1 DEF Types, Gone
  <2>3. CASE holder[opened[p]] = None
    BY <2>1, <2>3 DEF Types, TryLock
  <2> QED
    BY <2>2, <2>3
<1>2. Locks'
  BY DEF Types, Locks, Apart, TryLock, Gone
<1>3. Apart'
  BY DEF Types, Locks, Apart, TryLock, Gone
<1>4. SocketIsServers'
  BY DEF Types, Locks, Apart, SocketIsServers, TryLock, Gone
<1> QED
  BY <1>1, <1>2, <1>3, <1>4

(* Nothing is written yet. *)
LEMMA ClearstalesocketIInv == ASSUME Patient, IInv, NEW p \in Servers, clear_stale_socket(p) PROVE IInv'
<1> USE EndpointAssumption DEF IInv, Idle, Holding, Opened, Starting, Probed, Inodes, Procs, Goto
<1>1. Types'
  BY DEF Types, clear_stale_socket, Gone, Listening
<1>2. Locks'
  BY DEF Types, Locks, Apart, clear_stale_socket, Gone
<1>3. Apart'
  BY DEF Types, Locks, Apart, clear_stale_socket, Gone
<1>4. SocketIsServers'
  BY DEF Types, Locks, Apart, SocketIsServers, clear_stale_socket, Gone, Listening
<1> QED
  BY <1>1, <1>2, <1>3, <1>4

(* The socket removed is not one of a process that serves. *)
LEMMA UnlinkIInv == ASSUME Patient, IInv, NEW p \in Servers, Unlink(p) PROVE IInv'
<1> USE EndpointAssumption DEF IInv, Idle, Holding, Opened, Starting, Probed, Inodes, Procs, Goto
<1>1. Types'
  BY DEF Types, Unlink, Gone
<1>2. Locks'
  BY DEF Types, Locks, Apart, Unlink, Gone
<1>3. Apart'
  BY DEF Types, Locks, Apart, Unlink, Gone
<1>4. SocketIsServers'
  BY DEF Types, Locks, Apart, SocketIsServers, Unlink, Gone
<1> QED
  BY <1>1, <1>2, <1>3, <1>4

(* The socket is the lock holder's. *)
LEMMA BindIInv == ASSUME Patient, IInv, NEW p \in Servers, Bind(p) PROVE IInv'
<1> USE EndpointAssumption DEF IInv, Idle, Holding, Opened, Starting, Probed, Inodes, Procs, Goto
<1>1. Types'
  BY DEF Types, Bind, Gone
<1>2. Locks'
  BY DEF Types, Locks, Apart, Bind, Gone
<1>3. Apart'
  BY DEF Types, Locks, Apart, Bind, Gone
<1>4. SocketIsServers'
  BY DEF Types, Locks, Apart, SocketIsServers, Bind, Gone
<1> QED
  BY <1>1, <1>2, <1>3, <1>4

(* The database is opened behind the lock. *)
LEMMA OpenDatabaseIInv == ASSUME Patient, IInv, NEW p \in Servers, OpenDatabase(p) PROVE IInv'
<1> USE EndpointAssumption DEF IInv, Idle, Holding, Opened, Starting, Probed, Inodes, Procs, Goto
<1>1. Types'
  BY DEF Types, OpenDatabase
<1>2. Locks'
  BY DEF Types, Locks, Apart, OpenDatabase
<1>3. Apart'
  BY DEF Types, Locks, Apart, OpenDatabase
<1>4. SocketIsServers'
  BY DEF Types, Locks, Apart, SocketIsServers, OpenDatabase
<1> QED
  BY <1>1, <1>2, <1>3, <1>4

(* Leaving, the lock is still held. *)
LEMMA StopIInv == ASSUME Patient, IInv, NEW p \in Servers, Stop(p) PROVE IInv'
<1> USE EndpointAssumption DEF IInv, Idle, Holding, Opened, Starting, Probed, Inodes, Procs, Goto
<1>1. Types'
  BY DEF Types, Stop
<1>2. Locks'
  BY DEF Types, Locks, Apart, Stop
<1>3. Apart'
  BY DEF Types, Locks, Apart, Stop
<1>4. SocketIsServers'
  BY DEF Types, Locks, Apart, SocketIsServers, Stop
<1> QED
  BY <1>1, <1>2, <1>3, <1>4

(* The socket is removed while the lock is held. *)
LEMMA RemoveSocketIInv == ASSUME Patient, IInv, NEW p \in Servers, RemoveSocket(p) PROVE IInv'
<1> USE EndpointAssumption DEF IInv, Idle, Holding, Opened, Starting, Probed, Inodes, Procs, Goto
<1>1. Types'
  BY DEF Types, RemoveSocket
<1>2. Locks'
  BY DEF Types, Locks, Apart, RemoveSocket
<1>3. Apart'
  BY DEF Types, Locks, Apart, RemoveSocket
<1>4. SocketIsServers'
  BY DEF Types, Locks, Apart, SocketIsServers, RemoveSocket
<1> QED
  BY <1>1, <1>2, <1>3, <1>4

(* The lock goes with the process. *)
LEMMA CloseIInv == ASSUME Patient, IInv, NEW p \in Servers, Close(p) PROVE IInv'
<1> USE EndpointAssumption DEF IInv, Idle, Holding, Opened, Starting, Probed, Inodes, Procs, Goto
<1>1. Types'
  BY DEF Types, Close, Gone
<1>2. Locks'
  BY DEF Types, Locks, Apart, Close, Gone
<1>3. Apart'
  BY DEF Types, Locks, Apart, Close, Gone
<1>4. SocketIsServers'
  BY DEF Types, Locks, Apart, SocketIsServers, Close, Gone
<1> QED
  BY <1>1, <1>2, <1>3, <1>4

(* Whatever was left behind, the lock is free. *)
LEMMA DieIInv == ASSUME Patient, IInv, NEW p \in Servers, Die(p) PROVE IInv'
<1> USE EndpointAssumption DEF IInv, Idle, Holding, Opened, Starting, Probed, Inodes, Procs, Goto
<1>1. Types'
  BY DEF Types, Die, Gone
<1>2. Locks'
  BY DEF Types, Locks, Apart, Die, Gone
<1>3. Apart'
  BY DEF Types, Locks, Apart, Die, Gone
<1>4. SocketIsServers'
  BY DEF Types, Locks, Apart, SocketIsServers, Die, Gone
<1> QED
  BY <1>1, <1>2, <1>3, <1>4

(* A nuke begins while nothing starts. *)
LEMMA TargetsIInv == ASSUME Patient, IInv, NEW n \in Nukers, Targets(n) PROVE IInv'
<1> USE EndpointAssumption DEF IInv, Idle, Holding, Opened, Starting, Probed, Inodes, Procs, Goto
<1>1. Types'
  BY DEF Types, Targets
<1>2. Locks'
  BY DEF Types, Locks, Apart, Targets
<1>3. Apart'
  BY DEF Types, Locks, Apart, Targets
<1>4. SocketIsServers'
  BY DEF Types, Locks, Apart, SocketIsServers, Targets
<1> QED
  BY <1>1, <1>2, <1>3, <1>4

(* A process that runs holds the lock at the path, and the probe sees it. *)
LEMMA NukeprobelocksIInv == ASSUME Patient, IInv, NEW n \in Nukers, nuke_probe_locks(n) PROVE IInv'
<1> USE EndpointAssumption DEF IInv, Idle, Holding, Opened, Starting, Probed, Inodes, Procs, Goto
<1>1. Types'
  BY DEF Types, nuke_probe_locks
<1>2. Locks'
  BY DEF Types, Locks, Apart, nuke_probe_locks
<1>3. Apart'
  BY DEF Types, Locks, Apart, nuke_probe_locks
<1>4. SocketIsServers'
  BY DEF Types, Locks, Apart, SocketIsServers, nuke_probe_locks
<1> QED
  BY <1>1, <1>2, <1>3, <1>4

(* The answer changes nothing. *)
LEMMA ConfirmIInv == ASSUME Patient, IInv, NEW n \in Nukers, Confirm(n) PROVE IInv'
<1> USE EndpointAssumption DEF IInv, Idle, Holding, Opened, Starting, Probed, Inodes, Procs, Goto
<1>1. Types'
  BY DEF Types, Confirm
<1>2. Locks'
  BY DEF Types, Locks, Apart, Confirm
<1>3. Apart'
  BY DEF Types, Locks, Apart, Confirm
<1>4. SocketIsServers'
  BY DEF Types, Locks, Apart, SocketIsServers, Confirm
<1> QED
  BY <1>1, <1>2, <1>3, <1>4

(* The nuke is alone. *)
LEMMA RemoveStateIInv == ASSUME Patient, IInv, NEW n \in Nukers, RemoveState(n) PROVE IInv'
<1> USE EndpointAssumption DEF IInv, Idle, Holding, Opened, Starting, Probed, Inodes, Procs, Goto
<1>1. Types'
  BY DEF Types, RemoveState
<1>2. Locks'
  BY DEF Types, Locks, Apart, RemoveState
<1>3. Apart'
  BY DEF Types, Locks, Apart, RemoveState
<1>4. SocketIsServers'
  BY DEF Types, Locks, Apart, SocketIsServers, RemoveState
<1> QED
  BY <1>1, <1>2, <1>3, <1>4

(* The nuke is alone, and takes the path's lock from nobody. *)
LEMMA RemoveRuntimeIInv == ASSUME Patient, IInv, NEW n \in Nukers, RemoveRuntime(n) PROVE IInv'
<1> USE EndpointAssumption DEF IInv, Idle, Holding, Opened, Starting, Probed, Inodes, Procs, Goto
<1>1. Types'
  BY DEF Types, RemoveRuntime
<1>2. Locks'
  BY DEF Types, Locks, Apart, RemoveRuntime
<1>3. Apart'
  BY DEF Types, Locks, Apart, RemoveRuntime
<1>4. SocketIsServers'
  BY DEF Types, Locks, Apart, SocketIsServers, RemoveRuntime
<1> QED
  BY <1>1, <1>2, <1>3, <1>4

-----------------------------------------------------------------------------
(* Every step keeps the strengthened invariant, which is inductive. *)
LEMMA NextIInv == ASSUME Patient, IInv, [Next]_vars PROVE IInv'
<1>1. CASE UNCHANGED vars
  BY <1>1 DEF vars, IInv, Types, Locks, Apart, SocketIsServers
<1>2. ASSUME NEW p \in Servers, ServerNext(p) PROVE IInv'
  BY <1>2, PrepareprivatedirIInv, OpenLockIInv, TryLockIInv, ClearstalesocketIInv, UnlinkIInv, BindIInv, OpenDatabaseIInv, StopIInv, RemoveSocketIInv, CloseIInv, DieIInv
     DEF ServerNext
<1>3. ASSUME NEW n \in Nukers, NukeNext(n) PROVE IInv'
  BY <1>3, TargetsIInv, NukeprobelocksIInv, ConfirmIInv, RemoveStateIInv, RemoveRuntimeIInv DEF NukeNext
<1> QED
  BY <1>1, <1>2, <1>3 DEF Next

(* The strengthened invariant of the endpoint. *)
THEOREM EndpointInvariant == ASSUME Patient PROVE Spec => []IInv
<1>1. IInv /\ [Next]_vars => IInv'
  BY NextIInv
<1> QED
  BY <1>1, InitIInv, PTL DEF Spec

(* bind_private_unix_socket: whatever was killed and left behind, and      *)
(* however many processes start at once, one at most listens.              *)
THEOREM NeverTwoServers == ASSUME Patient PROVE Spec => []OneServer
<1>1. IInv => OneServer
  BY DEF IInv, Locks, OneServer, Listening, Opened, Holding
<1> QED
  BY <1>1, EndpointInvariant, PTL

(* "A live listener is never displaced": the socket file at the path is    *)
(* the serving process's own.                                              *)
THEOREM NeverDisplaced == ASSUME Patient PROVE Spec => []SocketIsServers
<1>1. IInv => SocketIsServers
  BY DEF IInv
<1> QED
  BY <1>1, EndpointInvariant, PTL

(* nuke deletes neither directory while a process of the service holds its *)
(* lock.                                                                   *)
THEOREM NukeIsSafe == ASSUME Patient PROVE Spec => NukeSparesRunning
<1>1. ASSUME IInv, [Next]_vars, (database # None /\ database' = None) \/ (runtime /\ ~ runtime')
      PROVE  \A i \in 1 .. MaxInodes : holder[i] = None
  <2>1. PICK n \in Nukers : pc[n] \in Probed
    <3>1. CASE UNCHANGED vars
      BY <1>1, <3>1 DEF vars
    <3>2. ASSUME NEW p \in Servers, ServerNext(p) PROVE FALSE
      BY <1>1, <3>2, EndpointAssumption
      DEF IInv, Types, Inodes, ServerNext, prepare_private_dir, OpenLock, TryLock, clear_stale_socket, Unlink, Bind,
          OpenDatabase, Stop, RemoveSocket, Close, Die
    <3>3. ASSUME NEW n \in Nukers, NukeNext(n) PROVE pc[n] \in Probed
      BY <1>1, <3>3 DEF NukeNext, Targets, nuke_probe_locks, Confirm, RemoveState, RemoveRuntime, Probed
    <3> QED
      BY <1>1, <3>1, <3>2, <3>3 DEF Next
  <2>2. \A p \in Servers : pc[p] \in Idle
    BY <1>1, <2>1 DEF IInv, Apart
  <2> QED
    BY <1>1, <2>2, EndpointAssumption DEF IInv, Types, Locks, Idle, Holding, Inodes
<1> QED
  BY <1>1, EndpointInvariant, PTL DEF Spec, NukeSparesRunning

-----------------------------------------------------------------------------
(* What a start finds: its directory, and no socket but a stale one. *)
Files ==
  /\ socket \in Servers \cup {None}
  /\ \A p \in Servers : pc[p] \notin Idle => runtime
  /\ \A p \in Servers : pc[p] = "unlink" => socket # None
  /\ \A p \in Servers : pc[p] = "bind" => socket = None

(* Beside the lock's holder nobody touches the socket, and beside any      *)
(* service nobody the directory.                                           *)
LEMMA FilesInvariant == ASSUME Patient PROVE Spec => []Files
<1>1. Init => Files
  BY DEF Init, Files, Idle, Procs
<1>2. ASSUME IInv, Files, [Next]_vars PROVE Files'
  <2> USE EndpointAssumption DEF Files, Idle, Holding, Opened, Starting, Probed, Inodes, Procs, Goto
  <2>1. CASE UNCHANGED vars
    BY <1>2, <2>1 DEF vars
  <2>2. ASSUME NEW p \in Servers, ServerNext(p) PROVE Files'
    <3>1. CASE prepare_private_dir(p)
      BY <1>2, <2>2, <3>1 DEF IInv, Types, Locks, prepare_private_dir, Gone, Listening
    <3>2. CASE OpenLock(p)
      BY <1>2, <2>2, <3>2 DEF IInv, Types, Locks, OpenLock, Gone, Listening
    <3>3. CASE TryLock(p)
      BY <1>2, <2>2, <3>3 DEF IInv, Types, Locks, TryLock, Gone, Listening
    <3>4. CASE clear_stale_socket(p)
      BY <1>2, <2>2, <3>4 DEF IInv, Types, Locks, clear_stale_socket, Gone, Listening
    <3>5. CASE Unlink(p)
      BY <1>2, <2>2, <3>5 DEF IInv, Types, Locks, Unlink, Gone, Listening
    <3>6. CASE Bind(p)
      BY <1>2, <2>2, <3>6 DEF IInv, Types, Locks, Bind, Gone, Listening
    <3>7. CASE OpenDatabase(p)
      BY <1>2, <2>2, <3>7 DEF IInv, Types, Locks, OpenDatabase, Gone, Listening
    <3>8. CASE Stop(p)
      BY <1>2, <2>2, <3>8 DEF IInv, Types, Locks, Stop, Gone, Listening
    <3>9. CASE RemoveSocket(p)
      BY <1>2, <2>2, <3>9 DEF IInv, Types, Locks, RemoveSocket, Gone, Listening
    <3>10. CASE Close(p)
      BY <1>2, <2>2, <3>10 DEF IInv, Types, Locks, Close, Gone, Listening
    <3>11. CASE Die(p)
      BY <1>2, <2>2, <3>11 DEF IInv, Types, Locks, Die, Gone, Listening
    <3> QED
      BY <2>2, <3>1, <3>2, <3>3, <3>4, <3>5, <3>6, <3>7, <3>8, <3>9, <3>10, <3>11 DEF ServerNext
  <2>3. ASSUME NEW n \in Nukers, NukeNext(n) PROVE Files'
    BY <1>2, <2>3 DEF IInv, Types, Apart, NukeNext, Targets, nuke_probe_locks, Confirm, RemoveState, RemoveRuntime
  <2> QED
    BY <1>2, <2>1, <2>2, <2>3 DEF Next
<1> QED
  BY <1>1, <1>2, EndpointInvariant, PTL DEF Spec

(* A service whose start is refused has another process of it to blame:    *)
(* after any sequence of kills and nukes, one that starts alone comes up.  *)
THEOREM AloneComesUp == ASSUME Patient PROVE Spec => RefusedBesideAnother
<1>1. ASSUME IInv, Files, [Next]_vars, NEW p \in Servers, pc[p] # "refused", pc'[p] = "refused"
      PROVE  \E q \in Servers \ {p} : pc[q] \notin {"off", "refused"}
  <2> USE EndpointAssumption DEF Idle, Holding, Opened, Procs, Inodes
  <2>1. pc \in [Procs -> Idle \cup Opened \cup {"lock", "probe"} \cup Probed]
    BY <1>1 DEF IInv, Types
  <2>2. ServerNext(p)
    <3>1. ASSUME NEW n \in Nukers, NukeNext(n) PROVE FALSE
      BY <1>1, <2>1, <3>1 DEF NukeNext, Targets, nuke_probe_locks, Confirm, RemoveState, RemoveRuntime, Goto
    <3>2. ASSUME NEW q \in Servers, ServerNext(q), q # p PROVE FALSE
      BY <1>1, <2>1, <3>2 DEF ServerNext, prepare_private_dir, OpenLock, TryLock, clear_stale_socket, Unlink, Bind,
         OpenDatabase, Stop, RemoveSocket, Close, Die, Gone, Goto
    <3> QED
      BY <1>1, <3>1, <3>2 DEF Next, vars
  <2>3. CASE TryLock(p)
    <3>1. opened[p] \in Inodes /\ holder[opened[p]] # None
      BY <1>1, <2>1, <2>3 DEF TryLock, IInv, Locks, Goto
    <3>2. holder[opened[p]] \in Servers /\ pc[holder[opened[p]]] \in Holding
      BY <1>1, <3>1 DEF IInv, Types, Locks
    <3> QED
      BY <2>3, <3>2 DEF TryLock
  <2>4. CASE clear_stale_socket(p)
    <3>1. socket # None /\ Listening(socket)
      BY <1>1, <2>1, <2>4 DEF clear_stale_socket, Goto
    <3> QED
      BY <1>1, <2>4, <3>1 DEF Files, Listening, clear_stale_socket
  <2>5. CASE OpenLock(p) \/ Unlink(p) \/ Bind(p)
    BY <1>1, <2>1, <2>5 DEF OpenLock, Unlink, Bind, Files, Goto
  <2>6. CASE \/ prepare_private_dir(p) \/ OpenDatabase(p) \/ Stop(p) \/ RemoveSocket(p) \/ Close(p) \/ Die(p)
    BY <1>1, <2>1, <2>6 DEF prepare_private_dir, OpenDatabase, Stop, RemoveSocket, Close, Die, Gone, Goto
  <2> QED
    BY <2>2, <2>3, <2>4, <2>5, <2>6 DEF ServerNext
<1>2. IInv /\ Files /\ [Next]_vars =>
        [\A p \in Servers : pc[p] # "refused" /\ pc'[p] = "refused" =>
           \E q \in Servers \ {p} : pc[q] \notin {"off", "refused"}]_vars
  BY <1>1
<1> QED
  BY <1>2, EndpointInvariant, FilesInvariant, PTL DEF Spec, RefusedBesideAnother

(* A service is exclusive (ServiceIsExclusive): through every interleaving of *)
(* starts, kills, stops and nukes, one process serves at its own socket, a    *)
(* start that is refused had another process beside it, and a nuke spares a   *)
(* service that runs.                                                         *)
THEOREM ServiceStaysExclusive == ASSUME Patient PROVE Spec => ServiceIsExclusive
BY NeverTwoServers, NeverDisplaced, NukeIsSafe, AloneComesUp, PTL DEF ServiceIsExclusive

=============================================================================
