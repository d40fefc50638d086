------------------------------ MODULE Endpoint ------------------------------
(***************************************************************************)
(* The private Unix endpoint every SessionTap service owns (the daemon,    *)
(* the hub and the hook inspector, infra/socket.rs): a lock file, a socket *)
(* file and a state directory, under processes that start, stop, fail and  *)
(* are killed at any step, and under `sessiontap nuke`, which deletes them *)
(* (sessiontap/src/main.rs).                                               *)
(*                                                                         *)
(* Files are inodes: a lock is held on the inode a process opened, whatever*)
(* the path names by then.  The modes of files and directories, and who    *)
(* owns them, are left out.                                                *)
(***************************************************************************)
EXTENDS Naturals, FiniteSets

CONSTANTS
  None,       \* absent value
  Servers,    \* processes of one service
  Nukers,     \* processes of `sessiontap nuke`
  MaxInodes,  \* bound on lock files and databases created
  Patient     \* services do not start while a nuke runs, nor the other way round

ASSUME EndpointAssumption ==
  /\ Servers \cap Nukers = {} /\ None \notin Servers \cup Nukers
  /\ MaxInodes \in Nat /\ None \notin 1 .. MaxInodes
  /\ Patient \in BOOLEAN

VARIABLES
  pc,        \* where every process stands
  opened,    \* the lock inode a process has opened
  holder,    \* who holds each lock inode
  lockPath,  \* the lock inode at its path
  socket,    \* the process whose socket is at the path
  runtime,   \* the runtime directory exists
  database,  \* the database inode in the state directory
  uses,      \* the database inode a server has open
  inodes     \* inodes created

vars == <<pc, opened, holder, lockPath, socket, runtime, database, uses, inodes>>

Procs == Servers \cup Nukers

Init ==
  /\ pc = [p \in Procs |-> "off"]
  /\ opened = [p \in Procs |-> None]
  /\ holder = [i \in 1 .. MaxInodes |-> None]
  /\ lockPath = None
  /\ socket = None
  /\ runtime = FALSE
  /\ database = None
  /\ uses = [p \in Servers |-> None]
  /\ inodes = 0

Goto(p, label) == pc' = [pc EXCEPT ![p] = label]

(* The process is gone: its handles and its listener with it, its files not. *)
Gone(p, label) ==
  /\ Goto(p, label)
  /\ opened' = [opened EXCEPT ![p] = None]
  /\ holder' = [i \in DOMAIN holder |-> IF holder[i] = p THEN None ELSE holder[i]]
  /\ uses' = IF p \in Servers THEN [uses EXCEPT ![p] = None] ELSE uses

Listening(p) == pc[p] \in {"database", "serving", "leaving", "closing"}

-----------------------------------------------------------------------------
(* A service. *)

(* prepare_private_dir of the runtime and the state directory. *)
prepare_private_dir(p) ==
  /\ pc[p] \in {"off", "refused"}
  /\ Patient => \A n \in Nukers : pc[n] = "off"
  /\ runtime' = TRUE
  /\ Goto(p, "lock")
  /\ UNCHANGED <<opened, holder, lockPath, socket, database, uses, inodes>>

(* acquire_exclusive_lock opens the path, creating it. *)
OpenLock(p) ==
  /\ pc[p] = "lock"
  /\ IF ~ runtime
       THEN Gone(p, "refused") /\ UNCHANGED <<lockPath, inodes>>
       ELSE /\ lockPath # None \/ inodes < MaxInodes
            /\ inodes' = IF lockPath = None THEN inodes + 1 ELSE inodes
            /\ lockPath' = IF lockPath = None THEN inodes' ELSE lockPath
            /\ opened' = [opened EXCEPT ![p] = lockPath']
            /\ Goto(p, "try")
            /\ UNCHANGED <<holder, uses>>
  /\ UNCHANGED <<socket, runtime, database>>

(* try_lock_exclusive: contention fails the start. *)
TryLock(p) ==
  /\ pc[p] = "try"
  /\ IF holder[opened[p]] # None
       THEN Gone(p, "refused")
       ELSE /\ holder' = [holder EXCEPT ![opened[p]] = p]
            /\ Goto(p, "clear")
            /\ UNCHANGED <<opened, uses>>
  /\ UNCHANGED <<lockPath, socket, runtime, database, inodes>>

(* A socket somebody listens on stays and fails the start; another is to be   *)
(* removed.                                                                   *)
clear_stale_socket(p) ==
  /\ pc[p] = "clear"
  /\ IF socket # None /\ Listening(socket)
       THEN Gone(p, "refused")
       ELSE /\ Goto(p, IF socket = None THEN "bind" ELSE "unlink")
            /\ UNCHANGED <<opened, holder, uses>>
  /\ UNCHANGED <<socket, lockPath, runtime, database, inodes>>

Unlink(p) ==
  /\ pc[p] = "unlink"
  /\ IF socket = None
       THEN Gone(p, "refused") /\ UNCHANGED socket
       ELSE /\ socket' = None
            /\ Goto(p, "bind")
            /\ UNCHANGED <<opened, holder, uses>>
  /\ UNCHANGED <<lockPath, runtime, database, inodes>>

Bind(p) ==
  /\ pc[p] = "bind"
  /\ IF socket # None \/ ~ runtime
       THEN Gone(p, "refused") /\ UNCHANGED socket
       ELSE /\ socket' = p
            /\ Goto(p, "database")
            /\ UNCHANGED <<opened, holder, uses>>
  /\ UNCHANGED <<lockPath, runtime, database, inodes>>

(* Storage::open, after the configuration was read and accepted. *)
OpenDatabase(p) ==
  /\ pc[p] = "database"
  /\ database # None \/ inodes < MaxInodes
  /\ inodes' = IF database = None THEN inodes + 1 ELSE inodes
  /\ database' = IF database = None THEN inodes' ELSE database
  /\ uses' = [uses EXCEPT ![p] = database']
  /\ Goto(p, "serving")
  /\ UNCHANGED <<opened, holder, lockPath, socket, runtime>>

(* Mutant: the lock is dropped first. *)
Stop_Unlocks(p) ==
  /\ pc[p] = "serving"
  /\ Goto(p, "leaving")
  /\ holder' = [i \in DOMAIN holder |-> IF holder[i] = p THEN None ELSE holder[i]]
  /\ UNCHANGED <<opened, lockPath, socket, runtime, database, uses, inodes>>

(* Ctrl+C ends the accept loop. *)
Stop(p) ==
  /\ pc[p] = "serving"
  /\ Goto(p, "leaving")
  /\ UNCHANGED <<opened, holder, lockPath, socket, runtime, database, uses, inodes>>

(* The socket file is removed by its path, and the lock dropped after it. *)
RemoveSocket(p) ==
  /\ pc[p] = "leaving"
  /\ socket' = None
  /\ Goto(p, "closing")
  /\ UNCHANGED <<opened, holder, lockPath, runtime, database, uses, inodes>>

Close(p) ==
  /\ pc[p] = "closing"
  /\ Gone(p, "off")
  /\ UNCHANGED <<lockPath, socket, runtime, database, inodes>>

(* Killed, or failed after the bind: main returns without removing anything. *)
Die(p) ==
  /\ pc[p] \notin {"off", "refused"}
  /\ Gone(p, "off")
  /\ UNCHANGED <<lockPath, socket, runtime, database, inodes>>

-----------------------------------------------------------------------------
(* nuke. *)

(* nuke_targets that exist; without one there is nothing to do. *)
Targets(n) ==
  /\ pc[n] = "off"
  /\ runtime \/ database # None
  /\ Patient => \A p \in Servers : pc[p] \in {"off", "refused", "serving"}
  /\ Goto(n, "probe")
  /\ UNCHANGED <<opened, holder, lockPath, socket, runtime, database, uses, inodes>>

(* The lock is taken and dropped again at once; a missing file is skipped. *)
nuke_probe_locks(n) ==
  /\ pc[n] = "probe"
  /\ IF lockPath # None /\ holder[lockPath] # None
       THEN Goto(n, "off")
       ELSE Goto(n, "confirm")
  /\ UNCHANGED <<opened, holder, lockPath, socket, runtime, database, uses, inodes>>

(* --yes, or the user's answer. *)
Confirm(n) ==
  /\ pc[n] = "confirm"
  /\ \E yes \in BOOLEAN : Goto(n, IF yes THEN "state" ELSE "off")
  /\ UNCHANGED <<opened, holder, lockPath, socket, runtime, database, uses, inodes>>

RemoveState(n) ==
  /\ pc[n] = "state"
  /\ database' = None
  /\ Goto(n, "runtime")
  /\ UNCHANGED <<opened, holder, lockPath, socket, runtime, uses, inodes>>

RemoveRuntime(n) ==
  /\ pc[n] = "runtime"
  /\ runtime' = FALSE /\ lockPath' = None /\ socket' = None
  /\ Goto(n, "off")
  /\ UNCHANGED <<opened, holder, database, uses, inodes>>

-----------------------------------------------------------------------------

ServerNext(p) ==
  \/ prepare_private_dir(p) \/ OpenLock(p) \/ TryLock(p) \/ clear_stale_socket(p) \/ Unlink(p)
  \/ Bind(p) \/ OpenDatabase(p) \/ Stop(p) \/ RemoveSocket(p) \/ Close(p) \/ Die(p)

NukeNext(n) ==
  Targets(n) \/ nuke_probe_locks(n) \/ Confirm(n) \/ RemoveState(n) \/ RemoveRuntime(n)

Next == (\E p \in Servers : ServerNext(p)) \/ (\E n \in Nukers : NukeNext(n))

Spec == Init /\ [][Next]_vars

-----------------------------------------------------------------------------

TypeOK ==
  /\ pc \in [Procs -> {"off", "refused", "lock", "try", "clear", "unlink", "bind", "database", "serving", "leaving",
                       "closing", "probe", "confirm", "state", "runtime"}]
  /\ holder \in [1 .. MaxInodes -> Servers \cup {None}]
  /\ lockPath \in 1 .. MaxInodes \cup {None}
  /\ uses \in [Servers -> 1 .. MaxInodes \cup {None}]

(* bind_private_unix_socket: two processes of a service never serve at once.  *)
OneServer ==
  \A p, q \in Servers : Listening(p) /\ Listening(q) => p = q

(* "A live listener is never displaced": the socket at the path is the        *)
(* serving process's, until it removes it itself.                             *)
SocketIsServers ==
  \A p \in Servers : pc[p] \in {"database", "serving", "leaving"} => socket = p

(* A service whose start is refused has another process of it to blame:       *)
(* whatever killed ones left behind, one that starts alone comes up.          *)
RefusedBesideAnother ==
  [][\A p \in Servers : pc[p] # "refused" /\ pc'[p] = "refused" =>
       \E q \in Servers \ {p} : pc[q] \notin {"off", "refused"}]_vars

(* data-reset: "abort with a non-zero exit and no deletion when any is held": *)
(* no directory is deleted under a service that holds its lock.               *)
NukeSparesRunning ==
  [][(database # None /\ database' = None) \/ (runtime /\ ~ runtime') =>
       \A i \in 1 .. MaxInodes : holder[i] = None]_vars

(* The whole of what a start and a nuke promise: one process serves, at its   *)
(* own socket, a start is refused beside another process only, and a nuke     *)
(* deletes nothing of a service that runs.                                    *)
ServiceIsExclusive ==
  [](OneServer /\ SocketIsServers) /\ RefusedBesideAnother /\ NukeSparesRunning

=============================================================================
