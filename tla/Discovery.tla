----------------------------- MODULE Discovery -----------------------------
(***************************************************************************)
(* The wildcard remote listener and its DNS-SD announcement: the           *)
(* supervised bind of sessiontap-hub/src/remote.rs, discovery.rs and the   *)
(* address list of endpoints.rs. Every successful bind starts an           *)
(* announcement task; it is cancelled when the listener fails, and runs on *)
(* by itself until it notices. mDNS is modelled by the record it answers   *)
(* with. An interface is [ip, up, bridge, local, v6].                      *)
(***************************************************************************)
EXTENDS Naturals, FiniteSets

CONSTANTS
  None,
  Hosts,         \* sets of interfaces the host may have
  WildcardV6,    \* whether the wildcard is [::]
  INITIAL, MAX,  \* BIND_BACKOFF
  MaxBinds,      \* bound: successful binds
  MaxChanges,    \* bound: changes of the host's interfaces
  MaxFaults      \* bound: bind failures and mDNS errors

DiscoveryAssumption ==
  /\ INITIAL \in Nat \ {0} /\ MAX \in Nat /\ INITIAL <= MAX
  /\ {MaxBinds, MaxChanges, MaxFaults} \subseteq Nat /\ WildcardV6 \in BOOLEAN

VARIABLES
  host,       \* the interfaces now
  listener,   \* binding, waiting or bound
  delay,      \* the last wait of the streak, 0 before one
  binds,      \* successful binds so far
  task,       \* per bind, its announcement task: [at, stop, addresses]
  current,    \* Inner.current: the addresses announced, or None
  published,  \* the addresses mDNS answers with, or None
  process,    \* running, withdrawn, closed, exited
  changes, faults

vars == <<host, listener, delay, binds, task, current, published, process, changes, faults>>

Binds == 1..MaxBinds
NoTask == [at |-> "none", stop |-> FALSE, addresses |-> {}]

Init ==
  /\ host \in Hosts /\ listener = "binding" /\ delay = 0 /\ binds = 0
  /\ task = [b \in Binds |-> NoTask]
  /\ current = None /\ published = None /\ process = "running"
  /\ changes = 0 /\ faults = 0

Running == process # "exited"

-----------------------------------------------------------------------------
(* Addresses                                                               *)

(* An interface that is up, is no bridge, has no loopback or link-local     *)
(* address, and is of a family the wildcard covers.                         *)
usable(interface) ==
  /\ interface.up /\ ~interface.bridge /\ ~interface.local
  /\ interface.v6 => WildcardV6

wildcard_addresses(interfaces) == {i.ip : i \in {j \in interfaces : usable(j)}}

HostChanges ==
  /\ changes < MaxChanges /\ changes' = changes + 1
  /\ host' \in Hosts \ {host}
  /\ UNCHANGED <<listener, delay, binds, task, current, published, process, faults>>

-----------------------------------------------------------------------------
(* The supervised listener                                                 *)

(* Backoff::next. *)
next(previous) ==
  IF previous = 0 THEN INITIAL ELSE IF previous * 2 < MAX THEN previous * 2 ELSE MAX

BindFails ==
  /\ Running /\ listener = "binding" /\ faults < MaxFaults /\ faults' = faults + 1
  /\ delay' = next(delay) /\ listener' = "waiting"
  /\ UNCHANGED <<host, binds, task, current, published, process, changes>>

WaitOver ==
  /\ Running /\ listener = "waiting" /\ listener' = "binding"
  /\ UNCHANGED <<host, delay, binds, task, current, published, process, changes, faults>>

(* Bound: announce spawns a task for this bind. *)
Bind ==
  /\ Running /\ listener = "binding" /\ binds < MaxBinds
  /\ listener' = "bound" /\ binds' = binds + 1
  /\ task' = [task EXCEPT ![binds + 1].at = "read"]
  /\ UNCHANGED <<host, delay, current, published, process, changes, faults>>

(* Dropping the Announcement cancels its task. *)
Stopped(t) == [t EXCEPT !.stop = TRUE]

(* The accept loop fails: the announcement is dropped and a streak starts. *)
ServeFails ==
  /\ Running /\ listener = "bound" /\ binds < MaxBinds
  /\ task' = [task EXCEPT ![binds] = Stopped(@)]
  /\ delay' = next(0) /\ listener' = "waiting"
  /\ UNCHANGED <<host, binds, current, published, process, changes, faults>>

-----------------------------------------------------------------------------
(* An announcement task                                                    *)

Alive(b) == Running /\ task[b].at # "none"

(* The outcomes of Publisher::unregister for what mDNS answers with. *)
Unregistered == {[published |-> None, failed |-> FALSE]}
                \cup IF faults < MaxFaults THEN {[published |-> published, failed |-> TRUE]} ELSE {}

Count(failed) == faults' = faults + (IF failed THEN 1 ELSE 0)

(* refresh lists the interfaces before it takes the lock. *)
RefreshRead(b) ==
  /\ Alive(b) /\ task[b].at = "read"
  /\ task' = [task EXCEPT ![b].at = "apply", ![b].addresses = wildcard_addresses(host)]
  /\ UNCHANGED <<host, listener, delay, binds, current, published, process, changes, faults>>

(* The record is the announced one already. *)
Same(b) == current # None /\ current = task[b].addresses

(* Mutant: the record is remembered before it is registered. *)
Refused_Kept(b) == task[b].addresses

(* What is remembered when mDNS refuses the record. *)
Refused(b) == None

(* refresh under the lock: nothing when the record is the same; else the    *)
(* old one is withdrawn and the new one, unless empty, is registered.       *)
RefreshApply(b) ==
  LET addresses == task[b].addresses IN
  /\ Alive(b) /\ task[b].at = "apply"
  /\ task' = [task EXCEPT ![b].at = "sleep"]
  /\ \/ Same(b) /\ UNCHANGED <<current, published, faults>>
     \/ /\ ~Same(b)
        /\ \E gone \in IF current = None THEN {[published |-> published, failed |-> FALSE]}
                       ELSE Unregistered :
             \/ /\ addresses = {} /\ current' = None /\ published' = gone.published
                /\ Count(gone.failed)
             \/ /\ addresses # {} /\ current' = addresses /\ published' = addresses
                /\ Count(gone.failed)
             \/ /\ addresses # {} /\ current' = Refused(b) /\ published' = gone.published
                /\ ~gone.failed /\ faults < MaxFaults /\ Count(TRUE)
  /\ UNCHANGED <<host, listener, delay, binds, process, changes>>

(* The poll interval is over. *)
Poll(b) ==
  /\ Alive(b) /\ task[b].at = "sleep" /\ ~task[b].stop
  /\ task' = [task EXCEPT ![b].at = "read"]
  /\ UNCHANGED <<host, listener, delay, binds, current, published, process, changes, faults>>

(* withdraw takes the record, whichever task registered it. *)
withdraw ==
  IF current = None THEN UNCHANGED <<current, published, faults>>
  ELSE /\ current' = None
       /\ \E gone \in Unregistered : published' = gone.published /\ Count(gone.failed)

(* The task notices that it was cancelled, withdraws and ends. *)
Withdraw(b) ==
  /\ Alive(b) /\ task[b].at = "sleep" /\ task[b].stop
  /\ task' = [task EXCEPT ![b] = NoTask]
  /\ withdraw
  /\ UNCHANGED <<host, listener, delay, binds, process, changes>>

-----------------------------------------------------------------------------
(* The hub stops: discovery withdraws its record and closes the backend,    *)
(* then the process exits with its tasks.                                   *)
ShutdownWithdraws ==
  /\ process = "running" /\ process' = "withdrawn"
  /\ withdraw
  /\ UNCHANGED <<host, listener, delay, binds, task, changes>>

PublisherShutdown ==
  /\ process = "withdrawn" /\ process' = "closed"
  /\ published' = None
  /\ UNCHANGED <<host, listener, delay, binds, task, current, changes, faults>>

Exit ==
  /\ process = "closed" /\ process' = "exited"
  /\ UNCHANGED <<host, listener, delay, binds, task, current, published, changes, faults>>

Next ==
  \/ HostChanges \/ BindFails \/ WaitOver \/ Bind \/ ServeFails
  \/ \E b \in Binds : RefreshRead(b) \/ RefreshApply(b) \/ Poll(b) \/ Withdraw(b)
  \/ ShutdownWithdraws \/ PublisherShutdown \/ Exit

Spec == Init /\ [][Next]_vars

-----------------------------------------------------------------------------
(* The state has its declared shape; the waits stay within the backoff.     *)
TypeOK ==
  /\ listener \in {"binding", "waiting", "bound"} /\ binds \in 0..MaxBinds
  /\ delay = 0 \/ delay \in INITIAL..MAX
  /\ \A b \in Binds : task[b].at \in {"none", "read", "apply", "sleep"}

(* What the hub believes it announces is what mDNS answers with, through    *)
(* overlapping announcement tasks, errors and address changes.              *)
BelievedIsPublished == process = "running" /\ current # None => published = current

(* No announcement offers an address of an interface that must not be       *)
(* announced.                                                               *)
NothingPrivate ==
  published # None =>
    published \subseteq {i.ip : i \in UNION {{j \in h : ~j.local /\ ~j.bridge} : h \in Hosts}}

(* The announcement follows the listener and the addresses: once bound for  *)
(* good, with addresses that stay, mDNS answers with exactly these          *)
(* (spec.md "announce again once bound").                                   *)
Settled == process = "running" /\ listener = "bound" /\ wildcard_addresses(host) # {}

AnnouncementFollows ==
  <>[](Settled /\ faults = MaxFaults /\ changes = MaxChanges)
    => <>[](published = wildcard_addresses(host))

=============================================================================
