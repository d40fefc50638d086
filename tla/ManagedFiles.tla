---------------------------- MODULE ManagedFiles ----------------------------
(***************************************************************************)
(* The managed files of pi (manage_extension_in, pi.rs: one extension with *)
(* an ownership marker) and of Antigravity (manage_plugin_in, agy.rs: a    *)
(* plugin directory with plugin.json and hooks.json): setup, doctor and    *)
(* remove run by several processes, step by file system step, each of      *)
(* which may be killed, beside a user who writes the same files.           *)
(*                                                                         *)
(* The content of a file is the executable it was rendered for, "user" for *)
(* anything without the marker, or None.  pi's only file is "hooks";       *)
(* plugin.json is the same for every executable.  A lock file is an inode: *)
(* agy unlinks it when it is done, pi leaves it.                           *)
(***************************************************************************)
EXTENDS Integers, FiniteSets

CONSTANTS
  None,        \* absent value
  Kind,        \* "pi" or "agy"
  Procs,       \* sessiontap processes
  Exes,        \* executables setup may run from
  Races,       \* the user also writes while setup runs
  MaxRuns,     \* bound on runs
  MaxEdits     \* bound on the user's writes

KindAssumption == Kind \in {"pi", "agy"} /\ Races \in BOOLEAN

VARIABLES
  plugin,      \* plugin.json
  hooks,       \* hooks.json, or pi's extension
  dir,         \* the plugin directory exists
  disabled,    \* Antigravity's config.json disables the plugin
  lockfile,    \* the inode at the lock path, None when there is none
  locked,      \* locked inodes
  inodes,      \* inodes made so far
  proc, runs, edits

files == <<plugin, hooks, dir, disabled>>
lockvars == <<lockfile, locked, inodes>>
vars == <<files, lockvars, proc, runs, edits>>

Idle == [pc |-> "idle", action |-> None, exe |-> None, plugin |-> None, hooks |-> None,
         inode |-> None, result |-> None, alone |-> TRUE]

Init ==
  /\ plugin = None
  /\ hooks \in {None, "user"}
  /\ dir = (hooks # None \/ Kind = "pi")
  /\ disabled = FALSE
  /\ lockfile = None
  /\ locked = {}
  /\ inodes = 0
  /\ proc = [p \in Procs |-> Idle]
  /\ runs = 0
  /\ edits = 0

-----------------------------------------------------------------------------
Busy(p) == proc[p].pc # "idle"
Go(p, pc) == proc' = [proc EXCEPT ![p].pc = pc]
End(p, result) == proc' = [proc EXCEPT ![p].pc = "idle", ![p].result = result]
At(p, pc) == proc[p].pc = pc
Does(p, action) == proc[p].action = action

is_owned(content) == content \in Exes

Matches(p) == proc[p].hooks = proc[p].exe /\ (Kind = "agy" => proc[p].plugin = "plugin")

(* A run is alone when no other run and no write of the user overlaps it. *)
Begin(p, action, exe) ==
  /\ ~ Busy(p) /\ runs < MaxRuns
  /\ runs' = runs + 1
  /\ proc' = [q \in Procs |->
       IF q = p THEN [Idle EXCEPT !.pc = "read", !.action = action, !.exe = exe,
                                  !.alone = \A r \in Procs \ {p} : ~ Busy(r)]
       ELSE IF Busy(q) THEN [proc[q] EXCEPT !.alone = FALSE] ELSE proc[q]]
  /\ UNCHANGED <<files, lockvars, edits>>

(* The files are read one after the other, before any lock. *)
ReadPlugin(p) ==
  /\ At(p, "read")
  /\ proc' = [proc EXCEPT ![p].plugin = plugin, ![p].pc = "read_hooks"]
  /\ UNCHANGED <<files, lockvars, runs, edits>>

ReadHooks(p) ==
  /\ At(p, "read_hooks")
  /\ proc' = [proc EXCEPT ![p].hooks = hooks,
                          ![p].pc = IF Does(p, "Ensure") THEN "decide"
                                    ELSE IF Does(p, "Doctor") THEN "doctor" ELSE "remove"]
  /\ UNCHANGED <<files, lockvars, runs, edits>>

(* Mutant: a file of any executable's is up to date. *)
Ensure_Owned(p) ==
  /\ At(p, "decide")
  /\ IF proc[p].hooks # None
       THEN End(p, IF is_owned(proc[p].hooks) THEN "healthy" ELSE "refused") /\ UNCHANGED dir
     ELSE Go(p, "open") /\ dir' = TRUE
  /\ UNCHANGED <<plugin, hooks, disabled, lockvars, runs, edits>>

(* pi refuses a file that is not its own; both stop when nothing differs. *)
Ensure(p) ==
  /\ At(p, "decide")
  /\ IF Kind = "pi" /\ proc[p].hooks # None /\ ~ is_owned(proc[p].hooks)
       THEN End(p, "refused") /\ UNCHANGED dir
     ELSE IF Matches(p) THEN End(p, "healthy") /\ UNCHANGED dir
     ELSE Go(p, "open") /\ dir' = TRUE
  /\ UNCHANGED <<plugin, hooks, disabled, lockvars, runs, edits>>

(* The directory may be gone again by now. *)
OpenLock(p) ==
  /\ At(p, "open")
  /\ IF ~ dir THEN End(p, "error") /\ UNCHANGED lockvars
     ELSE /\ inodes' = IF lockfile = None THEN inodes + 1 ELSE inodes
          /\ lockfile' = inodes'
          /\ proc' = [proc EXCEPT ![p].pc = "lock", ![p].inode = inodes']
          /\ UNCHANGED locked
  /\ UNCHANGED <<files, runs, edits>>

(* The lock file at the path is always the newest inode, so that an opened    *)
(* one is either it or unlinked.                                              *)
TakeLock(p) ==
  /\ At(p, "lock") /\ proc[p].inode \notin locked
  /\ locked' = locked \cup {proc[p].inode}
  /\ Go(p, IF Kind = "pi" THEN "write_hooks" ELSE "write_plugin")
  /\ UNCHANGED <<files, lockfile, inodes, runs, edits>>

(* atomic_write makes its temporary file in the directory, or fails. *)
WritePlugin(p) ==
  /\ At(p, "write_plugin")
  /\ IF dir THEN plugin' = "plugin" /\ Go(p, "write_hooks") /\ UNCHANGED locked
     ELSE End(p, "error") /\ locked' = locked \ {proc[p].inode} /\ UNCHANGED plugin
  /\ UNCHANGED <<hooks, dir, disabled, lockfile, inodes, runs, edits>>

(* pi returns here and its lock goes with the handle. *)
WriteHooks(p) ==
  /\ At(p, "write_hooks")
  /\ locked' = locked \ {proc[p].inode}
  /\ IF ~ dir THEN End(p, "error") /\ UNCHANGED hooks
     ELSE /\ hooks' = proc[p].exe
          /\ IF Kind = "pi" THEN End(p, "installed") ELSE Go(p, "unlink")
  /\ UNCHANGED <<plugin, dir, disabled, lockfile, inodes, runs, edits>>

(* By then the lock file may be another run's. *)
UnlinkLock(p) ==
  /\ At(p, "unlink")
  /\ lockfile' = None
  /\ End(p, "installed")
  /\ UNCHANGED <<files, locked, inodes, runs, edits>>

Doctor(p) ==
  /\ At(p, "doctor")
  /\ End(p, IF Matches(p) /\ ~ (Kind = "agy" /\ disabled) THEN "healthy" ELSE "unhealthy")
  /\ UNCHANGED <<files, lockvars, runs, edits>>

(* pi deletes what it read to be its own, agy what exists. *)
RemovePi(p) ==
  /\ At(p, "remove") /\ Kind = "pi"
  /\ IF is_owned(proc[p].hooks)
       THEN IF hooks # None THEN hooks' = None /\ End(p, "removed")
            ELSE UNCHANGED hooks /\ End(p, "error")
       ELSE UNCHANGED hooks /\ End(p, "absent")
  /\ UNCHANGED <<plugin, dir, disabled, lockvars, runs, edits>>

RemovePlugin(p) ==
  /\ At(p, "remove") /\ Kind = "agy"
  /\ plugin' = None
  /\ Go(p, "remove_hooks")
  /\ UNCHANGED <<hooks, dir, disabled, lockvars, runs, edits>>

RemoveHooks(p) ==
  /\ At(p, "remove_hooks")
  /\ hooks' = None
  /\ Go(p, "rmdir")
  /\ UNCHANGED <<plugin, dir, disabled, lockvars, runs, edits>>

(* Best effort: only an empty directory goes. *)
RemoveDir(p) ==
  /\ At(p, "rmdir")
  /\ dir' = (dir /\ ~ (plugin = None /\ hooks = None /\ lockfile = None))
  /\ End(p, "removed")
  /\ UNCHANGED <<plugin, hooks, disabled, lockvars, runs, edits>>

Killed(p) ==
  /\ Busy(p)
  /\ locked' = IF proc[p].pc \in {"write_plugin", "write_hooks"}
                 THEN locked \ {proc[p].inode} ELSE locked
  /\ End(p, "killed")
  /\ UNCHANGED <<files, lockfile, inodes, runs, edits>>

(* The user writes or deletes the file at the managed path. *)
UserWrites(content) ==
  /\ edits < MaxEdits /\ (Races \/ \A p \in Procs : ~ Busy(p))
  /\ content # hooks
  /\ hooks' = content
  /\ dir' = (dir \/ content # None)
  /\ edits' = edits + 1
  /\ proc' = [p \in Procs |-> [proc[p] EXCEPT !.alone = FALSE]]
  /\ UNCHANGED <<plugin, disabled, lockvars, runs>>

UserToggles ==
  /\ Kind = "agy" /\ edits < MaxEdits
  /\ disabled' = ~ disabled
  /\ edits' = edits + 1
  /\ UNCHANGED <<plugin, hooks, dir, lockvars, proc, runs>>

Step(p) ==
  \/ ReadPlugin(p) \/ ReadHooks(p) \/ Ensure(p) \/ OpenLock(p) \/ TakeLock(p)
  \/ WritePlugin(p) \/ WriteHooks(p) \/ UnlinkLock(p) \/ Doctor(p)
  \/ RemovePi(p) \/ RemovePlugin(p) \/ RemoveHooks(p) \/ RemoveDir(p)

Next ==
  \/ \E p \in Procs, action \in {"Ensure", "Doctor", "Remove"}, exe \in Exes : Begin(p, action, exe)
  \/ \E p \in Procs : Step(p) \/ Killed(p)
  \/ \E content \in {None, "user"} : UserWrites(content)
  \/ UserToggles

Spec == Init /\ [][Next]_vars

-----------------------------------------------------------------------------
TypeOK ==
  /\ plugin \in {None, "plugin"}
  /\ hooks \in {None, "user"} \cup Exes
  /\ lockfile \in {None} \cup 1 .. inodes
  /\ locked \subseteq 1 .. inodes

(* A run of setup that nothing overlapped leaves everything its executable    *)
(* needs, whatever a killed run, another executable or a half-done remove     *)
(* left behind; one that pi refuses leaves the file alone.                    *)
AloneInstalls ==
  \A p \in Procs :
     /\ Busy(p) /\ ~ Busy(p)' /\ Does(p, "Ensure")
     /\ proc[p].alone /\ proc'[p].result \in {"healthy", "installed"}
     => hooks' = proc[p].exe /\ (Kind = "agy" => plugin' = "plugin")

(* Doctor calls healthy only a complete installation of its own executable,   *)
(* never the half a killed setup left nor a plugin that is disabled.          *)
DoctorIsRight ==
  \A p \in Procs :
     /\ At(p, "doctor") /\ proc[p].alone /\ proc'[p].result = "healthy"
     => hooks = proc[p].exe /\ (Kind = "agy" => plugin = "plugin" /\ ~ disabled)

(* agent-hook-adapters: pi's removal "SHALL delete only the marked SessionTap *)
(* file" and setup is not to "create, modify, or remove any other extension": *)
(* no run changes a file without the marker.                                  *)
ForeignFileKept ==
  hooks = "user" /\ edits' = edits => hooks' = hooks

=============================================================================
