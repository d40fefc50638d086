----------------------------- MODULE HookConfig -----------------------------
(***************************************************************************)
(* merge_hook_config (sessiontap-adapters lib.rs): how setup, doctor and   *)
(* remove edit the hook configuration a provider shares with its user,     *)
(* run by several processes at once, any of which may be killed.           *)
(*                                                                         *)
(* A configuration maps hook events to sequences of groups, a group is the *)
(* sequence of its handlers.  A handler is the user's or SessionTap's for  *)
(* one executable.  `pretty` says whether the bytes are the ones           *)
(* serde_json renders; the rest of the file is carried through unchanged   *)
(* and left out.  The user edits between the runs of setup.                *)
(***************************************************************************)
EXTENDS Integers, Sequences, SequencesExt, FiniteSets

CONSTANTS
  None,        \* absent value
  Procs,       \* sessiontap processes
  Events,      \* events of the provider (HOOK_EVENTS)
  Others,      \* events setup does not register
  Exes,        \* executables setup may run from
  Users,       \* the user's own handlers
  MaxRuns,     \* bound on runs of setup
  MaxEdits     \* bound on the user's edits

HandlersAssumption == Exes \cap Users = {} /\ Events \cap Others = {}

VARIABLES
  file,        \* the configuration file
  lock,        \* who holds the sibling lock file
  proc,        \* the processes
  last,        \* what the last completed run did, None after an edit
  before,      \* the groups before the first run since the user's last edit
  runs, edits

vars == <<file, lock, proc, last, before, runs, edits>>

Actions == {"Ensure", "Doctor", "Remove"}
Idle == [pc |-> "idle", action |-> None, exe |-> None, read |-> None, healthy |-> None]
AllEvents == Events \cup Others
NoHooks == [e \in {} |-> <<>>]

Init ==
  /\ file \in {[state |-> "absent", hooks |-> NoHooks, pretty |-> FALSE],
               [state |-> "valid", hooks |-> NoHooks, pretty |-> FALSE],
               [state |-> "dangling", hooks |-> NoHooks, pretty |-> FALSE]}
  /\ lock = None
  /\ proc = [p \in Procs |-> Idle]
  /\ last = None
  /\ before = NoHooks
  /\ runs = 0
  /\ edits = 0

-----------------------------------------------------------------------------
(* The edit. *)

owned_handler(h) == h \in Exes


(* Our handlers leave their groups; a group left, or found, empty goes. *)
WithoutOwned(groups) ==
  SelectSeq([n \in DOMAIN groups |-> SelectSeq(groups[n], LAMBDA h : ~ owned_handler(h))],
            LAMBDA g : g # <<>>)

Groups(hooks, e) == IF e \in DOMAIN hooks THEN hooks[e] ELSE <<>>

Merged(hooks, action, exe) ==
  [e \in DOMAIN hooks \cup Events |->
     WithoutOwned(Groups(hooks, e))
       \o (IF e \in Events /\ action # "Remove" THEN <<<<exe>>>> ELSE <<>>)]

-----------------------------------------------------------------------------
(* A run of setup, doctor or remove. *)

Goto(p, pc) == proc' = [proc EXCEPT ![p].pc = pc]

Finish(p, healthy) == proc' = [proc EXCEPT ![p].pc = "idle", ![p].healthy = healthy,
                                           ![p].read = None]

(* resolve_config_link: a dangling link is an error before anything happens. *)
Begin(p, action, exe) ==
  /\ proc[p].pc = "idle" /\ runs < MaxRuns
  /\ runs' = runs + 1
  /\ IF file.state = "dangling" THEN UNCHANGED proc
     ELSE proc' = [proc EXCEPT ![p] = [Idle EXCEPT !.pc = "lock", !.action = action,
                                                   !.exe = exe]]
  /\ UNCHANGED <<file, lock, last, before, edits>>

LockConfig(p) ==
  /\ proc[p].pc = "lock" /\ lock = None
  /\ lock' = p
  /\ Goto(p, "read")
  /\ UNCHANGED <<file, last, before, runs, edits>>

(* An invalid file ends the run with an error. *)
Read(p) ==
  /\ proc[p].pc = "read"
  /\ IF file.state = "invalid"
       THEN Finish(p, None) /\ lock' = None
       ELSE /\ proc' = [proc EXCEPT ![p].pc = "write", ![p].read = file]
            /\ UNCHANGED lock
  /\ UNCHANGED <<file, last, before, runs, edits>>

Rendered(p) ==
  [state |-> "valid", pretty |-> TRUE,
   hooks |-> Merged(proc[p].read.hooks, proc[p].action, proc[p].exe)]

Doctor(p) ==
  /\ proc[p].pc = "write" /\ proc[p].action = "Doctor"
  /\ Finish(p, Rendered(p) = proc[p].read)
  /\ lock' = None
  /\ UNCHANGED <<file, last, before, runs, edits>>

(* atomic_write, then the lock goes with the handle. *)
Write(p) ==
  /\ proc[p].pc = "write" /\ proc[p].action # "Doctor"
  /\ file' = Rendered(p)
  /\ last' = [action |-> proc[p].action, exe |-> proc[p].exe]
  /\ before' = IF last = None THEN proc[p].read.hooks ELSE before
  /\ Finish(p, TRUE)
  /\ lock' = None
  /\ UNCHANGED <<runs, edits>>

(* A killed process loses its lock; what it had not renamed is not there. *)
Killed(p) ==
  /\ proc[p].pc # "idle"
  /\ Finish(p, None)
  /\ lock' = IF lock = p THEN None ELSE lock
  /\ UNCHANGED <<file, last, before, runs, edits>>

-----------------------------------------------------------------------------
(* The user. *)

NobodyRuns == \A p \in Procs : proc[p].pc = "idle"

Saved(new) ==
  /\ NobodyRuns /\ edits < MaxEdits
  /\ file' = new
  /\ edits' = edits + 1
  /\ last' = None
  /\ proc' = [p \in Procs |-> Idle]
  /\ UNCHANGED <<lock, before, runs>>

UserAddsGroup(e, h) ==
  /\ file.state \in {"valid", "absent"}
  /\ Saved([state |-> "valid", pretty |-> TRUE,
            hooks |-> [x \in DOMAIN file.hooks \cup {e} |->
                         IF x = e THEN Append(Groups(file.hooks, e), <<h>>) ELSE file.hooks[x]]])

(* A handler is added to a group that is there, ours included. *)
UserAddsHandler(e, h) ==
  /\ file.state = "valid" /\ Groups(file.hooks, e) # <<>>
  /\ Saved([file EXCEPT !.hooks[e][1] = Append(@, h)])

UserBreaks ==
  /\ file.state = "valid"
  /\ Saved([file EXCEPT !.state = "invalid"])

Next ==
  \/ \E p \in Procs, action \in Actions, exe \in Exes : Begin(p, action, exe)
  \/ \E p \in Procs : LockConfig(p) \/ Read(p) \/ Doctor(p) \/ Write(p) \/ Killed(p)
  \/ \E e \in AllEvents, h \in Users : UserAddsGroup(e, h) \/ UserAddsHandler(e, h)
  \/ UserBreaks

Spec == Init /\ [][Next]_vars

-----------------------------------------------------------------------------
Handlers(hooks, e) == FlattenSeq(Groups(hooks, e))

UserHandlers(hooks, e) == SelectSeq(Handlers(hooks, e), LAMBDA h : h \in Users)

OwnedHandlers(hooks, e) == SelectSeq(Handlers(hooks, e), owned_handler)

TypeOK ==
  /\ file.state \in {"absent", "valid", "invalid", "dangling"}
  /\ DOMAIN file.hooks \subseteq AllEvents
  /\ lock \in Procs \cup {None}
  /\ \A p \in Procs : proc[p].pc \in {"read", "write"} => lock = p

(* agent-hook-adapters: setup will "preserve user-authored entries and        *)
(* ordering": whatever runs at once and whoever is killed, no run of setup,   *)
(* doctor or remove loses, adds or reorders a handler of the user's, also one *)
(* put into a group of ours.                                                  *)
UserHandlersSurvive ==
  [][edits' = edits =>
       \A e \in AllEvents : UserHandlers(file'.hooks, e) = UserHandlers(file.hooks, e)]_vars

(* "atomically and idempotently add only its own hook entries": after the     *)
(* last run that completed, every registered event has exactly the handler of *)
(* the executable that ran, or none after remove, and no other event has any, *)
(* also when several executables take turns.                                  *)
OwnedMatchLastRun ==
  last # None =>
    \A e \in AllEvents :
      OwnedHandlers(file.hooks, e) =
        IF last.action = "Ensure" /\ e \in Events THEN <<last.exe>> ELSE <<>>

(* "diagnose invalid configuration without overwriting it": a file that does  *)
(* not parse, or a link to nowhere, changes only by its user's hand.          *)
InvalidIsKept ==
  [][file.state \in {"invalid", "dangling"} /\ edits' = edits => file' = file]_vars

(* Doctor changes nothing, and calls healthy only a configuration in which    *)
(* every registered event runs its executable's handler once.                 *)
DoctorIsHonest ==
  [][\A p \in Procs :
       proc[p].action = "Doctor" /\ proc[p].pc = "write" /\ proc'[p].pc = "idle" =>
         /\ file' = file
         /\ proc'[p].healthy = TRUE =>
              \A e \in Events : OwnedHandlers(file.hooks, e) = <<proc[p].exe>>]_vars

=============================================================================
