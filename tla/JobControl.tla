----------------------------- MODULE JobControl -----------------------------
(***************************************************************************)
(* The terminal and the signals of an interactive launch                   *)
(* (sessiontap/src/main.rs: launch, set_terminal_foreground and            *)
(* wait_with_signal_forwarding): the caller's shell, the wrapper and the   *)
(* provider are three process groups of one terminal.                      *)
(*                                                                         *)
(* The kernel and the shell are external: a process stopped by the         *)
(* terminal, what SIGCHLD tells, who may change the foreground group, and  *)
(* a shell that takes the terminal when its job stops and gives it back    *)
(* with `fg`.  SIGINT, SIGTERM and SIGHUP are handled alike and are one    *)
(* signal here.                                                            *)
(***************************************************************************)
EXTENDS Naturals

CONSTANTS
  MaxSuspends,  \* bound on Ctrl+Z
  MaxSignals,   \* bound on termination signals
  MaxLines,     \* bound on lines typed
  Early         \* signals and stops may come before the wait loop

JobControlAssumption ==
  MaxSuspends \in Nat /\ MaxSignals \in Nat /\ MaxLines \in Nat /\ Early \in BOOLEAN

VARIABLES
  pc,         \* where the wrapper is in launch
  wrapper,    \* "run", "stopped" (SIGTSTP), "ttou" or "gone"
  provider,   \* "none", "run", "stopped" or "gone"
  fg,         \* the terminal's foreground group: "shell", "wrapper" or "provider"
  handlers,   \* wait_with_signal_forwarding has installed its handlers
  child,      \* a SIGCHLD is waiting for the loop
  reportable, \* the provider has stopped and nobody has waited for that
  pending,    \* a termination signal is waiting for the loop
  told,       \* the provider has been sent one and has not died of it yet
  unread,     \* a line was typed for the provider and not read
  suspends, signals, lines

shell == <<suspends, signals, lines>>
vars == <<pc, wrapper, provider, fg, handlers, child, reportable, pending, told, unread, shell>>

Init ==
  /\ pc = "spawn" /\ wrapper = "run" /\ provider = "none" /\ fg = "wrapper"
  /\ handlers = FALSE /\ child = FALSE /\ reportable = FALSE
  /\ pending = FALSE /\ told = FALSE /\ unread = FALSE
  /\ suspends = 0 /\ signals = 0 /\ lines = 0

Running(label) == wrapper = "run" /\ pc = label

-----------------------------------------------------------------------------
(* The wrapper. *)

(* The provider starts in a process group of its own. *)
Spawn ==
  /\ Running("spawn")
  /\ provider' = "run"
  /\ pc' = "give"
  /\ UNCHANGED <<wrapper, fg, handlers, child, reportable, pending, told, unread, shell>>

(* tcsetpgrp with SIGTTOU blocked, so that the background may call it. *)
set_terminal_foreground(group) == fg' = group /\ UNCHANGED wrapper

GiveTerminal ==
  /\ Running("give")
  /\ set_terminal_foreground("provider")
  /\ pc' = "bind"
  /\ UNCHANGED <<provider, handlers, child, reportable, pending, told, unread, shell>>

(* BindChild is answered, and the wait loop installs its handlers. *)
Bound ==
  /\ Running("bind")
  /\ handlers' = TRUE
  /\ pc' = "loop"
  /\ UNCHANGED <<wrapper, provider, fg, child, reportable, pending, told, unread, shell>>

(* Mutant: the wrapper leaves with the signal. *)
Forward_Leaves ==
  /\ Running("loop") /\ pending
  /\ pending' = FALSE
  /\ told' = (told \/ provider # "gone")
  /\ wrapper' = "gone"
  /\ UNCHANGED <<pc, provider, fg, handlers, child, reportable, unread, shell>>

(* killpg of the signal that came. *)
Forward ==
  /\ Running("loop") /\ pending
  /\ pending' = FALSE
  /\ told' = (told \/ provider # "gone")
  /\ UNCHANGED <<pc, wrapper, provider, fg, handlers, child, reportable, unread, shell>>

(* waitid says whether the provider stopped; if so the wrapper raises SIGTSTP *)
(* and stops there.                                                           *)
ChildChanged ==
  /\ Running("loop") /\ child
  /\ child' = FALSE
  /\ IF reportable
       THEN reportable' = FALSE /\ wrapper' = "stopped" /\ pc' = "take"
       ELSE UNCHANGED <<reportable, wrapper, pc>>
  /\ UNCHANGED <<provider, fg, handlers, pending, told, unread, shell>>

(* After `fg`: the terminal is the provider's again before it runs. *)
TakeBack ==
  /\ Running("take")
  /\ set_terminal_foreground("provider")
  /\ pc' = "continue"
  /\ UNCHANGED <<provider, handlers, child, reportable, pending, told, unread, shell>>

Continue ==
  /\ Running("continue")
  /\ provider' = IF provider = "stopped" THEN "run" ELSE provider
  /\ reportable' = FALSE
  /\ child' = TRUE
  /\ pc' = "loop"
  /\ UNCHANGED <<wrapper, fg, handlers, pending, told, unread, shell>>

Reap ==
  /\ Running("loop") /\ provider = "gone"
  /\ pc' = "flush"
  /\ UNCHANGED <<wrapper, provider, fg, handlers, child, reportable, pending, told, unread, shell>>

(* tcflush(TCIFLUSH), before the terminal goes back. *)
Flush ==
  /\ Running("flush")
  /\ unread' = FALSE
  /\ pc' = "restore"
  /\ UNCHANGED <<wrapper, provider, fg, handlers, child, reportable, pending, told, shell>>

Restore ==
  /\ Running("restore")
  /\ set_terminal_foreground("wrapper")
  /\ pc' = "exit"
  /\ UNCHANGED <<provider, handlers, child, reportable, pending, told, unread, shell>>

Exit ==
  /\ Running("exit")
  /\ wrapper' = "gone"
  /\ UNCHANGED <<pc, provider, fg, handlers, child, reportable, pending, told, unread, shell>>

-----------------------------------------------------------------------------
(* The provider and the kernel. *)

(* The wrapper has no handlers yet. *)
InWindow == ~ handlers

ProviderExit ==
  /\ provider = "run"
  /\ provider' = "gone"
  /\ reportable' = FALSE /\ child' = (child \/ handlers)
  /\ told' = FALSE
  /\ UNCHANGED <<pc, wrapper, fg, handlers, pending, unread, shell>>

StopProvider ==
  /\ provider' = "stopped"
  /\ reportable' = TRUE
  /\ child' = (child \/ handlers)

(* Ctrl+Z reaches the foreground group. *)
Suspend ==
  /\ fg = "provider" /\ provider = "run" /\ suspends < MaxSuspends
  /\ InWindow => Early
  /\ suspends' = suspends + 1
  /\ StopProvider
  /\ UNCHANGED <<pc, wrapper, fg, handlers, pending, told, unread, signals, lines>>

(* SIGTTIN: a provider in the background reads the terminal. *)
BackgroundRead ==
  /\ fg # "provider" /\ provider = "run"
  /\ InWindow => Early
  /\ StopProvider
  /\ UNCHANGED <<pc, wrapper, fg, handlers, pending, told, unread, shell>>

Type ==
  /\ fg = "provider" /\ provider # "gone" /\ lines < MaxLines
  /\ lines' = lines + 1
  /\ unread' = TRUE
  /\ UNCHANGED <<pc, wrapper, provider, fg, handlers, child, reportable, pending, told, suspends,
                 signals>>

Read ==
  /\ fg = "provider" /\ provider = "run" /\ unread
  /\ unread' = FALSE
  /\ UNCHANGED <<pc, wrapper, provider, fg, handlers, child, reportable, pending, told, shell>>

(* A termination signal for the wrapper: without handlers it dies of it. *)
Terminate ==
  /\ wrapper = "run" /\ signals < MaxSignals
  /\ InWindow => Early
  /\ signals' = signals + 1
  /\ IF handlers
       THEN pending' = TRUE /\ UNCHANGED wrapper
       ELSE wrapper' = "gone" /\ UNCHANGED pending
  /\ UNCHANGED <<pc, provider, fg, handlers, child, reportable, told, unread, suspends, lines>>

(* The shell sees its job stopped or gone and takes the terminal. *)
ShellTakes ==
  /\ wrapper \in {"stopped", "gone"} /\ fg # "shell"
  /\ fg' = "shell"
  /\ UNCHANGED <<pc, wrapper, provider, handlers, child, reportable, pending, told, unread, shell>>

(* `fg` gives the terminal to the job and continues it. *)
ShellFg ==
  /\ wrapper = "stopped" /\ fg = "shell"
  /\ fg' = "wrapper"
  /\ wrapper' = "run"
  /\ UNCHANGED <<pc, provider, handlers, child, reportable, pending, told, unread, shell>>

(* The shell is back at its prompt. *)
Done ==
  /\ wrapper = "gone" /\ fg = "shell"
  /\ UNCHANGED vars

WrapperNext ==
  \/ Spawn \/ GiveTerminal \/ Bound \/ Forward \/ ChildChanged \/ TakeBack \/ Continue
  \/ Reap \/ Flush \/ Restore \/ Exit

Next ==
  \/ WrapperNext
  \/ ProviderExit \/ Suspend \/ BackgroundRead \/ Type \/ Read \/ Terminate
  \/ ShellTakes \/ ShellFg \/ Done

Spec == Init /\ [][Next]_vars

-----------------------------------------------------------------------------

TypeOK ==
  /\ wrapper \in {"run", "stopped", "ttou", "gone"}
  /\ provider \in {"none", "run", "stopped", "gone"}
  /\ fg \in {"shell", "wrapper", "provider"}
  /\ pending \in BOOLEAN
  /\ reportable => provider = "stopped"

(* supervised-agent-launch: the wrapper gives the terminal back "without      *)
(* being stopped by `SIGTTOU`": when it is gone the provider's group no       *)
(* longer has it.                                                             *)
TerminalHandedBack ==
  /\ wrapper # "ttou"
  /\ wrapper = "gone" /\ pc = "exit" => fg # "provider"

(* supervised-agent-launch: "input meant for the provider is never read by    *)
(* the caller's shell" once the launch is over.                               *)
UnreadInputDiscarded ==
  wrapper = "gone" /\ pc = "exit" => ~ unread

(* wait_with_signal_forwarding: "A suspended provider suspends the wrapper's  *)
(* job too": while the shell has the terminal of a stopped job, the provider  *)
(* does not run beside it.                                                    *)
SuspendedTogether ==
  fg = "shell" /\ wrapper = "stopped" => provider # "run"

(* docs/cli.md: "A suspended agent suspends the `sessiontap` job too": the    *)
(* shell gets its terminal.                                                   *)
SuspendReachesShell ==
  provider = "stopped" ~> (wrapper = "stopped" \/ provider # "stopped" \/ wrapper = "gone")

(* "... so the shell's `fg` resumes it": the provider runs again and has the  *)
(* terminal.                                                                  *)
FgResumes ==
  Running("take") ~> (provider = "run" /\ fg = "provider") \/ provider = "gone"

(* supervised-agent-launch: a termination signal is forwarded: the provider   *)
(* ends, unless the job is suspended.                                         *)
SignalEndsProvider ==
  pending ~> provider = "gone" \/ wrapper = "stopped"

(* supervised-agent-launch: the wrapper that receives a termination signal    *)
(* "does not leave a live orphaned provider".                                 *)
NoOrphan ==
  wrapper = "gone" => provider \in {"none", "gone"}
=============================================================================
