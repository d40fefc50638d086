------------------------------ MODULE MCLaunch ------------------------------
(***************************************************************************)
(* A launched provider: Endpoint and Configuration bring the services up,  *)
(* Launch and JobControl wrap the provider, SideChannel and                *)
(* UsageCoordinator read what it writes. `part` says which of them, with   *)
(* which bounds, a behaviour is about.                                     *)
(***************************************************************************)
EXTENDS Endpoint

CONSTANTS Parts

(* One hook input of every kind, at the limit and one past it, and one that *)
(* does not name its event.                                                 *)
Inputs ==
  { [size |-> 2, json |-> TRUE, normal |-> TRUE, named |-> TRUE],
    [size |-> 2, json |-> TRUE, normal |-> FALSE, named |-> TRUE],
    [size |-> 2, json |-> FALSE, normal |-> FALSE, named |-> FALSE],
    [size |-> 3, json |-> TRUE, normal |-> TRUE, named |-> TRUE] }

(* Configurations: every sink for one start, or few for many edits.         *)
Url(schemes) == [scheme : schemes, capitals : {FALSE}, host : {"localhost", "loopback", "address", "name"}]
AnySink(schemes) ==
  [kind : {"stdout", "http", "hub"}, enabled : BOOLEAN, url : Url(schemes),
   control : {None, TRUE}, fields : {"none", "known", "unknown"}, token : {"none", "env", "file"},
   trusted : BOOLEAN]
Plain == [alias |-> None, zero |-> FALSE, poll |-> "short", source_id |-> TRUE, sink |-> None]
Parsed(config) == [state |-> "parsed", config |-> config]
BrokenFile == [state |-> "broken", config |-> Plain]
Unlikely == {[state |-> "missing", config |-> Plain], BrokenFile,
             Parsed([Plain EXCEPT !.zero = TRUE]), Parsed([Plain EXCEPT !.poll = "long"])}
EverySink ==
  {Parsed([Plain EXCEPT !.source_id = id, !.sink = sink]) :
     id \in BOOLEAN, sink \in AnySink({"http", "https", "ftp"})} \cup Unlikely
Home == [scheme |-> "http", capitals |-> FALSE, host |-> "loopback"]
HubSink == [kind |-> "hub", enabled |-> TRUE, url |-> Home, control |-> TRUE, fields |-> "none",
            token |-> "file", trusted |-> FALSE]
Edited == Unlikely \cup
  {Parsed([Plain EXCEPT !.alias = a, !.sink = s]) :
     a \in {None, "claude", "qwen", "gemini"},
     s \in {None, HubSink, [HubSink EXCEPT !.control = FALSE], [HubSink EXCEPT !.enabled = FALSE]}}

VARIABLES
  part,  \* the component the behaviour is about; the others stay as they start
  step, tracked, prep, context, launch_daemon, registered, hook, ingested, inspector,
  datagrams, queue, accepted, printed, output, faults,
  job_pc, wrapper, provider, fg, handlers, child, reportable, job_pending, told,
  unread, suspends, signals, lines,
  file, config_daemon, running, control, config_session, dialect, collected, ignored,
  relayed, edits,
  content, inode, written, resets, offset, channel_pending, identity, values,
  sequence, sent, tail, kept, missed,
  usage_session, left, applied, dedup, artifact, handler, invocation_keys, states,
  worker, notify, permits, settled, hooks, restarts

launch_vars == <<step, tracked, prep, context, launch_daemon, registered, hook,
                 ingested, inspector, datagrams, queue, accepted, printed, output,
                 faults>>
job_vars == <<job_pc, wrapper, provider, fg, handlers, child, reportable, job_pending,
              told, unread, suspends, signals, lines>>
config_vars == <<file, config_daemon, running, control, config_session, dialect,
                 collected, ignored, relayed, edits>>
channel_vars == <<content, inode, written, resets, offset, channel_pending, identity,
                  values, sequence, sent, tail, kept, missed>>
usage_vars == <<usage_session, left, applied, dedup, artifact, handler,
                invocation_keys, states, worker, notify, permits, settled, hooks,
                restarts>>

Wrap == INSTANCE Launch WITH
  Hooks <- {"h1", "h2"}, MaxInput <- 2, Depth <- 1, Datagrams <- 2, MaxFaults <- 1,
  Hangs <- TRUE, PrepareFails <- TRUE, EventArg <- FALSE, Payloads <- Inputs,
  daemon <- launch_daemon
WrapLive == INSTANCE Launch WITH
  Hooks <- {"h1"}, MaxInput <- 2, Depth <- 1, Datagrams <- 1, MaxFaults <- 2,
  Hangs <- FALSE, PrepareFails <- FALSE, EventArg <- TRUE,
  Payloads <- {p \in Inputs : p.size = 2}, daemon <- launch_daemon
Job == INSTANCE JobControl WITH
  MaxSuspends <- 2, MaxSignals <- 2, MaxLines <- 1, Early <- FALSE, pc <- job_pc,
  pending <- job_pending
Config == INSTANCE Configuration WITH
  Files <- EverySink, Starts <- EverySink, EditsLive <- FALSE, MaxEdits <- 0,
  daemon <- config_daemon, session <- config_session
Edits == INSTANCE Configuration WITH
  Files <- Edited, Starts <- Edited, EditsLive <- TRUE, MaxEdits <- 2,
  daemon <- config_daemon, session <- config_session
Aliases == INSTANCE Configuration WITH
  Files <- Edited, Starts <- Edited, EditsLive <- FALSE, MaxEdits <- 2,
  daemon <- config_daemon, session <- config_session
Channel == INSTANCE SideChannel WITH
  MaxLines <- 4, Broken <- {3}, MaxResets <- 2, Refills <- FALSE,
  pending <- channel_pending
Usage == INSTANCE UsageCoordinator WITH
  Keys <- {"k1", "k2"}, Invocations <- {"i1", "i2"}, Handlers <- {"h1", "h2"},
  worker_limit <- 1, Resume <- TRUE, MaxHooks <- 2, MaxVersion <- 1, MaxRestarts <- 1,
  session <- usage_session
UsageOne == INSTANCE UsageCoordinator WITH
  Keys <- {"k1"}, Invocations <- {"i1", "i2"}, Handlers <- {"h1", "h2"},
  worker_limit <- 1, Resume <- TRUE, MaxHooks <- 3, MaxVersion <- 2, MaxRestarts <- 0,
  session <- usage_session
UsageLive == INSTANCE UsageCoordinator WITH
  Keys <- {"k1", "k2"}, Invocations <- {"i1"}, Handlers <- {"h1"}, worker_limit <- 1,
  Resume <- FALSE, MaxHooks <- 3, MaxVersion <- 1, MaxRestarts <- 0,
  session <- usage_session

ASSUME Wrap!LaunchAssumption
ASSUME WrapLive!LaunchAssumption
ASSUME Job!JobControlAssumption
ASSUME Config!ConfigurationAssumption
ASSUME Edits!ConfigurationAssumption
ASSUME Aliases!ConfigurationAssumption
ASSUME Channel!SideChannelAssumption
ASSUME Usage!CoordinatorAssumption
ASSUME UsageOne!CoordinatorAssumption
ASSUME UsageLive!CoordinatorAssumption

InitOfAll ==
  /\ part \in Parts
  /\ Init
  /\ \/ part = "launch" /\ Wrap!Init
     \/ part = "launch_live" /\ WrapLive!Init
     \/ part \notin {"launch", "launch_live"} /\ context = "none" /\ launch_daemon = "down" /\ Wrap!Init
  /\ Job!Init
  /\ \/ part = "config" /\ Config!Init
     \/ part = "edits" /\ Edits!Init
     \/ part = "aliases" /\ Aliases!Init
     \/ part \notin {"config", "edits", "aliases"} /\ file = BrokenFile /\ Config!Init
  /\ Channel!Init
  /\ \/ part = "usage" /\ Usage!Init
     \/ part = "usage_one" /\ UsageOne!Init
     \/ part = "usage_live" /\ UsageLive!Init
     \/ part \notin {"usage", "usage_one", "usage_live"} /\ Usage!Init

NextOfPart ==
  \/ part = "endpoint" /\ Next /\ UNCHANGED <<part, launch_vars, job_vars,
       config_vars, channel_vars, usage_vars>>
  \/ part = "launch" /\ Wrap!Next /\ UNCHANGED <<part, vars, job_vars, config_vars,
       channel_vars, usage_vars>>
  \/ part = "launch_live" /\ WrapLive!Next /\ UNCHANGED <<part, vars, job_vars,
       config_vars, channel_vars, usage_vars>>
  \/ part = "job" /\ Job!Next /\ UNCHANGED <<part, vars, launch_vars, config_vars,
       channel_vars, usage_vars>>
  \/ part = "config" /\ Config!Next /\ UNCHANGED <<part, vars, launch_vars, job_vars,
       channel_vars, usage_vars>>
  \/ part = "edits" /\ Edits!Next /\ UNCHANGED <<part, vars, launch_vars, job_vars,
       channel_vars, usage_vars>>
  \/ part = "aliases" /\ Aliases!Next /\ UNCHANGED <<part, vars, launch_vars,
       job_vars, channel_vars, usage_vars>>
  \/ part = "channel" /\ Channel!Next /\ UNCHANGED <<part, vars, launch_vars,
       job_vars, config_vars, usage_vars>>
  \/ part = "usage" /\ Usage!Next /\ UNCHANGED <<part, vars, launch_vars, job_vars,
       config_vars, channel_vars>>
  \/ part = "usage_one" /\ UsageOne!Next /\ UNCHANGED <<part, vars, launch_vars,
       job_vars, config_vars, channel_vars>>
  \/ part = "usage_live" /\ UsageLive!Next /\ UNCHANGED <<part, vars, launch_vars,
       job_vars, config_vars, channel_vars>>

all_vars == <<part, vars, launch_vars, job_vars, config_vars, channel_vars, usage_vars>>

SpecOfParts == InitOfAll /\ [][NextOfPart]_all_vars

(* The wrapper runs while it is not stopped and its select is fair to each    *)
(* branch; the hooks it runs, the tail and the collection workers are tasks   *)
(* the runtime polls, and a semaphore serves its waiters in order. A provider *)
(* told to terminate does unless it is stopped, and the shell takes the       *)
(* terminal of a stopped job; nobody has to type, and the inspector's thread  *)
(* may stop printing for good.                                                *)
OnWrap(A) == part = "launch_live" /\ A
OnJob(A) == part = "job" /\ A
OnChannel(A) == part = "channel" /\ A
OnUsage(A) == part = "usage_live" /\ A
FairnessOfParts ==
  /\ WF_launch_vars(OnWrap(WrapLive!LaunchNext))
  /\ WF_launch_vars(OnWrap(WrapLive!inspect_hook_best_effort("h1") \/ WrapLive!Normalize("h1") \/ WrapLive!Ingest("h1")))
  /\ WF_job_vars(OnJob(Job!WrapperNext)) /\ SF_job_vars(OnJob(Job!Forward))
  /\ SF_job_vars(OnJob(Job!ChildChanged)) /\ SF_job_vars(OnJob(Job!Reap))
  /\ WF_job_vars(OnJob(Job!ProviderExit /\ told)) /\ WF_job_vars(OnJob(Job!ShellTakes))
  /\ WF_channel_vars(OnChannel(Channel!Poll)) /\ WF_channel_vars(OnChannel(Channel!Forward))
  /\ WF_usage_vars(OnUsage(UsageLive!schedule("h1")))
  /\ \A k \in {"k1", "k2"} : /\ WF_usage_vars(OnUsage(UsageLive!run(k))) /\ WF_usage_vars(OnUsage(UsageLive!TimerFires(k)))
                            /\ SF_usage_vars(OnUsage(UsageLive!Acquire(k)))

FairSpecOfParts == SpecOfParts /\ FairnessOfParts

-----------------------------------------------------------------------------
(* A provider launched without the daemon has nothing of tracking about it;   *)
(* the inspector prints what it accepted, in order and once, and never takes  *)
(* a truncated input for a complete one (main.rs launch, hook).               *)
LaunchIsFaithful ==
  part = "launch" => Wrap!TypeOK /\ Wrap!UntrackedIsBare /\ Wrap!PrintsWhatItAccepts /\ Wrap!NeverTruncated

(* The wrapper and its provider are suspended together; a wrapper that ends   *)
(* leaves no provider, the shell its terminal and no unread input (main.rs).  *)
JobIsOne ==
  part = "job" => Job!TypeOK /\ Job!TerminalHandedBack /\ Job!UnreadInputDiscarded /\ Job!SuspendedTogether /\ Job!NoOrphan


(* Every value of the side channel is one whole line, forwarded in order,     *)
(* once and with no line skipped, over truncations and replacements.          *)
ChannelIsWhole ==
  part = "channel" => Channel!TypeOK /\ Channel!ValuesAreWholeLines /\ Channel!ForwardedInOrder /\ Channel!NothingSkipped

(* One collector works for a session at a time, an invocation shows only its  *)
(* own session's usage, and a collection that completed is shown.             *)
UsageIsItsSessions ==
  /\ part = "usage" => Usage!TypeOK /\ Usage!OneCollector /\ Usage!EnrichedBySession
  /\ part = "usage_one" => UsageOne!CompletedIsApplied

=============================================================================
