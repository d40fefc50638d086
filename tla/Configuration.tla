--------------------------- MODULE Configuration ----------------------------
(***************************************************************************)
(* The configuration file and the processes that read it, each at its own  *)
(* time: the daemon once when it starts (load_config, Config::validate,    *)
(* build_sinks, control_url), the launcher at a launch, the hook command   *)
(* at every event, the control channel at every request (core/config.rs,   *)
(* infra/config.rs, adapters/lib.rs AdapterRegistry, daemon main).         *)
(*                                                                         *)
(* A configuration has one alias and one sink; validate looks at each      *)
(* alone.  A URL is its scheme, how the scheme is written, and its host.   *)
(***************************************************************************)
EXTENDS Integers, FiniteSets

CONSTANTS
  None,
  Files,        \* what the operator may write: whether it is "missing",
                \* "broken" or "parsed", and the configuration if it is parsed
  Starts,       \* what the file may be at first
  EditsLive,    \* the operator may edit while the daemon runs
  MaxEdits      \* bound on edits

ConfigurationAssumption ==
  Starts \subseteq Files /\ EditsLive \in BOOLEAN /\ MaxEdits \in Nat

VARIABLES
  file,        \* the configuration file
  daemon,      \* "down", "refused" (validate), "failed" (later) or "up"
  running,     \* the configuration the daemon started with
  control,     \* has it opened a control channel?
  session,     \* the tracked launch of the alias: its adapter, or None
  dialect,     \* the adapter that read its last event, or None
  collected,   \* the adapter that collects for it, or None
  ignored,     \* an event's collection was not scheduled (history)
  relayed,     \* the last relayed request was accepted, with the file as it was
  edits

vars == <<file, daemon, running, control, session, dialect, collected, ignored, relayed, edits>>

-----------------------------------------------------------------------------
(* What a configuration says. *)

ProviderIds == {"claude", "codex", "qwen", "pi", "agy"}

(* Config::default *)
DefaultConfig == [alias |-> None, zero |-> FALSE, poll |-> "short", source_id |-> FALSE, sink |-> None]

(* load_config: a file that is missing is the default, one that cannot be     *)
(* read or parsed is an error.                                                *)
load_config(content) ==
  CASE content.state = "missing" -> DefaultConfig
    [] content.state = "broken" -> None
    [] content.state = "parsed" -> content.config

(* What every caller does with an error. *)
LoadOrDefault(content) ==
  IF load_config(content) = None THEN DefaultConfig ELSE load_config(content)

Loopback(url) == url.host \in {"localhost", "loopback"}

validate_sink_url(url, trusted) ==
  \/ url.scheme = "https"
  \/ url.scheme = "http" /\ (Loopback(url) \/ (url.host = "address" /\ trusted))

is_cleartext_non_loopback(url) == url.scheme = "http" /\ ~ Loopback(url)

(* public_fields of a hub looks at no field. *)
ValidSink(config, sink) ==
  /\ sink.kind = "hub" \/ sink.fields # "unknown"
  /\ CASE sink.kind = "stdout" -> sink.control = None
       [] sink.kind = "http" -> sink.control = None /\ validate_sink_url(sink.url, FALSE)
       [] sink.kind = "hub" ->
            /\ sink.fields = "none"
            /\ validate_sink_url(sink.url, sink.trusted)
            /\ sink.enabled /\ sink.token = "none" => ~ is_cleartext_non_loopback(sink.url)
            /\ sink.enabled => config.source_id

DaemonValid(config) == ~ config.zero /\ config.poll # "long"

validate(config) ==
  /\ config.alias \in ProviderIds \cup {None}
  /\ DaemonValid(config)
  /\ config.sink # None => ValidSink(config, config.sink)

(* Enabled sinks only. *)
build_sinks(config) ==
  config.sink = None \/ ~ config.sink.enabled \/
    /\ config.sink.kind = "hub" \/ config.sink.fields # "unknown"
    /\ config.sink.kind # "stdout" =>
         validate_sink_url(config.sink.url, config.sink.kind = "hub" /\ config.sink.trusted)

controls_terminals(config) ==
  config.sink # None /\ config.sink.kind = "hub" /\ config.sink.enabled /\ config.sink.control = TRUE

(* url_parts compares the scheme as it is written. *)
control_url(url) == url.scheme \in {"http", "https"} /\ ~ url.capitals

(* AdapterRegistry::new and resolve: an alias of no built-in is left out. *)
resolve(config) == IF config.alias \in ProviderIds THEN config.alias ELSE None

-----------------------------------------------------------------------------

Init ==
  /\ file \in Starts
  /\ daemon = "down" /\ running = DefaultConfig /\ control = FALSE
  /\ session = None /\ dialect = None /\ collected = None /\ ignored = FALSE
  /\ relayed = None /\ edits = 0

Edit ==
  /\ edits < MaxEdits /\ edits' = edits + 1
  /\ EditsLive \/ daemon # "up"
  /\ file' \in Files \ {file}
  /\ UNCHANGED <<daemon, running, control, session, dialect, collected, ignored, relayed>>

(* main, down to the control channels. *)
StartDaemon ==
  /\ daemon # "up"
  /\ LET config == LoadOrDefault(file)
         fails == \/ ~ build_sinks(config)
                  \/ controls_terminals(config) /\ ~ control_url(config.sink.url)
     IN  /\ daemon' = CASE ~ validate(config) -> "refused"
                        [] validate(config) /\ fails -> "failed"
                        [] OTHER -> "up"
         /\ running' = IF daemon' = "up" THEN config ELSE DefaultConfig
         /\ control' = (daemon' = "up" /\ controls_terminals(config))
  /\ relayed' = None
  /\ UNCHANGED <<file, session, dialect, collected, ignored, edits>>

(* A session the daemon leaves behind is over. *)
StopDaemon ==
  /\ daemon = "up"
  /\ daemon' = "down" /\ running' = DefaultConfig /\ control' = FALSE
  /\ session' = None /\ dialect' = None /\ collected' = None /\ relayed' = None
  /\ UNCHANGED <<file, ignored, edits>>

(* The launcher refuses an alias it cannot resolve. *)
Launch ==
  /\ daemon = "up" /\ session = None
  /\ resolve(LoadOrDefault(file)) # None
  /\ session' = resolve(LoadOrDefault(file))
  /\ UNCHANGED <<file, daemon, running, control, dialect, collected, ignored, relayed, edits>>

(* usage_coordinator.schedule: the daemon's own registry has to agree. *)
schedule(identity) ==
  IF resolve(running) = identity
  THEN collected' = identity /\ UNCHANGED ignored
  ELSE ignored' = TRUE /\ UNCHANGED collected

(* hook: the event is read by the adapter the file names now. *)
Hook ==
  /\ daemon = "up" /\ session # None
  /\ resolve(LoadOrDefault(file)) # None
  /\ dialect' = resolve(LoadOrDefault(file))
  /\ schedule(resolve(LoadOrDefault(file)))
  /\ UNCHANGED <<file, daemon, running, control, session, relayed, edits>>


(* A relayed open or input: the file is read again; an error is a no. *)
Relay ==
  /\ control
  /\ relayed' = [accepted |-> load_config(file) # None /\ controls_terminals(load_config(file)),
                 file |-> file]
  /\ UNCHANGED <<file, daemon, running, control, session, dialect, collected, ignored, edits>>

Next == Edit \/ StartDaemon \/ StopDaemon \/ Launch \/ Hook \/ Relay

Spec == Init /\ [][Next]_vars

-----------------------------------------------------------------------------

TypeOK ==
  /\ file \in Files /\ daemon \in {"down", "refused", "failed", "up"}
  /\ {session, dialect, collected} \subseteq ProviderIds \cup {None}
  /\ control => controls_terminals(running)

(* hub.md: "with the same scheme rules, trusted addresses, and bearer token as *)
(* its ingestion": what validation accepts, the rest of the start accepts.     *)
ValidStarts ==
  daemon # "failed"

(* event-sinks: "A hub sink that sends cleartext HTTP to a non-loopback address *)
(* listed in its trusted_addresses SHALL configure token_env or token_file",   *)
(* and no other sink sends cleartext anywhere but home: of what is running.    *)
CleartextStaysHome ==
  LET sink == running.sink
  IN  sink # None /\ sink.enabled /\ sink.kind # "stdout" /\ sink.url.scheme # "https" =>
        \/ Loopback(sink.url)
        \/ sink.kind = "hub" /\ sink.trusted /\ sink.token # "none"

(* enqueue_transition leaves out a hub when the source has no identity: a      *)
(* running daemon never has such a hub.                                        *)
HubHasIdentity ==
  running.sink # None /\ running.sink.enabled /\ running.sink.kind = "hub" => running.source_id

(* event-sinks: "the daemon SHALL refuse every relayed terminal request and    *)
(* input while `control` is not `true`", whatever it was started with.         *)
ControlOffApplies ==
  relayed # None /\ relayed.accepted =>
    relayed.file.state = "parsed" /\ controls_terminals(relayed.file.config)

(* usage_coordinator: artifacts of a session are read by the adapter that      *)
(* reads its events, which the daemon knows under the same name.               *)
CollectedByItsAdapter ==
  collected # None => collected = resolve(running)

(* agent-hook-adapters: "Configuration SHALL allow a custom executable name to *)
(* inherit one built-in adapter's complete behavior": the collection too.      *)
AliasIsComplete ==
  ~ ignored
=============================================================================
