-------------------------------- MODULE MCHub -------------------------------
(***************************************************************************)
(* Updates on their way through the daemon and the hub: Sinks delivers     *)
(* them, HttpReader and Ingestion take them in, HubStream and DaemonStream *)
(* show them to listeners, Routing runs commands for them. `part` says     *)
(* which of them, with which bounds, a behaviour is about.                 *)
(***************************************************************************)
EXTENDS HttpReader

CONSTANTS Parts

(* Requests just under, at and over limits of a few bytes, with a body      *)
(* shorter or longer than declared.                                         *)
RequestsSeen ==
  [head: {1, 6, 8, 9}, rest: {0, 3, 14}, method: {"POST"}, parses: {TRUE},
   length: {2, 4, None, NotANumber}]
    \cup [head: {3, 9}, rest: {0, 2}, method: {"GET"}, parses: BOOLEAN, length: {None, 2}]
SomeRequest == [head |-> 1, rest |-> 0, method |-> "POST", parses |-> TRUE, length |-> 2]

(* Three updates, one without a reason and a repository, against three      *)
(* subscriptions: on status and reason, on a repository and a change, and   *)
(* on everything.                                                           *)
AnyValue == [f \in {"source", "provider", "status", "reason", "root"} |-> {}]
UpdatesSeen == <<
  [source |-> "host", provider |-> "codex", status |-> "blocked", reason |-> "input",
   root |-> "r1", changed |-> {"status", "reason"}],
  [source |-> "host", provider |-> "codex", status |-> "stopped", reason |-> None,
   root |-> None, changed |-> {"status"}],
  [source |-> "box", provider |-> "codex", status |-> "stopped", reason |-> "completed",
   root |-> "r1", changed |-> {"session"}] >>
SubscriptionsSeen == <<
  [criteria |-> [AnyValue EXCEPT !["status"] = {"blocked", "stopped"}, !["reason"] = {"input", "completed"}],
   changes |-> {}, commands |-> <<"a1", "a2">>],
  [criteria |-> [AnyValue EXCEPT !["root"] = {"r1"}], changes |-> {"status"}, commands |-> <<"b1">>],
  [criteria |-> AnyValue, changes |-> {}, commands |-> <<"c1">>] >>

(* A sink of each kind, one with a selection of fields. *)
SinkNames == {"status", "hub"}
SinkKinds == [status |-> "http", hub |-> "hub"]
SinkSelections == [status |-> {"status"}, hub |-> {}]
LocalNames == {"print", "status"}
LocalKinds == [print |-> "stdout", status |-> "http"]
LocalSelections == [print |-> {}, status |-> {}]

(* A daemon beside the hub that may claim another's source ID, and one in a *)
(* container; configurations that are valid and that are not.               *)
Fresh == [version |-> 1, listen |-> "loopback", max_body_bytes |-> 2, sources |-> [s \in {} |-> ""],
          max_concurrent_commands |-> 4, command_timeout_secs |-> 30, subscriptions |-> <<>>, remote |-> None]
Valid == [Fresh EXCEPT !.listen = "public", !.sources = [host |-> "hostkey", sandbox |-> "boxkey"]]
Parsed(c) == [state |-> "parsed", config |-> c]
Failed(s) == [state |-> s, config |-> Fresh]
RemoteAt(l) == [listen |-> l, discovery |-> FALSE, blank |-> FALSE]
TokenPaths == {"hostkey", "boxcopy"}
TokenFiles == {Parsed([Valid EXCEPT !.sources = [host |-> "hostkey", sandbox |-> "boxcopy"]]), Parsed([Fresh EXCEPT !.listen = "public"]), Failed("missing")}
StartFiles ==
  {Parsed([Valid EXCEPT !.remote = r]) :
     r \in {None, RemoteAt(<<"lan", "vpn">>), RemoteAt(<<"wildcard">>), RemoteAt(<<"lan", "junk">>),
            RemoteAt(<<>>), RemoteAt(<<"wildcard", "lan">>), [RemoteAt(<<"lan">>) EXCEPT !.discovery = TRUE],
            [RemoteAt(<<"wildcard">>) EXCEPT !.discovery = TRUE], [RemoteAt(<<"lan">>) EXCEPT !.blank = TRUE]}}
   \cup {Parsed([Valid EXCEPT !.subscriptions = s]) : s \in {<< <<2, 1>> >>, << <<2>>, <<>> >>, << <<2, 0>> >>}}
   \cup {Parsed([Valid EXCEPT !.version = 2]), Parsed([Valid EXCEPT !.max_concurrent_commands = 0]),
         Parsed([Valid EXCEPT !.command_timeout_secs = 0]), Parsed([Valid EXCEPT !.listen = "junk"]),
         Parsed([Fresh EXCEPT !.listen = "public"]),
         Parsed([Valid EXCEPT !.sources = [host |-> "", sandbox |-> "boxkey"]])}
   \cup {Failed("missing"), Failed("unreadable"), Failed("unknown field")}
KeyPaths == {"hostkey", "boxkey", "boxcopy"}
MixedAuth == [h |-> [file |-> None, env |-> None], b |-> [file |-> "boxcopy", env |-> None]]
NoTokens == [p \in TokenPaths |-> [token |-> "", private |-> TRUE]]
NothingDue == [h |-> FALSE, b |-> FALSE]
BoxAuth == [b |-> [file |-> "boxcopy", env |-> "t1"]]

VARIABLES
  part,  \* the component the behaviour is about; the others stay as they start
  hub_revision, agents, publication, hub_sent, hub_listener, hub_shown, hub_router,
  routed, hub_faults,
  daemon_revision, daemon_views, handler, daemon_sent, daemon_listener, daemon_shown,
  line, unsent, daemon_faults,
  routing_sent, routing_router, task, child, permits, ran,
  sinks_revision, view, changed, sinks_views, enabled, outbox, snapshot,
  snapshot_backoff, batch, pc, seen, newest, last, missed, restarts,
  file, tokens, hub, base, stored, due, update, wire, dropped, refusals, unfit, edits,
  rotations, starts

hub_vars == <<hub_revision, agents, publication, hub_sent, hub_listener, hub_shown,
              hub_router, routed, hub_faults>>
daemon_vars == <<daemon_revision, daemon_views, handler, daemon_sent, daemon_listener,
                 daemon_shown, line, unsent, daemon_faults>>
routing_vars == <<routing_sent, routing_router, task, child, permits, ran>>
sinks_vars == <<sinks_revision, view, changed, sinks_views, enabled, outbox, snapshot,
                snapshot_backoff, batch, pc, seen, newest, last, missed, restarts>>
ingestion_vars == <<file, tokens, hub, base, stored, due, update, wire, dropped,
                    refusals, unfit, edits, rotations, starts>>

HubListen == INSTANCE HubStream WITH
  Sources <- {"s1", "s2"}, Agents <- {"a1"}, Tasks <- {"t1", "t2"},
  Listeners <- {"l1"}, BROADCAST_CAPACITY <- 1, MaxRevision <- 2, MaxFaults <- 1,
  sent <- hub_sent, listener <- hub_listener, shown <- hub_shown,
  router <- hub_router, faults <- hub_faults
HubSerial == INSTANCE HubStream WITH
  Sources <- {"s1", "s2"}, Agents <- {"a1"}, Tasks <- {"t1"}, Listeners <- {"l1"},
  BROADCAST_CAPACITY <- 1, MaxRevision <- 2, MaxFaults <- 1, sent <- hub_sent,
  listener <- hub_listener, shown <- hub_shown, router <- hub_router,
  faults <- hub_faults
DaemonListen == INSTANCE DaemonStream WITH
  Agents <- {"a1", "a2"}, Handlers <- {"h1", "h2"}, Listeners <- {"l1"},
  update_buffer <- 1, MaxRevision <- 3, MaxFaults <- 1, revision <- daemon_revision,
  views <- daemon_views, sent <- daemon_sent, listener <- daemon_listener,
  shown <- daemon_shown, faults <- daemon_faults
Router == INSTANCE Routing WITH
  UpdateOf <- UpdatesSeen, Subscriptions <- SubscriptionsSeen,
  max_concurrent_commands <- 2, BROADCAST_CAPACITY <- 2, sent <- routing_sent,
  router <- routing_router
Deliver == INSTANCE Sinks WITH
  Names <- SinkNames, Kind <- SinkKinds, Fields <- {"status", "usage"},
  Selection <- SinkSelections, Healthy <- {}, Silent <- {}, outbox_batch <- 2,
  max_rejected_attempts <- 2, MAX_OUTBOX_RECORDS_PER_SINK <- 1, RetryMax <- 2,
  SnapshotMax <- 2, Timeout <- 0, MaxRevision <- 2, MaxRestarts <- 1,
  revision <- sinks_revision, views <- sinks_views
DeliverLocal == INSTANCE Sinks WITH
  Names <- LocalNames, Kind <- LocalKinds, Fields <- {"status"},
  Selection <- LocalSelections, Healthy <- {"print"}, Silent <- {}, outbox_batch <- 1,
  max_rejected_attempts <- 2, MAX_OUTBOX_RECORDS_PER_SINK <- 2, RetryMax <- 4,
  SnapshotMax <- 2, Timeout <- 0, MaxRevision <- 3, MaxRestarts <- 0,
  revision <- sinks_revision, views <- sinks_views
Ingest == INSTANCE Ingestion WITH
  Daemons <- {"h", "b"}, Claim <- [h |-> "host", b |-> "host"], Far <- {"b"},
  Auth <- MixedAuth, Paths <- TokenPaths, Tokens <- {"", "t1"}, Files <- TokenFiles,
  Supports <- {TRUE}, Sizes <- {1}, max_rejected_attempts <- 2, MaxUpdates <- 1,
  MaxEdits <- 0, MaxRotations <- 1, MaxStarts <- 1
HubStart == INSTANCE Ingestion WITH
  Daemons <- {"b"}, Claim <- [b |-> "sandbox"], Far <- {"b"}, Auth <- BoxAuth,
  Paths <- KeyPaths, Tokens <- {"", "t1"}, Files <- StartFiles, Supports <- BOOLEAN,
  Sizes <- {1, 3}, max_rejected_attempts <- 2, MaxUpdates <- 1, MaxEdits <- 0,
  MaxRotations <- 0, MaxStarts <- 1

ASSUME HubListen!HubStreamAssumption
ASSUME HubSerial!HubStreamAssumption
ASSUME DaemonListen!DaemonStreamAssumption
ASSUME Router!RoutingAssumption
ASSUME Deliver!SinksAssumption
ASSUME DeliverLocal!SinksAssumption
ASSUME Ingest!IngestionAssumption
ASSUME HubStart!IngestionAssumption

InitOfAll ==
  /\ part \in Parts
  /\ Init /\ (part # "http" => request = SomeRequest)
  /\ \/ part = "hub_listen" /\ HubListen!Init
     \/ part = "hub_serial" /\ HubSerial!Init
     \/ part \notin {"hub_listen", "hub_serial"} /\ HubListen!Init
  /\ DaemonListen!Init
  /\ Router!Init
  /\ \/ part = "sinks" /\ Deliver!Init
     \/ part = "sinks_local" /\ DeliverLocal!Init
     \/ part \notin {"sinks", "sinks_local"} /\ enabled = {} /\ Deliver!Init
  /\ \/ part = "ingestion" /\ Ingest!Init
     \/ part = "hub_start" /\ HubStart!Init
     \/ part \notin {"ingestion", "hub_start"} /\ file = Failed("missing") /\ tokens = NoTokens /\ due = NothingDue /\ Ingest!Init

NextOfPart ==
  \/ part = "http" /\ Next /\ UNCHANGED <<part, hub_vars, daemon_vars, routing_vars,
       sinks_vars, ingestion_vars>>
  \/ part = "hub_listen" /\ HubListen!Next /\ UNCHANGED <<part, vars, daemon_vars,
       routing_vars, sinks_vars, ingestion_vars>>
  \/ part = "hub_serial" /\ HubSerial!Next /\ UNCHANGED <<part, vars, daemon_vars,
       routing_vars, sinks_vars, ingestion_vars>>
  \/ part = "daemon_listen" /\ DaemonListen!Next /\ UNCHANGED <<part, vars, hub_vars,
       routing_vars, sinks_vars, ingestion_vars>>
  \/ part = "routing" /\ Router!Next /\ UNCHANGED <<part, vars, hub_vars, daemon_vars,
       sinks_vars, ingestion_vars>>
  \/ part = "sinks" /\ Deliver!Next /\ UNCHANGED <<part, vars, hub_vars, daemon_vars,
       routing_vars, ingestion_vars>>
  \/ part = "sinks_local" /\ DeliverLocal!Next /\ UNCHANGED <<part, vars, hub_vars,
       daemon_vars, routing_vars, ingestion_vars>>
  \/ part = "ingestion" /\ Ingest!Next /\ UNCHANGED <<part, vars, hub_vars,
       daemon_vars, routing_vars, sinks_vars>>
  \/ part = "hub_start" /\ HubStart!Next /\ UNCHANGED <<part, vars, hub_vars,
       daemon_vars, routing_vars, sinks_vars>>

all_vars == <<part, vars, hub_vars, daemon_vars, routing_vars, sinks_vars, ingestion_vars>>

SpecOfParts == InitOfAll /\ [][NextOfPart]_all_vars

(* The runtime polls every task that is ready and its timers fire: a          *)
(* connection's, a stream's, a handler's, the router's and its commands', the *)
(* sink worker's. Nothing makes a client send or a command end.               *)
OnHub(A) == part = "hub_serial" /\ A
OnDaemon(A) == part = "daemon_listen" /\ A
OnRoute(A) == part = "routing" /\ A
FairnessOfParts ==
  /\ WF_vars(part = "http" /\ Hub) /\ WF_vars(part = "http" /\ TimeOut)
  /\ WF_hub_vars(OnHub(HubSerial!Publish("t1"))) /\ WF_hub_vars(OnHub(HubSerial!stream_merged("l1")))
  /\ \A h \in {"h1", "h2"} : /\ WF_daemon_vars(OnDaemon(DaemonListen!broadcast(h)))
                            /\ WF_daemon_vars(OnDaemon(DaemonListen!SweepEnd(h)))
  /\ WF_daemon_vars(OnDaemon(DaemonListen!Listen("l1")))
  /\ WF_routing_vars(OnRoute(Router!Route \/ Router!RouteLagged))
  /\ \A u \in 1..3 : /\ WF_routing_vars(OnRoute(Router!Start(u))) /\ WF_routing_vars(OnRoute(Router!Waited(u)))
                     /\ WF_routing_vars(OnRoute(Router!TimedOut(u))) /\ WF_routing_vars(OnRoute(Router!Done(u)))
  /\ WF_sinks_vars(part = "sinks_local" /\ DeliverLocal!Worker)

FairSpecOfParts == SpecOfParts /\ FairnessOfParts

-----------------------------------------------------------------------------
(* A listener of the hub or of the daemon misses nothing and is never taken   *)
(* back: with one task at a time what it shows is what is stored, with two    *)
(* it is never an older view, an update is routed once at most, and the       *)
(* daemon's listener has every view once it caught up (listen.rs, server.rs). *)
ListenersSeeAll ==
  /\ [](part = "hub_serial" => HubSerial!TypeOK /\ HubSerial!GapFree)
  /\ [](part = "daemon_listen" => DaemonListen!TypeOK /\ DaemonListen!NotOmitted)
  /\ HubListen!ListenerNeverRegresses /\ HubListen!RoutedOnce


(* A sink is shown its own fields only, and what it was not shown is still    *)
(* queued or owed, over retries, rejections and restarts (workers.rs).        *)
SinksKeepAll == part = "sinks" => Deliver!TypeOK /\ Deliver!OnlySelected /\ Deliver!NothingForgotten

(* A source is written with its own token only, a far daemon never without    *)
(* one, the remote listener binds all its addresses, and an update that fits  *)
(* is never given up (ingest.rs, config.rs, sinks/hub.rs).                    *)
IngestionIsGuarded ==
  /\ [](part = "hub_start" => HubStart!TypeOK /\ HubStart!EveryAddressBound /\ HubStart!FittingIsNeverDropped)
  /\ [][part = "ingestion" => Ingest!OnlyItsSource /\ Ingest!FarNeedsToken]_ingestion_vars

=============================================================================
