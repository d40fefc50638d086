------------------------------ MODULE MCDevices -----------------------------
(***************************************************************************)
(* Paired devices and the hub: RateLimiter and Pairing let a device in,    *)
(* RemoteAccess keeps its connections, Discovery announces where to        *)
(* connect, Relay carries its terminal streams to ControlChannel, the      *)
(* source's end. `part` says which of them, with which bounds, a behaviour *)
(* is about.                                                               *)
(***************************************************************************)
EXTENDS RateLimiter, TLC

CONSTANTS None, Parts

(* A host moves between two networks, and offline, with a bridge up. *)
Interface(ip, bridge, local) ==
  [ip |-> ip, up |-> TRUE, bridge |-> bridge, local |-> local, v6 |-> FALSE]
Lo == Interface("lo", FALSE, TRUE)
HostsSeen ==
  {{Interface("lan", FALSE, FALSE), Lo, Interface("docker", TRUE, FALSE)},
   {Interface("wlan", FALSE, FALSE), Lo}, {Lo}}

VARIABLES
  part,  \* the component the behaviour is about; the others stay as they start
  enabled, run, link, channel_task, inbox, outbound, wire, channel_bridge, forward,
  frames, asked, written, channel_budget,
  relay, serving, uplink, dialed, used, relay_bridge, pane, relay_task, device, input,
  view, noise,
  stored, registry, conn, remote_task, ticket, slots, addresses, terminals,
  remote_budget,
  generation, window, expired, failures, conv, events, nonce, call, reply, calls,
  paired,
  host, listener, delay, binds, discovery_task, current, published, process, changes,
  faults

channel_vars == <<enabled, run, link, channel_task, inbox, outbound, wire,
                  channel_bridge, forward, frames, asked, written, channel_budget>>
relay_vars == <<relay, serving, uplink, dialed, used, relay_bridge, pane, relay_task,
                device, input, view, noise>>
remote_vars == <<stored, registry, conn, remote_task, ticket, slots, addresses,
                 terminals, remote_budget>>
pairing_vars == <<generation, window, expired, failures, conv, events, nonce, call,
                  reply, calls, paired>>
discovery_vars == <<host, listener, delay, binds, discovery_task, current, published,
                    process, changes, faults>>

Channel == INSTANCE ControlChannel WITH
  Streams <- {"s1", "s2"}, Capacity <- 2, MaxDelay <- 1, MaxFrames <- 1,
  MaxInputs <- 0, MaxLosses <- 0, MaxToggles <- 1, task <- channel_task,
  bridge <- channel_bridge, budget <- channel_budget
ChannelLive == INSTANCE ControlChannel WITH
  Streams <- {"s1"}, Capacity <- 8, MaxDelay <- 3, MaxFrames <- 1, MaxInputs <- 1,
  MaxLosses <- 2, MaxToggles <- 1, task <- channel_task, bridge <- channel_bridge,
  budget <- channel_budget
Relays == INSTANCE Relay WITH
  Streams <- {"s1"}, OPENING_BUFFER <- 1, DEVICE_QUEUE <- 2, MaxChannels <- 2,
  MaxBytes <- 1, MaxInputs <- 1, MaxFlight <- 2, MaxNoise <- 0,
  bridge <- relay_bridge, task <- relay_task
RelayLive == INSTANCE Relay WITH
  Streams <- {"s1"}, OPENING_BUFFER <- 1, DEVICE_QUEUE <- 9, MaxChannels <- 2,
  MaxBytes <- 1, MaxInputs <- 0, MaxFlight <- 2, MaxNoise <- 1,
  bridge <- relay_bridge, task <- relay_task
Remote == INSTANCE RemoteAccess WITH
  Conns <- {"c1", "c2"}, Devices <- {"d1"}, KeyOf <- [c \in {"c1", "c2"} |-> "d1"],
  Requests <- {{"Read"}, {"Control"}, {"Manage"}}, MAX_CONNECTIONS <- 2,
  MAX_UNAUTHENTICATED <- 2, MAX_UNAUTHENTICATED_PER_ADDRESS <- 1,
  AddressOf <- [c1 |-> "a1", c2 |-> "a2"], CONTROL <- TRUE, MaxPairings <- 2,
  MaxRevokes <- 1, task <- remote_task, budget <- remote_budget
Pair == INSTANCE Pairing WITH
  Clients <- {"c1", "c2"}, KeyOf <- [c1 |-> "k1", c2 |-> "k2"],
  AddressOf <- [c1 |-> "a1", c2 |-> "a1"], PAIR_TRIES_PER_CLIENT <- 1,
  PAIR_TRIES_PER_ADDRESS <- 2, PAIR_TRIES_TOTAL <- 2, MaxWindows <- 2, MaxCalls <- 2
PairLock == INSTANCE Pairing WITH
  Clients <- {"c1", "c2"}, KeyOf <- [c1 |-> "k1", c2 |-> "k2"],
  AddressOf <- [c1 |-> "a1", c2 |-> "a1"], PAIR_TRIES_PER_CLIENT <- 2,
  PAIR_TRIES_PER_ADDRESS <- 2, PAIR_TRIES_TOTAL <- 3, MaxWindows <- 2, MaxCalls <- 3
Announce == INSTANCE Discovery WITH
  Hosts <- HostsSeen, WildcardV6 <- FALSE, INITIAL <- 1, MAX <- 3, MaxBinds <- 2,
  MaxChanges <- 1, MaxFaults <- 2, task <- discovery_task

ASSUME Channel!ControlAssumption
ASSUME ChannelLive!ControlAssumption
ASSUME Relays!RelayAssumption
ASSUME RelayLive!RelayAssumption
ASSUME Remote!RemoteAssumption
ASSUME Pair!PairingAssumption
ASSUME PairLock!PairingAssumption
ASSUME Announce!DiscoveryAssumption

InitOfAll ==
  /\ part \in Parts
  /\ Init
  /\ \/ part = "control" /\ Channel!Init
     \/ part = "control_live" /\ ChannelLive!Init
     \/ part \notin {"control", "control_live"} /\ Channel!Init
  /\ \/ part = "relay" /\ Relays!Init
     \/ part = "relay_live" /\ RelayLive!Init
     \/ part \notin {"relay", "relay_live"} /\ Relays!Init
  /\ Remote!Init
  /\ \/ part = "pairing" /\ Pair!Init
     \/ part = "pairing_lock" /\ PairLock!Init
     \/ part \notin {"pairing", "pairing_lock"} /\ Pair!Init
  /\ \/ part = "discovery" /\ Announce!Init
     \/ part \notin {"discovery"} /\ host = {Lo} /\ Announce!Init

NextOfPart ==
  \/ part = "limiter" /\ Next /\ UNCHANGED <<part, channel_vars, relay_vars,
       remote_vars, pairing_vars, discovery_vars>>
  \/ part = "control" /\ Channel!Next /\ UNCHANGED <<part, vars, relay_vars,
       remote_vars, pairing_vars, discovery_vars>>
  \/ part = "control_live" /\ ChannelLive!Next /\ UNCHANGED <<part, vars, relay_vars,
       remote_vars, pairing_vars, discovery_vars>>
  \/ part = "relay" /\ Relays!Next /\ UNCHANGED <<part, vars, channel_vars,
       remote_vars, pairing_vars, discovery_vars>>
  \/ part = "relay_live" /\ RelayLive!Next /\ UNCHANGED <<part, vars, channel_vars,
       remote_vars, pairing_vars, discovery_vars>>
  \/ part = "remote" /\ Remote!Next /\ UNCHANGED <<part, vars, channel_vars,
       relay_vars, pairing_vars, discovery_vars>>
  \/ part = "pairing" /\ Pair!Next /\ UNCHANGED <<part, vars, channel_vars,
       relay_vars, remote_vars, discovery_vars>>
  \/ part = "pairing_lock" /\ PairLock!Next /\ UNCHANGED <<part, vars, channel_vars,
       relay_vars, remote_vars, discovery_vars>>
  \/ part = "discovery" /\ Announce!Next /\ UNCHANGED <<part, vars, channel_vars,
       relay_vars, remote_vars, pairing_vars>>

all_vars == <<part, vars, channel_vars, relay_vars, remote_vars, pairing_vars, discovery_vars>>

SpecOfParts == InitOfAll /\ [][NextOfPart]_all_vars

(* The daemon's serve task polls every branch of its select! that stays       *)
(* ready, the hub polls its tasks and reads and writes its channels, a device *)
(* reads what it is sent, time passes and an operator answers in the end.     *)
(* Nothing makes a source dial, an agent exit, a bind succeed or a device     *)
(* leave.                                                                     *)
OnChannel(A) == part = "control_live" /\ A
OnRelay(A) == part = "relay_live" /\ A
OnPairing(A) == part = "pairing" /\ A
OnAnnounce(A) == part = "discovery" /\ A
FairnessOfParts ==
  /\ WF_channel_vars(OnChannel(ChannelLive!Connect)) /\ WF_channel_vars(OnChannel(ChannelLive!Wake))
  /\ WF_channel_vars(OnChannel(ChannelLive!HandleSend)) /\ WF_channel_vars(OnChannel(ChannelLive!HandleDone))
  /\ WF_channel_vars(OnChannel(ChannelLive!CloseDisallowed))
  /\ WF_channel_vars(OnChannel(ChannelLive!WriteOutbound))
  /\ WF_channel_vars(OnChannel(ChannelLive!ReadRequest)) /\ WF_channel_vars(OnChannel(ChannelLive!SeeClosed))
  /\ WF_relay_vars(OnRelay(RelayLive!DeviceReads)) /\ WF_relay_vars(OnRelay(RelayLive!Respond("s1")))
  /\ WF_relay_vars(OnRelay(RelayLive!activate("s1")))
  /\ \A c \in 1..2 : WF_relay_vars(OnRelay(RelayLive!detach(c)))
  /\ \A g \in 1..2 :
       /\ WF_pairing_vars(OnPairing(Pair!Expire(g))) /\ WF_pairing_vars(OnPairing(Pair!TimedOut(g)))
       /\ WF_pairing_vars(OnPairing(Pair!ChannelEnds(g))) /\ WF_pairing_vars(OnPairing(Pair!TakeFailed(g)))
       /\ WF_pairing_vars(OnPairing(Pair!TakeConfirm(g))) /\ WF_pairing_vars(OnPairing(Pair!Refuse(g)))
  /\ \A b \in 1..2 :
       /\ WF_discovery_vars(OnAnnounce(Announce!RefreshRead(b)))
       /\ WF_discovery_vars(OnAnnounce(Announce!RefreshApply(b)))
       /\ WF_discovery_vars(OnAnnounce(Announce!Poll(b))) /\ WF_discovery_vars(OnAnnounce(Announce!Withdraw(b)))

FairSpecOfParts == SpecOfParts /\ FairnessOfParts

-----------------------------------------------------------------------------
(* The source's end of the control channel: an answer before its frames, no   *)
(* input while `control` is off, every stream ended before a disallowed       *)
(* channel closes, no stream task that outlives its channel (control.rs       *)
(* serve, Bridge and forward).                                                *)
ChannelKeepsItsStreams ==
  /\ [](part = "control" => Channel!TypeOK /\ Channel!OpenedFirst)
  /\ [](part = "control_live" => ChannelLive!InputNeedsControl /\ ChannelLive!TasksEndWithChannel)
  /\ [][part = "control" => Channel!EndsAllFirst]_channel_vars


(* Whatever pairing, re-pairing and revocation come between, a connection     *)
(* holds its slots exactly while it should, can be reached by a revocation,   *)
(* and carries no stream whose scope is gone (remote.rs, service.rs).         *)
RemoteIsScoped ==
  part = "remote" => /\ Remote!TypeOK /\ Remote!ScopesAreClosed /\ Remote!SlotsAreHeld
                     /\ Remote!RevocationReaches /\ Remote!StreamsHoldTheirScope

(* A pairing window lets in one device at most, and both ends agree on which; *)
(* a window that is over is never claimed, closing one spares the next, and a *)
(* client that used up its tries cannot burn the window for the others        *)
(* (service.rs attempt_pairing, remote.rs pair conversation).                 *)
PairingIsSound ==
  /\ [](part = "pairing" => Pair!TypeOK /\ Pair!OneDevicePerWindow /\ Pair!BothEndsAgree)
  /\ Pair!ClaimsAreCurrent /\ Pair!NewerWindowSurvives
  /\ [][part = "pairing_lock" => PairLock!LockedStays]_pairing_vars

(* The hub announces what it believes it announces, and no address of an      *)
(* interface that must not be announced (discovery.rs, endpoints.rs).         *)
AnnouncedIsTrue == part = "discovery" => Announce!TypeOK /\ Announce!BelievedIsPublished /\ Announce!NothingPrivate

=============================================================================
