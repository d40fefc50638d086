---------------------------- MODULE RemoteAccess ----------------------------
(***************************************************************************)
(* Remote connections of paired devices, sessiontap-hub/src/remote.rs with *)
(* the device registry of service.rs, the scopes of scope.rs and the       *)
(* device table of store.rs: admission under the connection limits, the    *)
(* handshake, authentication by device key, requests checked against the   *)
(* stored device and its scopes, streams that depend on a scope, pairing   *)
(* on an open connection, re-pairing with other scopes, revocation, and    *)
(* every way a connection ends.                                            *)
(*                                                                         *)
(* device_gate: a request holds it for reading from the re-read of its     *)
(* device to its effect, revoke and pair_device hold it for writing, so    *)
(* each of these is one step. The closing of a connection takes no gate.   *)
(***************************************************************************)
EXTENDS Naturals, FiniteSets

CONSTANTS
  Conns,             \* remote connections, each used once
  Devices,           \* device keys
  KeyOf,             \* the device key of each connection's certificate
  Requests,          \* scope sets a pairing may ask for
  MAX_CONNECTIONS,
  MAX_UNAUTHENTICATED,
  MAX_UNAUTHENTICATED_PER_ADDRESS,
  AddressOf,         \* the address key of each connection's peer
  CONTROL,           \* remote.control
  MaxPairings,       \* bound: pairings claimed
  MaxRevokes         \* bound: revocations

Scopes == {"Read", "Manage", "Watch", "Control"}

RemoteAssumption ==
  /\ IsFiniteSet(Conns) /\ KeyOf \in [Conns -> Devices]
  /\ Requests \subseteq SUBSET Scopes
  /\ {MAX_CONNECTIONS, MAX_UNAUTHENTICATED, MAX_UNAUTHENTICATED_PER_ADDRESS} \subseteq Nat
  /\ CONTROL \in BOOLEAN /\ {MaxPairings, MaxRevokes} \subseteq Nat

VARIABLES
  stored,     \* the device table: scopes of each paired device
  registry,   \* Hub.connections: handles per device
  conn,       \* per connection: [at, device, authenticated, cancel, withdraw, kill, scopes]
  task,       \* its request task: none, claimed (operator deciding), accepted or rejected
  ticket,     \* whether it holds its unauthenticated slot
  slots,      \* [connections, unauthenticated] permits taken
  addresses,  \* unauthenticated connections counted per address
  terminals,  \* the terminal streams the relay holds for it
  budget

vars == <<stored, registry, conn, task, ticket, slots, addresses, terminals, budget>>

Unpaired == [paired |-> FALSE, scopes |-> {}]
NewConn == [at |-> "new", device |-> FALSE, authenticated |-> FALSE, cancel |-> FALSE,
            withdraw |-> FALSE, kill |-> FALSE, scopes |-> {}]
Peers == {AddressOf[c] : c \in Conns}

Init ==
  /\ stored = [d \in Devices |-> Unpaired]
  /\ registry = [d \in Devices |-> {}]
  /\ conn = [c \in Conns |-> NewConn]
  /\ task = [c \in Conns |-> "none"]
  /\ ticket = [c \in Conns |-> FALSE]
  /\ slots = [connections |-> 0, unauthenticated |-> 0]
  /\ addresses = [a \in Peers |-> 0]
  /\ terminals = [c \in Conns |-> FALSE]
  /\ budget = [pairings |-> MaxPairings, revokes |-> MaxRevokes]

-----------------------------------------------------------------------------
(* Scopes                                                                  *)

(* Scope::expand: control adds watch, then watch adds read. *)
expand(asked) ==
  LET watch == IF "Control" \in asked THEN asked \cup {"Watch"} ELSE asked
  IN IF "Watch" \in watch THEN watch \cup {"Read"} ELSE watch

(* Scope::parse_request: naming none asks for the default. *)
parse_request(asked) == IF asked = {} THEN {"Read", "Manage"} ELSE expand(asked)

is_terminal(scope) == scope \in {"Watch", "Control"}

(* Hub::effective_scopes: terminal scopes count while remote.control is on. *)
effective_scopes(d) == {s \in stored[d].scopes : CONTROL \/ ~is_terminal(s)}

-----------------------------------------------------------------------------
(* Admission                                                               *)

(* RemoteGate::admit: a place in the global limit, in the unauthenticated   *)
(* pool and in the pool of the peer's address; otherwise nothing is kept.   *)
admit(c) ==
  /\ slots.connections < MAX_CONNECTIONS
  /\ slots.unauthenticated < MAX_UNAUTHENTICATED
  /\ addresses[AddressOf[c]] < MAX_UNAUTHENTICATED_PER_ADDRESS

(* serve_remote: an accepted stream that is admitted gets a task; one that  *)
(* is not is dropped.                                                       *)
serve_remote(c) ==
  /\ conn[c].at = "new" /\ admit(c)
  /\ conn' = [conn EXCEPT ![c].at = "handshake"]
  /\ ticket' = [ticket EXCEPT ![c] = TRUE]
  /\ slots' = [connections |-> slots.connections + 1, unauthenticated |-> slots.unauthenticated + 1]
  /\ addresses' = [addresses EXCEPT ![AddressOf[c]] = @ + 1]
  /\ UNCHANGED <<stored, registry, task, terminals, budget>>

(* The ticket of c is dropped: its slot and its address are free again. The *)
(* connection's own place goes with `leaves`.                               *)
Free(c, drops, leaves) ==
  LET freed == drops /\ ticket[c] IN
  /\ ticket' = IF freed THEN [ticket EXCEPT ![c] = FALSE] ELSE ticket
  /\ addresses' = IF freed THEN [addresses EXCEPT ![AddressOf[c]] = @ - 1] ELSE addresses
  /\ slots' = [connections |-> slots.connections - (IF leaves THEN 1 ELSE 0),
               unauthenticated |-> slots.unauthenticated - (IF freed THEN 1 ELSE 0)]

-----------------------------------------------------------------------------
(* Authentication                                                          *)

(* Connection::authenticate: the first time, the connection is registered   *)
(* (pruning finished ones) and leaves the unauthenticated pool.             *)
authenticate(c) ==
  /\ conn' = [conn EXCEPT ![c].device = TRUE, ![c].authenticated = TRUE]
  /\ registry' = IF conn[c].authenticated THEN registry
                 ELSE [registry EXCEPT ![KeyOf[c]] = {h \in @ : ~conn[h].cancel} \cup {c}]
  /\ Free(c, TRUE, FALSE)

(* The TLS handshake is done: the device is looked up by its key. *)
Handshake(c) ==
  /\ conn[c].at = "handshake" /\ ~conn[c].authenticated
  /\ IF stored[KeyOf[c]].paired THEN authenticate(c) /\ UNCHANGED <<task, terminals>>
     ELSE /\ conn' = [conn EXCEPT ![c].at = "upgrade"]
          /\ UNCHANGED <<registry, ticket, slots, addresses, task, terminals>>
  /\ UNCHANGED <<stored, budget>>

(* The handshake or the WebSocket upgrade fails or times out: the function  *)
(* returns at once, without the clean-up of a served connection.            *)
HandshakeFails(c) ==
  /\ conn[c].at \in {"handshake", "upgrade"}
  /\ conn' = [conn EXCEPT ![c].at = "closed"]
  /\ Free(c, TRUE, TRUE)
  /\ UNCHANGED <<stored, registry, task, terminals, budget>>

Upgrade(c) ==
  /\ conn[c].at = "upgrade" \/ (conn[c].at = "handshake" /\ conn[c].authenticated)
  /\ conn' = [conn EXCEPT ![c].at = "open"]
  /\ UNCHANGED <<stored, registry, task, ticket, slots, addresses, terminals, budget>>

-----------------------------------------------------------------------------
(* Requests                                                                *)

Closing(c) == conn[c].cancel \/ conn[c].withdraw

(* device_request: a closing connection answers nothing; the device is read *)
(* again from the store, which authenticates the connection or takes its    *)
(* device away.                                                             *)
Unauthorized(c) ==
  /\ conn[c].at = "open" /\ ~Closing(c) /\ task[c] = "none"
  /\ ~stored[KeyOf[c]].paired /\ conn[c].device
  /\ conn' = [conn EXCEPT ![c].device = FALSE]
  /\ UNCHANGED <<stored, registry, task, ticket, slots, addresses, terminals, budget>>

(* A request whose device is stored and holds the scope its method needs.   *)
Granted(c, scope) ==
  /\ conn[c].at = "open" /\ ~Closing(c) /\ task[c] = "none"
  /\ stored[KeyOf[c]].paired /\ scope \in effective_scopes(KeyOf[c])

(* terminal.open: the stream is recorded under the scope it depends on. *)
terminal_open(c) ==
  /\ Granted(c, "Watch") /\ ~terminals[c] /\ conn[c].authenticated
  /\ conn' = [conn EXCEPT ![c].device = TRUE, ![c].scopes = @ \cup {"Watch"}]
  /\ terminals' = [terminals EXCEPT ![c] = TRUE]
  /\ UNCHANGED <<stored, registry, ticket, slots, addresses, task, budget>>

(* listen, once per connection. *)
listen(c) ==
  /\ Granted(c, "Read") /\ "Read" \notin conn[c].scopes /\ conn[c].authenticated
  /\ conn' = [conn EXCEPT ![c].device = TRUE, ![c].scopes = @ \cup {"Read"}]
  /\ UNCHANGED <<stored, registry, ticket, slots, addresses, task, terminals, budget>>

(* Any request of a connection opened before its device was paired: the     *)
(* re-read authenticates it.                                                *)
LateAuthentication(c) ==
  /\ conn[c].at = "open" /\ ~Closing(c) /\ task[c] = "none"
  /\ stored[KeyOf[c]].paired /\ ~conn[c].authenticated
  /\ authenticate(c)
  /\ UNCHANGED <<stored, task, terminals, budget>>

-----------------------------------------------------------------------------
(* Pairing on a connection, the operator, revocation                       *)

(* pair_complete: the proof consumed the window and the operator is asked. *)
pair_complete(c) ==
  /\ conn[c].at = "open" /\ ~conn[c].cancel /\ task[c] = "none"
  /\ budget.pairings > 0 /\ budget' = [budget EXCEPT !.pairings = @ - 1]
  /\ task' = [task EXCEPT ![c] = "claimed"]
  /\ UNCHANGED <<stored, registry, conn, ticket, slots, addresses, terminals>>

(* Mutant: connections are checked against the scopes the device had. *)
Lost_Stale(c, d, scopes) == ~(conn[c].scopes \subseteq effective_scopes(d))

(* A registered connection loses a scope one of its streams depends on. *)
Lost(c, d, scopes) ==
  ~(conn[c].scopes \subseteq {s \in scopes : CONTROL \/ ~is_terminal(s)})

(* The operator accepts: pair_device stores the device and withdraws the    *)
(* connections that lost a scope; the reply goes to the waiting task.       *)
pair_device(c) ==
  /\ task[c] = "claimed"
  /\ \E asked \in Requests :
       LET d == KeyOf[c]
           scopes == parse_request(asked)
           lost == {o \in registry[d] : Lost(o, d, scopes)}
       IN /\ CONTROL \/ ~\E s \in scopes : is_terminal(s)
          /\ stored' = [stored EXCEPT ![d] = [paired |-> TRUE, scopes |-> scopes]]
          /\ conn' = [o \in Conns |-> IF o \in lost THEN [conn[o] EXCEPT !.withdraw = TRUE] ELSE conn[o]]
          /\ terminals' = [o \in Conns |-> terminals[o] /\ o \notin lost]
  /\ task' = [task EXCEPT ![c] = "accepted"]
  /\ UNCHANGED <<registry, ticket, slots, addresses, budget>>

(* The operator rejects, or the pair command goes away. *)
Reject(c) ==
  /\ task[c] = "claimed"
  /\ task' = [task EXCEPT ![c] = "rejected"]
  /\ UNCHANGED <<stored, registry, conn, ticket, slots, addresses, terminals, budget>>

(* pair_complete goes on with the operator's reply: a rejected one is       *)
(* answered, an accepted one authenticates the connection with the device   *)
(* the reply carries, whatever happened to it since. A task that outlives   *)
(* its connection keeps the unauthenticated slot until here.                *)
PairAnswered(c) ==
  /\ task[c] \in {"accepted", "rejected"}
  /\ task' = [task EXCEPT ![c] = "none"]
  /\ IF task[c] = "accepted" THEN authenticate(c)
     ELSE UNCHANGED <<conn, registry>> /\ Free(c, conn[c].at = "closed", FALSE)
  /\ UNCHANGED <<stored, terminals, budget>>

(* Hub::revoke: the device goes, its handles are cancelled, its terminal    *)
(* streams are released.                                                    *)
revoke(d) ==
  /\ stored[d].paired
  /\ budget.revokes > 0 /\ budget' = [budget EXCEPT !.revokes = @ - 1]
  /\ stored' = [stored EXCEPT ![d] = Unpaired]
  /\ registry' = [registry EXCEPT ![d] = {}]
  /\ conn' = [c \in Conns |-> IF c \in registry[d] THEN [conn[c] EXCEPT !.cancel = TRUE, !.withdraw = TRUE]
                              ELSE conn[c]]
  /\ terminals' = [c \in Conns |-> terminals[c] /\ c \notin registry[d]]
  /\ UNCHANGED <<task, ticket, slots, addresses>>

-----------------------------------------------------------------------------
(* The end of a connection                                                 *)

(* The loop leaves: cancel and withdraw are looked at first, then a policy  *)
(* violation, the deadline of an unauthenticated connection that is not     *)
(* waiting for the operator, and the peer. Afterwards the tokens are        *)
(* cancelled, the relay releases the connection's streams, and a handle     *)
(* that was not revoked is taken from the registry.                         *)
End(c) ==
  LET revoked == conn[c].cancel
      held == conn[c].device /\ ~revoked
  IN /\ conn' = [conn EXCEPT ![c].at = "closed", ![c].cancel = TRUE, ![c].withdraw = TRUE,
                             ![c].device = conn[c].device /\ ~revoked]
     /\ terminals' = [terminals EXCEPT ![c] = FALSE]
     /\ registry' = IF held THEN [registry EXCEPT ![KeyOf[c]] = {h \in @ : ~conn'[h].cancel}]
                    ELSE registry
     /\ Free(c, task[c] = "none", TRUE)
     /\ UNCHANGED <<stored, task, budget>>

(* A cancelled, withdrawn or killed connection is closed by the loop. *)
CloseTold(c) == conn[c].at = "open" /\ (Closing(c) \/ conn[c].kill) /\ End(c)

(* The deadline: an unauthenticated connection is closed, unless the        *)
(* operator is deciding, in which case it is looked at again.               *)
Deadline(c) ==
  /\ conn[c].at = "open" /\ ~conn[c].authenticated
  /\ task[c] \notin {"claimed", "accepted", "rejected"}
  /\ End(c)

(* The peer closes, stops answering pings, or takes no writes. *)
PeerGone(c) == conn[c].at = "open" /\ End(c)

(* An unauthenticated peer that pipelines, or does not read, is killed. *)
Kill(c) ==
  /\ conn[c].at = "open" /\ ~conn[c].authenticated /\ ~conn[c].kill
  /\ conn' = [conn EXCEPT ![c].kill = TRUE]
  /\ UNCHANGED <<stored, registry, task, ticket, slots, addresses, terminals, budget>>

-----------------------------------------------------------------------------
Connecting == \E c \in Conns : serve_remote(c) \/ Handshake(c) \/ HandshakeFails(c) \/ Upgrade(c)
Requesting == \E c \in Conns : Unauthorized(c) \/ terminal_open(c) \/ listen(c) \/ LateAuthentication(c)
Pairing == \E c \in Conns : pair_complete(c) \/ pair_device(c) \/ Reject(c) \/ PairAnswered(c)
Ending == \E c \in Conns : CloseTold(c) \/ Deadline(c) \/ PeerGone(c) \/ Kill(c)

Next == Connecting \/ Requesting \/ Pairing \/ Ending \/ \E d \in Devices : revoke(d)

Spec == Init /\ [][Next]_vars

-----------------------------------------------------------------------------
Alive(c) == conn[c].at \in {"handshake", "upgrade", "open"}

(* The state has its declared shape. *)
TypeOK ==
  /\ \A d \in Devices : stored[d].scopes \subseteq Scopes /\ registry[d] \subseteq Conns
  /\ \A c \in Conns : /\ conn[c].at \in {"new", "handshake", "upgrade", "open", "closed"}
                      /\ conn[c].scopes \subseteq Scopes
                      /\ task[c] \in {"none", "claimed", "accepted", "rejected"}

(* Stored scopes are closed under what they imply, so a device paired with  *)
(* control alone can watch and read (scope.rs:44 "Adds implied scopes").    *)
ScopesAreClosed ==
  \A d \in Devices : /\ "Control" \in stored[d].scopes => "Watch" \in stored[d].scopes
                     /\ "Watch" \in stored[d].scopes => "Read" \in stored[d].scopes

(* Every slot that is taken is held by a connection that is still           *)
(* unauthenticated, or by the pairing task that outlived it, on every path  *)
(* through handshake, authentication, failure and close (remote.rs:123      *)
(* "Dropping it frees both"); and the limits hold.                          *)
SlotsAreHeld ==
  /\ slots.connections = Cardinality({c \in Conns : Alive(c)})
  /\ slots.connections <= MAX_CONNECTIONS
  /\ slots.unauthenticated =
       Cardinality({c \in Conns : ~conn[c].authenticated /\ (Alive(c) \/ (task[c] # "none"))})
  /\ \A a \in Peers : addresses[a] =
       Cardinality({c \in Conns : AddressOf[c] = a /\ ticket[c]})

(* Revocation can reach every connection that acts for a device: an open    *)
(* connection authenticated as a stored device is registered under it, or   *)
(* is already told to close.                                                *)
RevocationReaches ==
  \A c \in Conns :
    conn[c].at = "open" /\ conn[c].authenticated /\ conn[c].device
      => c \in registry[KeyOf[c]] \/ conn[c].cancel

(* No stream outlives the scope it depends on: an open connection that      *)
(* carries a terminal or listen stream has the scope now, or is told to     *)
(* close, whatever re-pairing or revocation came between (openspec          *)
(* hub-remote-access "Streams end when their scope is withdrawn").          *)
StreamsHoldTheirScope ==
  \A c \in Conns :
    conn[c].at = "open" /\ ~Closing(c) =>
      /\ terminals[c] => "Watch" \in effective_scopes(KeyOf[c])
      /\ "Read" \in conn[c].scopes => "Read" \in effective_scopes(KeyOf[c])

=============================================================================
