------------------------------ MODULE Ingestion ------------------------------
(***************************************************************************)
(* Who may write to the hub: the hub's configuration (hub/config.rs) and   *)
(* what it starts with (hub/main.rs), the tokens that bind a bearer to     *)
(* source IDs (hub/ingest.rs, infra/token.rs), and what a daemon's hub     *)
(* sink makes of the answers (sessiontapd/sinks, workers.rs).              *)
(*                                                                         *)
(* The operator edits the configuration and rotates token files on either  *)
(* side at any time, also while a request is under way.  What the hub      *)
(* stores is in Delivery, how it reads a request in HttpReader; here a     *)
(* request has a size and a bearer.                                        *)
(***************************************************************************)
EXTENDS Integers, FiniteSets, Sequences

CONSTANTS
  None,
  Daemons,
  Claim,         \* daemon -> the source ID of its configuration
  Far,           \* daemons that do not reach the hub's loopback address
  Auth,          \* daemon -> its sink's [file, env], None or a value each
  Paths, Tokens, \* token files, and what may be in them ("" is nothing)
  Files,         \* states of the hub's configuration file
  Supports,      \* may a hub know the daemons' schema version?
  Sizes,         \* bytes of an update
  max_rejected_attempts,
  MaxUpdates, MaxEdits, MaxRotations, MaxStarts \* bounds

(* A configuration and its remote section, as they parse.                  *)
RemoteConfig(r) == r.listen \in Seq(STRING) /\ r.discovery \in BOOLEAN /\ r.blank \in BOOLEAN
HubConfig(c) ==
  /\ {c.version, c.max_body_bytes, c.max_concurrent_commands, c.command_timeout_secs} \subseteq Nat
  /\ c.listen \in STRING /\ \A s \in DOMAIN c.sources : c.sources[s] \in Paths \cup {""}
  /\ c.subscriptions \in Seq(Seq(Nat)) \* the lengths of a subscription's commands
  /\ c.remote = None \/ RemoteConfig(c.remote)

IngestionAssumption ==
  /\ Far \subseteq Daemons /\ "" \in Tokens /\ Supports \subseteq BOOLEAN
  /\ \A d \in Daemons : Auth[d].file \in Paths \cup {None} /\ Auth[d].env \in Tokens \cup {None}
  /\ {max_rejected_attempts, MaxUpdates, MaxEdits, MaxRotations, MaxStarts} \subseteq Nat
  /\ \A f \in Files : f.state \in {"missing", "unreadable", "unknown field", "parsed"} /\ HubConfig(f.config)

VARIABLES
  file,       \* the hub's configuration file: its state, and the config in it
  tokens,     \* path -> [token, private]
  hub,        \* [up, config, supports, bound]
  base,       \* source -> has the hub a baseline of it?
  stored,     \* source -> the updates it has taken, as [daemon, update]
  due,        \* daemon -> must its sink send a snapshot first?
  update,     \* daemon -> [id, size, attempts] at the head of its outbox, None when empty
  wire,       \* daemon -> its request under way: [kind, bearer, status], or None
  dropped,    \* [daemon, id, size, refusals] of the updates given up (history)
  refusals,   \* daemon -> how often its update was rejected (history)
  unfit,      \* has a hub run that does not know the schema version? (history)
  edits, rotations, starts

operator == <<file, tokens, edits, rotations>>
sink == <<due, update, dropped, refusals>>
vars == <<operator, hub, base, stored, sink, wire, unfit, starts>>

-----------------------------------------------------------------------------
(* The hub's configuration.                                                *)

Default == [version |-> 1, listen |-> "loopback", sources |-> [s \in {} |-> ""], max_body_bytes |-> 2,
            max_concurrent_commands |-> 4, command_timeout_secs |-> 30, subscriptions |-> <<>>, remote |-> None]

Range(s) == {s[i] : i \in DOMAIN s}
SocketAddrs == {"wildcard", "lan", "vpn"}

(* What remote.listen parses to: entries that do not parse are left out.   *)
listen_mode(remote) == SelectSeq(remote.listen, LAMBDA entry : entry \in SocketAddrs)

validate_remote(remote) ==
  /\ remote.listen # <<>> /\ Range(remote.listen) \subseteq SocketAddrs
  /\ "wildcard" \in Range(remote.listen) => Len(remote.listen) = 1
  /\ remote.discovery => listen_mode(remote) = <<"wildcard">>
  /\ ~remote.blank \* an empty advertise entry or name

validate(c) ==
  /\ c.version = 1
  /\ c.listen \in {"loopback", "public"}
  /\ \A s \in DOMAIN c.sources : s # "" /\ c.sources[s] # ""
  /\ c.listen = "loopback" \/ DOMAIN c.sources # {}
  /\ c.max_concurrent_commands > 0 /\ c.command_timeout_secs > 0
  /\ c.remote = None \/ validate_remote(c.remote)
  /\ \A i \in DOMAIN c.subscriptions : c.subscriptions[i] # <<>> /\ 0 \notin Range(c.subscriptions[i])

Loads(f) == f.state = "missing" \/ (f.state = "parsed" /\ validate(f.config))
load(f) == IF f.state = "parsed" THEN f.config ELSE Default

(* A file that does not load is reported, and the defaults run.            *)
Start ==
  /\ ~hub.up /\ starts < MaxStarts
  /\ starts' = starts + 1
  /\ \E supports \in Supports :
       LET config == IF Loads(file) THEN load(file) ELSE Default
       IN  /\ hub' = [up |-> TRUE, config |-> config, supports |-> supports,
                      bound |-> IF config.remote = None THEN {} ELSE Range(listen_mode(config.remote))]
           /\ unfit' = (unfit \/ ~supports)
  /\ UNCHANGED <<operator, base, stored, sink, wire>>

(* Requests it has not answered are lost with it.                          *)
Stop ==
  /\ hub.up
  /\ hub' = [hub EXCEPT !.up = FALSE, !.bound = {}]
  /\ wire' = [d \in Daemons |-> IF wire[d] # None /\ wire[d].status = None
                                THEN [wire[d] EXCEPT !.status = 0] ELSE wire[d]]
  /\ UNCHANGED <<operator, base, stored, sink, unfit, starts>>

-----------------------------------------------------------------------------
(* The operator.                                                           *)

EditFile ==
  /\ edits < MaxEdits /\ edits' = edits + 1
  /\ \E f \in Files : file' = f
  /\ UNCHANGED <<tokens, rotations, hub, base, stored, sink, wire, unfit, starts>>

Rotate ==
  /\ rotations < MaxRotations /\ rotations' = rotations + 1
  /\ \E p \in Paths, t \in Tokens, private \in BOOLEAN :
       tokens' = [tokens EXCEPT ![p] = [token |-> t, private |-> private]]
  /\ UNCHANGED <<file, edits, hub, base, stored, sink, wire, unfit, starts>>

-----------------------------------------------------------------------------
(* Tokens.  A file must be private and no link; what cannot be read is     *)
(* None.                                                                   *)

read_private_token(path) == IF tokens[path].private THEN tokens[path].token ELSE None

(* The bearer a daemon sends: the file's before the variable's; "" for     *)
(* none.  None when the file cannot be read, and nothing is sent.          *)
TokenSource(d) ==
  CASE Auth[d].file # None -> read_private_token(Auth[d].file)
    [] Auth[d].file = None /\ Auth[d].env # None -> Auth[d].env
    [] OTHER -> ""

(* The source IDs a bearer may write.                                      *)
permitted(bearer) ==
  {s \in DOMAIN hub.config.sources : read_private_token(hub.config.sources[s]) = bearer /\ bearer # ""}

-----------------------------------------------------------------------------
(* A delivery.                                                             *)

NextUpdate(d) ==
  /\ update[d] = None
  /\ \E size \in Sizes :
       LET ids == {r.id : r \in UNION {{r \in stored[s] : r.daemon = d} : s \in DOMAIN stored}}
                    \cup {r.id : r \in {x \in dropped : x.daemon = d}}
           id == Cardinality(ids) + 1
       IN  id <= MaxUpdates /\ update' = [update EXCEPT ![d] = [id |-> id, size |-> size, attempts |-> 0]]
  /\ refusals' = [refusals EXCEPT ![d] = 0]
  /\ UNCHANGED <<operator, hub, base, stored, due, dropped, wire, unfit, starts>>

Reaches(d) == hub.up /\ (d \in Far => hub.config.listen = "public")

(* The sink reads its token and posts.                                     *)
Send(d) ==
  /\ wire[d] = None /\ (due[d] \/ update[d] # None)
  /\ wire' = [wire EXCEPT ![d] =
       [kind |-> IF due[d] THEN "snapshot" ELSE "update",
        bearer |-> TokenSource(d),
        status |-> IF Reaches(d) /\ TokenSource(d) # None THEN None ELSE 0]]
  /\ UNCHANGED <<operator, hub, base, stored, sink, unfit, starts>>

(* Mutant: a token of any source will do.                                  *)
handle_ingest_AnySource(d) ==
  LET allowed == permitted(wire[d].bearer)
  IN  IF wire[d].kind = "update" /\ update[d].size > hub.config.max_body_bytes THEN 413
      ELSE IF DOMAIN hub.config.sources # {} /\ allowed = {} THEN 401
      ELSE IF ~hub.supports THEN 400
      ELSE IF wire[d].kind = "update" /\ ~base[Claim[d]] THEN 409
      ELSE 200

handle_ingest(d) ==
  LET allowed == permitted(wire[d].bearer)
  IN  IF wire[d].kind = "update" /\ update[d].size > hub.config.max_body_bytes THEN 413
      ELSE IF DOMAIN hub.config.sources # {} /\ allowed = {} THEN 401
      ELSE IF DOMAIN hub.config.sources # {} /\ Claim[d] \notin allowed THEN 403
      ELSE IF ~hub.supports THEN 400
      ELSE IF wire[d].kind = "update" /\ ~base[Claim[d]] THEN 409
      ELSE 200

Serve(d) ==
  /\ hub.up /\ wire[d] # None /\ wire[d].status = None
  /\ LET status == handle_ingest(d)
     IN  /\ wire' = [wire EXCEPT ![d].status = status]
         /\ base' = IF status = 200 THEN [base EXCEPT ![Claim[d]] = TRUE] ELSE base
         /\ stored' = IF status = 200 /\ wire[d].kind = "update"
                      THEN [stored EXCEPT ![Claim[d]] = @ \cup {[daemon |-> d, id |-> update[d].id]}]
                      ELSE stored
  /\ UNCHANGED <<operator, hub, sink, unfit, starts>>

(* The answer is lost, or the sink gave up waiting for it.                 *)
Lose(d) ==
  /\ wire[d] # None /\ wire[d].status # 0
  /\ wire' = [wire EXCEPT ![d].status = 0]
  /\ UNCHANGED <<operator, hub, base, stored, sink, unfit, starts>>

(* What a status means to the sink.                                        *)
post(status) ==
  CASE status = 200 -> "Ack"
    [] status = 409 -> "SnapshotRequired"
    [] status \in {0, 401, 403} -> "Retry"
    [] OTHER -> "Reject"

Lesser(a, b) == IF a < b THEN a ELSE b
Retry(d) == update' = [update EXCEPT ![d].attempts = Lesser(@ + 1, max_rejected_attempts)]

DeliverSnapshot(d, outcome) ==
  /\ wire[d].kind = "snapshot"
  /\ due' = [due EXCEPT ![d] = outcome # "Ack"]
  /\ UNCHANGED <<update, dropped, refusals>>

DeliverUpdate(d, outcome) ==
  /\ wire[d].kind = "update"
  /\ CASE outcome = "Ack" ->
            update' = [update EXCEPT ![d] = None] /\ UNCHANGED <<due, dropped, refusals>>
       [] outcome = "Retry" -> Retry(d) /\ UNCHANGED <<due, dropped, refusals>>
       [] outcome = "SnapshotRequired" ->
            Retry(d) /\ due' = [due EXCEPT ![d] = TRUE] /\ UNCHANGED <<dropped, refusals>>
       [] outcome = "Reject" ->
            /\ refusals' = [refusals EXCEPT ![d] = Lesser(@ + 1, max_rejected_attempts)]
            /\ IF update[d].attempts + 1 >= max_rejected_attempts
               THEN /\ due' = [due EXCEPT ![d] = TRUE]
                    /\ update' = [update EXCEPT ![d] = None]
                    /\ dropped' = dropped \cup {[daemon |-> d, id |-> update[d].id, size |-> update[d].size,
                                                 refusals |-> refusals'[d]]}
               ELSE Retry(d) /\ UNCHANGED <<due, dropped>>

Answer(d) ==
  /\ wire[d] # None /\ wire[d].status # None
  /\ DeliverSnapshot(d, post(wire[d].status)) \/ DeliverUpdate(d, post(wire[d].status))
  /\ wire' = [wire EXCEPT ![d] = None]
  /\ UNCHANGED <<operator, hub, base, stored, unfit, starts>>

Init ==
  /\ file \in Files
  /\ tokens \in [Paths -> [token: Tokens, private: {TRUE}]]
  /\ hub = [up |-> FALSE, config |-> Default, supports |-> TRUE, bound |-> {}]
  /\ base = [s \in {Claim[d] : d \in Daemons} |-> FALSE]
  /\ stored = [s \in {Claim[d] : d \in Daemons} |-> {}]
  /\ due \in [Daemons -> BOOLEAN] \* a daemon may have had its baseline taken by another hub
  /\ update = [d \in Daemons |-> None]
  /\ wire = [d \in Daemons |-> None]
  /\ dropped = {} /\ refusals = [d \in Daemons |-> 0] /\ unfit = FALSE
  /\ edits = 0 /\ rotations = 0 /\ starts = 0

Exchange(d) == Send(d) \/ Serve(d) \/ Answer(d)
Next ==
  \/ Start \/ Stop \/ EditFile \/ Rotate
  \/ \E d \in Daemons : NextUpdate(d) \/ Exchange(d) \/ Lose(d)
Spec == Init /\ [][Next]_vars

-----------------------------------------------------------------------------
TypeOK ==
  /\ file \in Files /\ tokens \in [Paths -> [token: Tokens, private: BOOLEAN]]
  /\ hub.up \in BOOLEAN /\ HubConfig(hub.config) /\ hub.bound \subseteq SocketAddrs
  /\ base \in [DOMAIN stored -> BOOLEAN] /\ due \in [Daemons -> BOOLEAN]
  /\ \A d \in Daemons :
       /\ update[d] = None \/ update[d] \in [id: 1..MaxUpdates, size: Sizes, attempts: 0..max_rejected_attempts]
       /\ wire[d] = None \/ wire[d].status \in {None, 0, 200, 400, 401, 403, 409, 413}
       /\ (wire[d] # None /\ wire[d].kind = "update") => update[d] # None
       /\ refusals[d] \in 0..max_rejected_attempts

(* "A token authorizes writes only for the source IDs whose token file     *)
(* yields it, so one source can never write another source's agents"       *)
(* (docs/hub.md:160): whatever a daemon claims to be, and whatever was     *)
(* rotated while its request was under way, its source is written only     *)
(* with the token the source's file holds at that moment.                  *)
OnlyItsSource ==
  \A d \in Daemons, s \in DOMAIN stored :
    (stored'[s] # stored[s] /\ DOMAIN hub.config.sources # {} /\ wire'[d] # wire[d]) =>
      /\ s \in DOMAIN hub.config.sources
      /\ LET f == tokens[hub.config.sources[s]]
         IN  f.private /\ f.token = wire[d].bearer /\ f.token # ""

(* The hub "never binds that address unauthenticated" (docs/hub.md:179): a *)
(* daemon on another machine never writes to a hub that asks for no token, *)
(* not even one whose file was refused.                                    *)
FarNeedsToken ==
  \A d \in Far : (\E s \in DOMAIN stored : stored'[s] # stored[s]) /\ wire'[d] # wire[d]
                   => DOMAIN hub.config.sources # {}

(* "Rejected requests change no state" (docs/hub.md:173), and the sink     *)
(* drops only what the hub really refused: an update that fits every hub   *)
(* there was is never given up, however its credential fared               *)
(* (sinks/hub.rs:50: "keep the delivery queued instead of dropping it").   *)
FittingIsNeverDropped ==
  \A r \in dropped : unfit \/ \E f \in Files \cup {[state |-> "parsed", config |-> Default]} :
                                  f.state = "parsed" /\ r.size > f.config.max_body_bytes

(* The remote listener binds every address the file names: validate lets   *)
(* none through that listen_mode would leave out (config.rs:105, "call     *)
(* after `validate`").                                                     *)
EveryAddressBound ==
  (hub.up /\ hub.config.remote # None) =>
    /\ hub.bound = Range(hub.config.remote.listen)
    /\ hub.config.remote.discovery => hub.bound = {"wildcard"}

=============================================================================
