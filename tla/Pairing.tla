------------------------------ MODULE Pairing ------------------------------
(***************************************************************************)
(* Pairing a device, sessiontap-hub: the pairing window and its attempts   *)
(* (service.rs open_pairing, close_pairing, attempt_pairing), the          *)
(* operator's pair conversation (service.rs pair_conversation, cli.rs      *)
(* pair), and the device's pair.begin and pair.complete (remote.rs).       *)
(* A window is its generation; a proof names the generation of the secret  *)
(* it was made from, 0 for none.                                           *)
(***************************************************************************)
EXTENDS Naturals, Sequences, FiniteSets

CONSTANTS
  Clients,                \* connections with a client certificate
  KeyOf,                  \* the key of each client
  AddressOf,              \* the address key of each client
  PAIR_TRIES_PER_CLIENT,
  PAIR_TRIES_PER_ADDRESS,
  PAIR_TRIES_TOTAL,
  MaxWindows,             \* bound: pair commands
  MaxCalls                \* bound: pair.begin calls

PairingAssumption ==
  /\ IsFiniteSet(Clients)
  /\ {PAIR_TRIES_PER_CLIENT, PAIR_TRIES_PER_ADDRESS, PAIR_TRIES_TOTAL} \subseteq Nat \ {0}
  /\ {MaxWindows, MaxCalls} \subseteq Nat

Generations == 1..MaxWindows
Keys == {KeyOf[c] : c \in Clients}
ClientAddresses == {AddressOf[c] : c \in Clients}

VARIABLES
  generation,  \* the last generation opened
  window,      \* the open window, 0 for none
  expired,     \* windows whose time is over
  failures,    \* [key, address, total] invalid proofs since the last window opened
  conv,        \* per window, the conversation: none, open, confirm or its outcome
  events,      \* per window, the event channel: Failed, or the client to confirm
  nonce,       \* per client, whether a nonce is outstanding
  call,        \* per client, pair.complete: [at, window]
  reply,       \* per client, the operator's reply
  calls,       \* pair.begin calls so far
  paired       \* <<client, window>> pairs pair_device stored

vars == <<generation, window, expired, failures, conv, events, nonce, call, reply, calls, paired>>

NoFailures == [key |-> [k \in Keys |-> 0], address |-> [a \in ClientAddresses |-> 0], total |-> 0]
Idle == [at |-> "idle", window |-> 0]

Init ==
  /\ generation = 0 /\ window = 0 /\ expired = {} /\ failures = NoFailures
  /\ conv = [g \in Generations |-> "none"] /\ events = [g \in Generations |-> <<>>]
  /\ nonce = [c \in Clients |-> FALSE] /\ call = [c \in Clients |-> Idle]
  /\ reply = [c \in Clients |-> "none"] /\ calls = 0 /\ paired = {}

-----------------------------------------------------------------------------
(* The window                                                              *)

(* open_pairing, after the checks of pair_conversation on its request: the  *)
(* conversation of a window that is replaced is told.                       *)
open_pairing ==
  /\ generation < MaxWindows
  /\ generation' = generation + 1
  /\ window' = generation + 1
  /\ failures' = NoFailures
  /\ events' = IF window = 0 THEN events ELSE [events EXCEPT ![window] = Append(@, "Failed")]
  /\ conv' = [conv EXCEPT ![generation + 1] = "open"]
  /\ UNCHANGED <<expired, nonce, call, reply, calls, paired>>

(* pair_ttl runs out for window g. *)
Expire(g) ==
  /\ g <= generation /\ g \notin expired
  /\ expired' = expired \cup {g}
  /\ UNCHANGED <<generation, window, failures, conv, events, nonce, call, reply, calls, paired>>

(* Mutant: the conversation closes whichever window is open. *)
close_pairing_Any(g) == 0

(* close_pairing: only the given generation. *)
close_pairing(g) == IF window = g THEN 0 ELSE window

-----------------------------------------------------------------------------
(* The operator's conversation                                             *)

(* The replies nobody will send any more: the conversation of g is over and *)
(* its receiver, with what is queued there, is dropped.                     *)
DropReplies(g, told) ==
  [c \in Clients |-> IF c \in told \/ \E i \in DOMAIN events[g] : events[g][i] = c
                     THEN "dropped" ELSE reply[c]]

Leave(g, outcome, closes, told) ==
  /\ conv' = [conv EXCEPT ![g] = outcome]
  /\ window' = IF closes THEN close_pairing(g) ELSE window
  /\ reply' = DropReplies(g, told)
  /\ events' = [events EXCEPT ![g] = <<>>]
  /\ UNCHANGED <<generation, expired, failures, nonce, call, calls>>

(* The pair command cannot be written to: the window stays until it expires. *)
WriteFails(g) == conv[g] = "open" /\ Leave(g, "gone", FALSE, {}) /\ UNCHANGED paired

(* The operator goes away, or types before there is a question. *)
OperatorLeaves(g) == conv[g] = "open" /\ Leave(g, "gone", TRUE, {}) /\ UNCHANGED paired

TimedOut(g) ==
  conv[g] = "open" /\ g \in expired /\ Leave(g, "expired", TRUE, {}) /\ UNCHANGED paired

(* A call holds the sending side of g's channel. *)
Sending(g) == window = g \/ \E c \in Clients : call[c] = [at |-> "claimed", window |-> g]

(* The channel ends without an event: reported as expired. *)
ChannelEnds(g) ==
  /\ conv[g] = "open" /\ events[g] = <<>> /\ ~Sending(g)
  /\ Leave(g, "expired", TRUE, {}) /\ UNCHANGED paired

TakeFailed(g) ==
  /\ conv[g] = "open" /\ events[g] # <<>> /\ Head(events[g]) = "Failed"
  /\ Leave(g, "failed", FALSE, {}) /\ UNCHANGED paired

(* The question for the operator; the conversation holds the reply. *)
TakeConfirm(g) ==
  /\ conv[g] = "open" /\ events[g] # <<>> /\ Head(events[g]) # "Failed"
  /\ conv' = [conv EXCEPT ![g] = "confirm"]
  /\ UNCHANGED <<generation, window, expired, failures, events, nonce, call, reply, calls, paired>>

Asking(g) == Head(events[g])

(* The operator accepts: pair_device stores the client's key, then replies. *)
Accept(g) ==
  /\ conv[g] = "confirm"
  /\ conv' = [conv EXCEPT ![g] = "paired"]
  /\ paired' = paired \cup {<<Asking(g), g>>}
  /\ reply' = [reply EXCEPT ![Asking(g)] = "accepted"]
  /\ events' = [events EXCEPT ![g] = <<>>]
  /\ UNCHANGED <<generation, window, expired, failures, nonce, call, calls>>

(* The operator refuses, leaves, or the device cannot be stored. *)
Refuse(g) ==
  /\ conv[g] = "confirm"
  /\ Leave(g, "rejected", FALSE, {Asking(g)}) /\ UNCHANGED paired

-----------------------------------------------------------------------------
(* The device                                                              *)

(* pair.begin, within the rate limit. *)
pair_begin(c) ==
  /\ calls < MaxCalls /\ calls' = calls + 1
  /\ nonce' = [nonce EXCEPT ![c] = TRUE]
  /\ UNCHANGED <<generation, window, expired, failures, conv, events, call, reply, paired>>

Locked(c) ==
  \/ failures.key[KeyOf[c]] >= PAIR_TRIES_PER_CLIENT
  \/ failures.address[AddressOf[c]] >= PAIR_TRIES_PER_ADDRESS

Consumed == 0

Over == window \in expired

(* attempt_pairing with a proof made from the secret of window `proof`, at  *)
(* most one pair.complete of a client waiting at a time. A refusal is       *)
(* answered at once.                                                        *)
attempt_pairing(c, proof) ==
  LET counted == [key |-> [failures.key EXCEPT ![KeyOf[c]] = @ + 1],
                  address |-> [failures.address EXCEPT ![AddressOf[c]] = @ + 1],
                  total |-> failures.total + 1]
      burnt == counted.total >= PAIR_TRIES_TOTAL
  IN /\ nonce[c] /\ call[c].at \notin {"claimed", "waiting"}
     /\ nonce' = [nonce EXCEPT ![c] = FALSE]
     /\ \/ /\ Locked(c)
           /\ call' = [call EXCEPT ![c] = [at |-> "pairing_failed", window |-> 0]]
           /\ UNCHANGED <<window, failures, events>>
        \/ /\ ~Locked(c) /\ (window = 0 \/ Over)
           /\ call' = [call EXCEPT ![c] = [at |-> "pairing_closed", window |-> 0]]
           /\ window' = 0
           /\ UNCHANGED <<failures, events>>
        \/ /\ ~Locked(c) /\ window # 0 /\ ~Over /\ proof = window
           /\ call' = [call EXCEPT ![c] = [at |-> "claimed", window |-> window]]
           /\ window' = Consumed
           /\ UNCHANGED <<failures, events>>
        \/ /\ ~Locked(c) /\ window # 0 /\ ~Over /\ proof # window
           /\ call' = [call EXCEPT ![c] = [at |-> "pairing_failed", window |-> 0]]
           /\ failures' = counted
           /\ window' = IF burnt THEN 0 ELSE window
           /\ events' = IF burnt THEN [events EXCEPT ![window] = Append(@, "Failed")] ELSE events
     /\ reply' = [reply EXCEPT ![c] = "none"]
     /\ UNCHANGED <<generation, expired, conv, calls, paired>>

(* The Confirm is sent to the conversation, if there still is one. *)
SendConfirm(c) ==
  LET g == call[c].window IN
  /\ call[c].at = "claimed"
  /\ IF conv[g] = "open"
     THEN /\ events' = [events EXCEPT ![g] = Append(@, c)]
          /\ call' = [call EXCEPT ![c].at = "waiting"]
     ELSE /\ call' = [call EXCEPT ![c].at = "pairing_closed"]
          /\ UNCHANGED events
  /\ UNCHANGED <<generation, window, expired, failures, conv, nonce, reply, calls, paired>>

Answer(r) == IF r = "accepted" THEN "ok" ELSE "pairing_rejected"

pair_complete(c) ==
  /\ call[c].at = "waiting" /\ reply[c] # "none"
  /\ call' = [call EXCEPT ![c].at = Answer(reply[c])]
  /\ UNCHANGED <<generation, window, expired, failures, conv, events, nonce, reply, calls, paired>>

-----------------------------------------------------------------------------
Operator ==
  \/ open_pairing
  \/ \E g \in Generations :
       \/ Expire(g) \/ WriteFails(g) \/ OperatorLeaves(g) \/ TimedOut(g) \/ ChannelEnds(g)
       \/ TakeFailed(g) \/ TakeConfirm(g) \/ Accept(g) \/ Refuse(g)

Device ==
  \E c \in Clients :
    \/ pair_begin(c) \/ SendConfirm(c) \/ pair_complete(c)
    \/ \E proof \in 0..generation : attempt_pairing(c, proof)

Next == Operator \/ Device

Spec == Init /\ [][Next]_vars

-----------------------------------------------------------------------------
(* The state has its declared shape, and the counted failures stay within   *)
(* the tries.                                                               *)
TypeOK ==
  /\ generation \in 0..MaxWindows /\ window \in 0..generation
  /\ \A g \in Generations : events[g] \in Seq({"Failed"} \cup Clients) /\ Len(events[g]) <= 4
  /\ \A k \in Keys : failures.key[k] \in 0..PAIR_TRIES_PER_CLIENT
  /\ \A a \in ClientAddresses : failures.address[a] \in 0..PAIR_TRIES_PER_ADDRESS
  /\ failures.total \in 0..PAIR_TRIES_TOTAL

(* A window pairs one device at most, also when its conversation, its       *)
(* expiry and two clients with the secret race (service.rs attempt_pairing  *)
(* "A valid MAC consumes the window").                                      *)
OneDevicePerWindow ==
  \A g \in Generations :
    Cardinality({c \in Clients : call[c].window = g} \cup {c \in Clients : <<c, g>> \in paired}) <= 1

(* The two ends agree: a device is told ok exactly when the operator was    *)
(* told it is paired, and a conversation that ended otherwise never leaves  *)
(* a client that was told ok.                                               *)
BothEndsAgree ==
  \A c \in Clients :
    call[c].at = "ok" => <<c, call[c].window>> \in paired /\ conv[call[c].window] = "paired"

(* A window that was replaced, burnt, closed or left is never claimed: when *)
(* a claim is taken, its conversation has not been told an outcome, other   *)
(* than by its own time or by the operator going away without a word.       *)
ClaimsAreCurrent ==
  [][\A c \in Clients : call'[c].at = "claimed" /\ call[c].at # "claimed" =>
       /\ call'[c].window = generation /\ call'[c].window \notin expired
       /\ conv[call'[c].window] \in {"open", "gone"}]_vars

(* A locked client stays locked until the next window, and its further      *)
(* proofs are not counted: they cannot burn the window for the others       *)
(* (service.rs:95 "so a locked-out client stays locked out until the next   *)
(* window").                                                                *)
LockedStays ==
  \A c \in Clients :
    /\ failures.key[KeyOf[c]] >= PAIR_TRIES_PER_CLIENT
         \/ failures.address[AddressOf[c]] >= PAIR_TRIES_PER_ADDRESS
    /\ nonce[c] /\ ~nonce'[c]
    => call'[c].at = "pairing_failed" /\ failures' = failures /\ window' = window

(* A conversation that ends leaves the window of a later pair command open. *)
NewerWindowSurvives ==
  [][\A g \in Generations : conv[g] = "open" /\ conv'[g] # "open" /\ window # g
       => window' = window]_vars

(* An open conversation always comes to an outcome, whatever happens to its *)
(* window: expiry, replacement, too many failures, or a claim.              *)
OperatorIsTold == \A g \in Generations : conv[g] = "open" ~> conv[g] \notin {"none", "open"}

=============================================================================
