----------------------------- MODULE Broadcast ------------------------------
(***************************************************************************)
(* tokio::sync::broadcast as the daemon, the hub and the terminal sessions *)
(* use it: one log of sent messages, of which the newest `capacity` are    *)
(* kept, and for every receiver the number of messages it has passed.      *)
(***************************************************************************)
EXTENDS Naturals, Sequences

Caught(sent, at) == at = Len(sent)

(* recv answers Lagged when the next message is no longer kept; it then moves *)
(* the receiver to the oldest one that is.                                    *)
Lagged(sent, at, capacity) == Len(sent) - at > capacity

OldestKept(sent, capacity) == Len(sent) - capacity

Receivable(sent, at, capacity) == ~ Caught(sent, at) /\ ~ Lagged(sent, at, capacity)

Received(sent, at) == sent[at + 1]
=============================================================================
