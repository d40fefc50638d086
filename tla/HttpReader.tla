----------------------------- MODULE HttpReader -----------------------------
(***************************************************************************)
(* One connection to the hub's ingestion port: how a request is read       *)
(* (sessiontap-infra/http.rs), and how a request that cannot be read is    *)
(* refused and its connection closed (hub/ingest.rs).                      *)
(*                                                                         *)
(* A request is the lengths of its parts: the bytes before the blank line, *)
(* the blank line itself, the bytes after it.  The client's bytes arrive   *)
(* in pieces of any size, the client may stop or vanish at any byte, and a *)
(* read takes what has arrived, at most one chunk of it.                   *)
(***************************************************************************)
EXTENDS Integers

CONSTANTS
  None,
  Requests,          \* the requests a client may send
  max_header_bytes,
  max_body_bytes,
  Chunk,             \* bytes of one read
  DRAIN_LIMIT        \* bytes discarded after a refusal

BlankLine == 4
NotANumber == -1
LengthRequired == -2
Errors == {"Malformed", "LengthRequired", "HeadersTooLarge", "BodyTooLarge", "Io"}

ASSUME HttpAssumption ==
  /\ {max_header_bytes, max_body_bytes, DRAIN_LIMIT} \subseteq Nat /\ Chunk \in Nat \ {0}
  /\ None \notin Int /\ None \notin Errors \cup {"Request"}
  /\ \A r \in Requests :
       /\ r.head \in Nat /\ r.rest \in Nat /\ r.parses \in BOOLEAN
       /\ r.length \in Nat \cup {None, NotANumber}   \* its content-length

VARIABLES
  request,
  arrived,   \* bytes that have reached the hub
  peer,      \* the client: "open", "closed" (nothing more comes) or "broken"
  bytes,     \* bytes the hub has read
  phase,     \* "headers", "body", "drain" or "closed"
  outcome,   \* None, an error or "Request"
  body,      \* bytes of the request's body
  drained,   \* bytes discarded after a refusal
  late,      \* did the 500 ms of the draining pass?
  reset      \* did the kernel answer unread input with a reset?

vars == <<request, arrived, peer, bytes, phase, outcome, body, drained, late, reset>>

Total == request.head + BlankLine + request.rest
header_end == request.head + BlankLine

Init ==
  /\ request \in Requests
  /\ arrived = 0 /\ bytes = 0 /\ body = 0 /\ drained = 0
  /\ peer = "open" /\ phase = "headers" /\ outcome = None
  /\ late = FALSE /\ reset = FALSE

-----------------------------------------------------------------------------
(* The client and the network.                                             *)

Arrive ==
  /\ peer = "open" /\ arrived < Total
  /\ \E n \in 1..(Total - arrived) : arrived' = arrived + n
  /\ reset' = (reset \/ phase = "closed")
  /\ UNCHANGED <<request, peer, bytes, phase, outcome, body, drained, late>>

(* It closes its side: done, or dead before the request was complete.      *)
PeerCloses ==
  /\ peer = "open"
  /\ \E p \in {"closed", "broken"} : peer' = p
  /\ UNCHANGED <<request, arrived, bytes, phase, outcome, body, drained, late, reset>>

-----------------------------------------------------------------------------
(* Reading.                                                                *)

Taken(from) == IF arrived - from < Chunk THEN arrived ELSE from + Chunk

(* The length of the body the headers declare, or the error.               *)
content_length ==
  CASE request.length \in Nat -> request.length
    [] request.length = None /\ request.method = "GET" -> 0
    [] OTHER -> LengthRequired

(* A refusal writes its response, shuts this side down and drains; an I/O  *)
(* failure leaves nobody to answer.                                        *)
Fail(error) ==
  /\ outcome' = error
  /\ phase' = IF error = "Io" THEN "closed" ELSE "drain"
  /\ UNCHANGED <<request, arrived, peer, bytes, body, drained, late, reset>>

ReadMore ==
  /\ arrived > bytes
  /\ bytes' = Taken(bytes)
  /\ UNCHANGED <<request, arrived, peer, phase, outcome, body, drained, late, reset>>

(* A read after the last byte: end of input, or an error.                  *)
ReadEnd == arrived = bytes /\ peer # "open" /\ Fail(IF peer = "closed" THEN "Malformed" ELSE "Io")

(* Mutant: the limit leaves no room for the chunk that completes it.       *)
SearchHeaderEnd_Chunked ==
  /\ phase = "headers" /\ bytes < header_end
  /\ IF bytes + Chunk > max_header_bytes THEN Fail("HeadersTooLarge") ELSE ReadMore \/ ReadEnd
SearchHeaderEnd ==
  /\ phase = "headers" /\ bytes < header_end
  /\ IF bytes > max_header_bytes THEN Fail("HeadersTooLarge") ELSE ReadMore \/ ReadEnd

ParseHead ==
  /\ phase = "headers" /\ bytes >= header_end
  /\ IF request.head > max_header_bytes THEN Fail("HeadersTooLarge")
     ELSE IF ~request.parses THEN Fail("Malformed")
     ELSE IF content_length = LengthRequired THEN Fail("LengthRequired")
     ELSE IF content_length > max_body_bytes THEN Fail("BodyTooLarge")
     ELSE /\ phase' = "body"
          /\ UNCHANGED <<request, arrived, peer, bytes, outcome, body, drained, late, reset>>

(* The declared body and nothing after it: what follows is left unread     *)
(* when the response has been written.                                     *)
ReadBody ==
  /\ phase = "body"
  /\ IF bytes - header_end < content_length
     THEN ReadMore \/ ReadEnd
     ELSE /\ outcome' = "Request" /\ body' = content_length /\ phase' = "closed"
          /\ reset' = (arrived > bytes)
          /\ UNCHANGED <<request, arrived, peer, bytes, drained, late>>

-----------------------------------------------------------------------------
(* Draining: at most DRAIN_LIMIT bytes and 500 ms, so that the response is *)
(* not destroyed by a reset; then the connection is dropped.               *)

Finished == drained >= DRAIN_LIMIT \/ late \/ (arrived = bytes /\ peer # "open")

Drain ==
  /\ phase = "drain"
  /\ IF Finished
     THEN phase' = "closed" /\ reset' = (arrived > bytes) /\ UNCHANGED <<bytes, drained>>
     ELSE /\ arrived > bytes
          /\ bytes' = Taken(bytes) /\ drained' = drained + (bytes' - bytes)
          /\ UNCHANGED <<phase, reset>>
  /\ UNCHANGED <<request, arrived, peer, outcome, body, late>>

TimeOut == phase = "drain" /\ ~late /\ late' = TRUE
           /\ UNCHANGED <<request, arrived, peer, bytes, phase, outcome, body, drained, reset>>

Hub == SearchHeaderEnd \/ ParseHead \/ ReadBody \/ Drain

Next == Arrive \/ PeerCloses \/ Hub \/ TimeOut
Spec == Init /\ [][Next]_vars

-----------------------------------------------------------------------------
TypeOK ==
  /\ request \in Requests
  /\ arrived \in 0..Total /\ bytes \in 0..arrived /\ drained \in Nat
  /\ peer \in {"open", "closed", "broken"}
  /\ phase \in {"headers", "body", "drain", "closed"}
  /\ outcome \in {None, "Request"} \cup Errors /\ body \in Nat
  /\ late \in BOOLEAN /\ reset \in BOOLEAN

(* What the request deserves, whatever pieces it arrived in: the limits    *)
(* of HttpLimits, then the errors of HttpReadError.  `sent` is how much of *)
(* it ever came.                                                           *)
Verdict(sent) ==
  CASE sent < header_end -> IF sent > max_header_bytes THEN "HeadersTooLarge" ELSE "Malformed"
    [] sent >= header_end /\ request.head > max_header_bytes -> "HeadersTooLarge"
    [] sent >= header_end /\ request.head <= max_header_bytes ->
         CASE ~request.parses -> "Malformed"
           [] request.parses /\ content_length = LengthRequired -> "LengthRequired"
           [] request.parses /\ content_length \in Nat ->
                CASE content_length > max_body_bytes -> "BodyTooLarge"
                  [] content_length <= max_body_bytes /\ sent - header_end < content_length -> "Malformed"
                  [] OTHER -> "Request"

(* Headers that end within a blank line of the limit.                      *)
AtTheLimit == max_header_bytes - request.head \in 0..(BlankLine - 2)

(* What the hub makes of a request does not depend on how its bytes were   *)
(* split into reads (read_http_request): of two clients that sent the same *)
(* bytes, none is refused and the other taken.  Headers that end within a  *)
(* blank line of the limit are the exception: while the blank line is cut, *)
(* the loop compares all it has read with the limit (http.rs:69).          *)
PiecesDoNotMatter ==
  (outcome \notin {None, "Io"} /\ ~AtTheLimit) => (\E sent \in bytes..Total : outcome = Verdict(sent))

(* A body cut short is never handed on: "the connection ended before the   *)
(* headers or declared body were complete" is Malformed (http.rs:36), and  *)
(* bytes after the declared body are not part of it.                       *)
BodyIsTheDeclaredOne ==
  outcome = "Request" => (body = content_length /\ arrived >= header_end + content_length)

(* One connection buffers at most its limits and one chunk, however much   *)
(* the client sends (the header check inside the loop, http.rs:69, and the *)
(* body check before the body is read, http.rs:117).                       *)
BufferIsBounded ==
  bytes - drained <= max_header_bytes + BlankLine + max_body_bytes + Chunk

(* A refusal reaches the client: after writing it the hub discards "a      *)
(* bounded amount of unread request input so the kernel does not answer    *)
(* the peer with a reset that could destroy the rejection response"        *)
(* (ingest.rs:287).  A client that sends more than the bound, or more      *)
(* slowly than the timer, may still lose it.                               *)
RefusalSurvives ==
  (phase = "closed" /\ outcome \in Errors \ {"Io"} /\ reset) => (late \/ drained >= DRAIN_LIMIT)

(* All of the above: a request is judged, read and refused by its own bytes *)
(* and the limits, whatever pieces it comes in (read_http_request, with the *)
(* draining of ingest.rs).                                                  *)
ReaderIsExact == PiecesDoNotMatter /\ BodyIsTheDeclaredOne /\ BufferIsBounded /\ RefusalSurvives

(* A connection ends once the client has sent what it declared or is gone: *)
(* only one that stalls in the middle keeps it, for there is no timer on   *)
(* reading a request.                                                      *)
EndsAfterInput ==
  (peer # "open" \/ (arrived = Total /\ content_length <= request.rest)) ~> (phase = "closed")

=============================================================================
