-------------------------- MODULE HttpReaderProofs --------------------------
(***************************************************************************)
(* HttpReader judges, reads and refuses a request by its own bytes and the *)
(* limits, for every request, every limit, every size of a read and every  *)
(* way of splitting the bytes into pieces.                                 *)
(*                                                                         *)
(* ReaderIsExact is not inductive: what a verdict rests on changes while   *)
(* the connection drains. A verdict is either that of the whole request,   *)
(* or that of a request whose client is gone and whose bytes are all read. *)
(***************************************************************************)
EXTENDS HttpReader, TLAPS

(* A request is judged as it would be in one piece, or as what came of it     *)
(* when nothing more can.                                                     *)
Judged ==
  outcome \notin {None, "Io"} /\ ~ AtTheLimit =>
    \/ outcome = Verdict(Total)
    \/ peer # "open" /\ arrived = bytes /\ outcome = Verdict(bytes)

(* A refused connection is closed when its input has ended, or its patience.  *)
DrainedFirst ==
  phase = "closed" /\ outcome \in Errors \ {"Io"} =>
    late \/ drained >= DRAIN_LIMIT \/ (peer # "open" /\ ~ reset)

(* Where the reader is. *)
Progress ==
  /\ phase \in {"headers", "body"} => outcome = None /\ drained = 0
  /\ phase = "drain" => outcome \in Errors \ {"Io"}
  /\ phase # "closed" => ~ reset
  /\ phase = "headers" => bytes <= max_header_bytes + Chunk
  /\ phase = "body" => /\ bytes >= header_end
                       /\ request.head <= max_header_bytes /\ request.parses
                       /\ content_length \in Nat /\ content_length <= max_body_bytes

ReaderInv ==
  TypeOK /\ Progress /\ Judged /\ DrainedFirst /\ BodyIsTheDeclaredOne /\ BufferIsBounded

-----------------------------------------------------------------------------
(* Facts used by several actions. *)

(* The types the arithmetic needs. *)
LEMMA Sizes ==
  ASSUME request \in Requests
  PROVE  /\ request.head \in Nat /\ request.rest \in Nat /\ request.parses \in BOOLEAN
         /\ header_end \in Nat /\ Total \in Nat /\ header_end <= Total
         /\ header_end = request.head + 4
         /\ content_length \in Nat \cup {LengthRequired} /\ LengthRequired \notin Nat
<1>1. /\ request.head \in Nat /\ request.rest \in Nat /\ request.parses \in BOOLEAN
      /\ request.length \in Nat \cup {None, NotANumber}
  BY HttpAssumption
<1>2. /\ header_end \in Nat /\ Total \in Nat /\ header_end <= Total
      /\ header_end = request.head + 4
  BY <1>1 DEF header_end, Total, BlankLine
<1>3. content_length \in Nat \cup {LengthRequired} /\ LengthRequired \notin Nat
  BY <1>1 DEF content_length, LengthRequired
<1> QED
  BY <1>1, <1>2, <1>3

(* The limits and a read are numbers. *)
LEMMA Limits ==
  /\ max_header_bytes \in Nat /\ max_body_bytes \in Nat /\ DRAIN_LIMIT \in Nat
  /\ Chunk \in Nat /\ Chunk > 0
  /\ None \notin Errors /\ None # "Request"
BY HttpAssumption

(* A read takes something, at most a chunk, and only what has arrived. *)
LEMMA TakenBounds ==
  ASSUME TypeOK, arrived > bytes
  PROVE  /\ Taken(bytes) \in Nat /\ Taken(bytes) > bytes
         /\ Taken(bytes) <= arrived /\ Taken(bytes) <= bytes + Chunk
<1>1. arrived \in Nat /\ bytes \in Nat
  BY Sizes DEF TypeOK
<1> QED
  BY <1>1, Limits DEF Taken

(* What a request deserves that came as far as its headers. *)
LEMMA VerdictOfHead ==
  ASSUME request \in Requests, NEW sent \in Nat, sent >= header_end
  PROVE  /\ request.head > max_header_bytes => Verdict(sent) = "HeadersTooLarge"
         /\ request.head <= max_header_bytes /\ ~ request.parses => Verdict(sent) = "Malformed"
         /\ request.head <= max_header_bytes /\ request.parses =>
              /\ content_length = LengthRequired => Verdict(sent) = "LengthRequired"
              /\ content_length > max_body_bytes => Verdict(sent) = "BodyTooLarge"
              /\ content_length \in Nat /\ content_length <= max_body_bytes =>
                   Verdict(sent) = IF sent - header_end < content_length
                                   THEN "Malformed" ELSE "Request"
<1>1. /\ request.head \in Nat /\ header_end \in Nat /\ max_header_bytes \in Nat
      /\ max_body_bytes \in Nat /\ request.parses \in BOOLEAN
      /\ content_length \in Nat \cup {LengthRequired} /\ LengthRequired \notin Nat
      /\ LengthRequired = -2
  BY Sizes, Limits DEF LengthRequired
<1>2. ~ (sent < header_end)
  BY <1>1
<1>3. CASE request.head > max_header_bytes
  BY <1>1, <1>2, <1>3 DEF Verdict
<1>4. CASE request.head <= max_header_bytes /\ ~ request.parses
  BY <1>1, <1>2, <1>4 DEF Verdict
<1>5. CASE request.head <= max_header_bytes /\ request.parses
  BY <1>1, <1>2, <1>5 DEF Verdict
<1> QED
  BY <1>1, <1>3, <1>4, <1>5

(* What a request deserves that ends within its headers. *)
LEMMA VerdictOfCut ==
  ASSUME request \in Requests, NEW sent \in Nat, sent < header_end
  PROVE  Verdict(sent) = IF sent > max_header_bytes THEN "HeadersTooLarge" ELSE "Malformed"
<1>1. ~ (sent >= header_end)
  BY Sizes
<1> QED
  BY <1>1 DEF Verdict

(* What a whole request deserves is a matter of the request alone. *)
LEMMA SameVerdict ==
  ASSUME UNCHANGED request
  PROVE  Verdict(Total)' = Verdict(Total) /\ AtTheLimit' = AtTheLimit
BY DEF Verdict, Total, header_end, content_length, AtTheLimit

(* Refusing leaves the counts alone. *)
LEMMA FailKeeps ==
  ASSUME ReaderInv, NEW error \in Errors, Fail(error), phase \in {"headers", "body"},
         error # "Io" /\ ~ AtTheLimit =>
           \/ error = Verdict(Total)
           \/ peer # "open" /\ arrived = bytes /\ error = Verdict(bytes)
  PROVE  ReaderInv'
<1>1. /\ outcome' = error /\ phase' = IF error = "Io" THEN "closed" ELSE "drain"
      /\ UNCHANGED <<request, arrived, peer, bytes, body, drained, late, reset>>
  BY DEF Fail
<1>2. error \notin {None, "Request"} /\ error \in Errors
  BY Limits DEF Errors
<1>3. TypeOK'
  BY <1>1, <1>2 DEF ReaderInv, TypeOK, Total
<1>4. ~ reset
  BY DEF ReaderInv, Progress
<1>5. Progress'
  BY <1>1, <1>2, <1>4 DEF Progress
<1>6. Judged'
  BY <1>1, <1>2, Zenon DEF Judged, AtTheLimit, Verdict, Total, header_end, content_length
<1>7. DrainedFirst' /\ BodyIsTheDeclaredOne' /\ BufferIsBounded'
  BY <1>1, <1>2 DEF ReaderInv, DrainedFirst, BodyIsTheDeclaredOne, BufferIsBounded
<1> QED
  BY <1>3, <1>5, <1>6, <1>7 DEF ReaderInv

(* Reading on keeps the buffer within its bound. *)
LEMMA ReadKeeps ==
  ASSUME ReaderInv, ReadMore,
         \/ phase = "headers" /\ bytes <= max_header_bytes
         \/ phase = "body" /\ bytes - header_end < content_length
  PROVE  ReaderInv'
<1>1. /\ arrived > bytes /\ bytes' = Taken(bytes)
      /\ UNCHANGED <<request, arrived, peer, phase, outcome, body, drained, late, reset>>
  BY DEF ReadMore
<1>2. bytes' \in Nat /\ bytes' > bytes /\ bytes' <= arrived /\ bytes' <= bytes + Chunk
  BY <1>1, TakenBounds DEF ReaderInv
<1>3. /\ request \in Requests /\ bytes \in Nat /\ arrived \in Nat /\ outcome = None /\ drained = 0
  BY Sizes DEF ReaderInv, TypeOK, Progress
<1>4. TypeOK'
  BY <1>1, <1>2, <1>3, Sizes DEF ReaderInv, TypeOK, Total
<1>5. Progress' /\ BufferIsBounded'
  <2>1. CASE phase = "headers"
    BY <1>1, <1>2, <1>3, <2>1, Limits DEF Progress, BufferIsBounded, ReaderInv, BlankLine
  <2>2. CASE phase = "body"
    <3>1. /\ bytes >= header_end /\ request.head <= max_header_bytes /\ request.parses
          /\ content_length \in Nat /\ content_length <= max_body_bytes
          /\ header_end \in Nat /\ header_end = request.head + 4 /\ request.head \in Nat
      BY <1>3, <2>2, Sizes DEF ReaderInv, Progress
    <3>2. header_end' = header_end /\ content_length' = content_length
      BY <1>1 DEF header_end, content_length
    <3>3. BufferIsBounded'
      BY <1>1, <1>2, <1>3, <2>2, <3>1, Limits DEF BufferIsBounded, BlankLine
    <3>4. bytes' >= header_end
      BY <1>2, <1>3, <3>1
    <3> QED
      BY <1>1, <2>2, <3>1, <3>2, <3>3, <3>4 DEF Progress, ReaderInv
  <2> QED
    BY <2>1, <2>2
<1>6. Judged' /\ DrainedFirst' /\ BodyIsTheDeclaredOne'
  BY <1>1, <1>3, Limits DEF Judged, DrainedFirst, BodyIsTheDeclaredOne
<1> QED
  BY <1>4, <1>5, <1>6 DEF ReaderInv

-----------------------------------------------------------------------------
(* The client. *)

(* Bytes that arrive change no verdict: one of a cut request is given only    *)
(* when no more can come.                                                     *)
LEMMA ClientKeeps ==
  ASSUME ReaderInv, Arrive \/ PeerCloses
  PROVE  ReaderInv'
<1>1. /\ UNCHANGED <<request, bytes, phase, outcome, body, drained, late>>
      /\ peer = "open" /\ peer' \in {"open", "closed", "broken"}
  BY DEF Arrive, PeerCloses, ReaderInv, TypeOK
<1>2. /\ request \in Requests /\ arrived \in Nat /\ bytes \in Nat /\ bytes <= arrived
      /\ Total \in Nat /\ arrived <= Total /\ reset \in BOOLEAN
  BY Sizes DEF ReaderInv, TypeOK
<1>3. arrived' \in Nat /\ arrived <= arrived' /\ arrived' <= Total
  <2>1. CASE Arrive
    <3>1. PICK n \in 1..(Total - arrived) : arrived' = arrived + n
      BY <2>1 DEF Arrive
    <3> QED
      BY <1>2, <3>1
  <2> QED
    BY <1>2, <2>1 DEF PeerCloses
<1>4. reset' \in BOOLEAN /\ (reset' = reset \/ phase = "closed")
  BY <1>2, Zenon DEF Arrive, PeerCloses
<1>5. UNCHANGED <<Total, header_end, content_length>>
  BY <1>1 DEF Total, header_end, content_length
<1>6. TypeOK'
  BY <1>1, <1>2, <1>3, <1>4, <1>5 DEF ReaderInv, TypeOK
<1>7. Progress' /\ BufferIsBounded'
  BY <1>1, <1>4, <1>5 DEF ReaderInv, Progress, BufferIsBounded
<1>8. Judged'
  BY <1>1, <1>5, Zenon DEF ReaderInv, Judged, AtTheLimit, Verdict
<1>9. DrainedFirst'
  BY <1>1 DEF ReaderInv, DrainedFirst
<1>10. BodyIsTheDeclaredOne'
  <2>1. outcome = "Request" => content_length \in Nat \cup {LengthRequired} /\ header_end \in Nat
    BY <1>2, Sizes
  <2> QED
    BY <1>1, <1>2, <1>3, <1>5, <2>1 DEF ReaderInv, BodyIsTheDeclaredOne, LengthRequired
<1> QED
  BY <1>6, <1>7, <1>8, <1>9, <1>10 DEF ReaderInv

-----------------------------------------------------------------------------
(* The reader. *)

(* The end of the input: what came is all there is. *)
LEMMA EndKeeps ==
  ASSUME ReaderInv, ReadEnd,
         \/ phase = "headers" /\ bytes < header_end /\ bytes <= max_header_bytes
         \/ phase = "body" /\ bytes - header_end < content_length
  PROVE  ReaderInv'
<1>1. /\ arrived = bytes /\ peer # "open" /\ request \in Requests /\ bytes \in Nat
      /\ Fail(IF peer = "closed" THEN "Malformed" ELSE "Io")
  BY Sizes DEF ReadEnd, ReaderInv, TypeOK
<1>2. Verdict(bytes) = "Malformed"
  <2>1. CASE phase = "headers"
    BY <1>1, <2>1, VerdictOfCut, Limits
  <2>2. CASE phase = "body"
    <3>1. /\ bytes >= header_end /\ request.head <= max_header_bytes /\ request.parses
          /\ content_length \in Nat /\ content_length <= max_body_bytes
      BY <2>2 DEF ReaderInv, Progress
    <3> QED
      BY <1>1, <2>2, <3>1, VerdictOfHead
  <2> QED
    BY <2>1, <2>2
<1>3. {"Malformed", "Io"} \subseteq Errors
  BY DEF Errors
<1> QED
  BY <1>1, <1>2, <1>3, FailKeeps

(* Headers that are too large before they end are too large at their end,     *)
(* unless they end within a blank line of the limit.                          *)
LEMMA SearchKeeps ==
  ASSUME ReaderInv, SearchHeaderEnd
  PROVE  ReaderInv'
<1>1. /\ phase = "headers" /\ bytes < header_end /\ request \in Requests /\ bytes \in Nat
      /\ bytes <= Total
  BY Sizes DEF SearchHeaderEnd, ReaderInv, TypeOK
<1>2. CASE bytes > max_header_bytes
  <2>1. Fail("HeadersTooLarge") /\ "HeadersTooLarge" \in Errors
    BY <1>2 DEF SearchHeaderEnd, Errors
  <2>2. ASSUME ~ AtTheLimit PROVE Verdict(Total) = "HeadersTooLarge"
    <3>1. request.head > max_header_bytes
      BY <1>1, <1>2, <2>2, Sizes, Limits DEF AtTheLimit, BlankLine
    <3> QED
      BY <1>1, <3>1, VerdictOfHead, Sizes
  <2> QED
    BY <1>1, <2>1, <2>2, FailKeeps
<1>3. CASE ~ (bytes > max_header_bytes)
  <2>1. bytes <= max_header_bytes /\ (ReadMore \/ ReadEnd)
    BY <1>1, <1>3, Limits DEF SearchHeaderEnd
  <2> QED
    BY <1>1, <2>1, ReadKeeps, EndKeeps
<1> QED
  BY <1>2, <1>3

(* The whole headers decide, whatever was read beyond them. *)
LEMMA ParseKeeps ==
  ASSUME ReaderInv, ParseHead
  PROVE  ReaderInv'
<1>1. /\ phase = "headers" /\ bytes >= header_end /\ request \in Requests
      /\ Total \in Nat /\ Total >= header_end /\ request.parses \in BOOLEAN
      /\ request.head \in Nat /\ content_length \in Nat \cup {LengthRequired}
      /\ LengthRequired = -2
  BY Sizes DEF ParseHead, ReaderInv, TypeOK, LengthRequired
<1>2. ASSUME NEW error \in Errors, Fail(error), error = Verdict(Total) PROVE ReaderInv'
  BY <1>1, <1>2, FailKeeps
<1>3. Errors \cap {"HeadersTooLarge", "Malformed", "LengthRequired", "BodyTooLarge"} =
        {"HeadersTooLarge", "Malformed", "LengthRequired", "BodyTooLarge"}
  BY DEF Errors
<1>4. CASE request.head > max_header_bytes
  <2>1. Fail("HeadersTooLarge")
    BY <1>4 DEF ParseHead
  <2> QED
    BY <1>1, <1>2, <1>3, <1>4, <2>1, VerdictOfHead
<1>5. CASE request.head <= max_header_bytes /\ ~ request.parses
  <2>1. Fail("Malformed")
    BY <1>1, <1>5, Limits DEF ParseHead
  <2> QED
    BY <1>1, <1>2, <1>3, <1>5, <2>1, VerdictOfHead
<1>6. CASE /\ request.head <= max_header_bytes /\ request.parses
           /\ content_length = LengthRequired
  <2>1. Fail("LengthRequired")
    BY <1>1, <1>6, Limits DEF ParseHead
  <2> QED
    BY <1>1, <1>2, <1>3, <1>6, <2>1, VerdictOfHead
<1>7. CASE /\ request.head <= max_header_bytes /\ request.parses
           /\ content_length # LengthRequired /\ content_length > max_body_bytes
  <2>1. Fail("BodyTooLarge")
    BY <1>1, <1>7, Limits DEF ParseHead
  <2> QED
    BY <1>1, <1>2, <1>3, <1>7, <2>1, VerdictOfHead
<1>8. CASE /\ request.head <= max_header_bytes /\ request.parses
           /\ content_length # LengthRequired /\ content_length <= max_body_bytes
  <2>1. /\ phase' = "body"
        /\ UNCHANGED <<request, arrived, peer, bytes, outcome, body, drained, late, reset>>
    BY <1>1, <1>8, Limits DEF ParseHead
  <2>2. content_length \in Nat /\ outcome = None /\ drained = 0 /\ ~ reset
    BY <1>1, <1>8 DEF ReaderInv, Progress
  <2>3. UNCHANGED <<Total, header_end, content_length>>
    BY <2>1 DEF Total, header_end, content_length
  <2>4. TypeOK' /\ Progress'
    BY <1>1, <1>8, <2>1, <2>2, <2>3 DEF ReaderInv, TypeOK, Progress
  <2>5. Judged' /\ DrainedFirst' /\ BodyIsTheDeclaredOne' /\ BufferIsBounded'
    BY <2>1, <2>2, Limits DEF ReaderInv, Judged, DrainedFirst, BodyIsTheDeclaredOne,
       BufferIsBounded
  <2> QED
    BY <2>4, <2>5 DEF ReaderInv
<1> QED
  BY <1>1, <1>4, <1>5, <1>6, <1>7, <1>8, Limits

(* A request is handed on when its declared body is there. *)
LEMMA BodyKeeps ==
  ASSUME ReaderInv, ReadBody
  PROVE  ReaderInv'
<1>1. /\ phase = "body" /\ request \in Requests /\ bytes \in Nat /\ arrived \in Nat
      /\ bytes <= arrived /\ arrived <= Total /\ Total \in Nat /\ header_end \in Nat
      /\ bytes >= header_end /\ request.head <= max_header_bytes /\ request.parses
      /\ content_length \in Nat /\ content_length <= max_body_bytes
      /\ outcome = None /\ drained = 0
  BY Sizes DEF ReadBody, ReaderInv, TypeOK, Progress
<1>2. CASE bytes - header_end < content_length
  <2>1. ReadMore \/ ReadEnd
    BY <1>2 DEF ReadBody
  <2> QED
    BY <1>1, <1>2, <2>1, ReadKeeps, EndKeeps
<1>3. CASE ~ (bytes - header_end < content_length)
  <2>1. /\ outcome' = "Request" /\ body' = content_length /\ phase' = "closed"
        /\ reset' = (arrived > bytes)
        /\ UNCHANGED <<request, arrived, peer, bytes, drained, late>>
    BY <1>3 DEF ReadBody
  <2>2. UNCHANGED <<Total, header_end, content_length>>
    BY <2>1 DEF Total, header_end, content_length
  <2>3. TypeOK' /\ Progress'
    BY <1>1, <2>1, <2>2 DEF ReaderInv, TypeOK, Progress
  <2>4. Verdict(Total) = "Request"
    <3>1. Total >= header_end /\ ~ (Total - header_end < content_length)
      BY <1>1, <1>3
    <3> QED
      BY <1>1, <3>1, VerdictOfHead
  <2>5. Judged'
    BY <2>1, <2>2, <2>4, Zenon DEF Judged, AtTheLimit, Verdict
  <2>6. DrainedFirst'
    BY <2>1 DEF DrainedFirst, Errors
  <2>7. BodyIsTheDeclaredOne' /\ BufferIsBounded'
    BY <1>1, <1>3, <2>1, <2>2 DEF ReaderInv, BodyIsTheDeclaredOne, BufferIsBounded
  <2> QED
    BY <2>3, <2>5, <2>6, <2>7 DEF ReaderInv
<1> QED
  BY <1>2, <1>3

(* Draining discards what it reads, and ends at the end of the input, at its  *)
(* limit, or when its time is over.                                           *)
LEMMA DrainKeeps ==
  ASSUME ReaderInv, Drain
  PROVE  ReaderInv'
<1>1. /\ phase = "drain" /\ request \in Requests /\ bytes \in Nat /\ arrived \in Nat
      /\ bytes <= arrived /\ drained \in Nat /\ outcome \in Errors \ {"Io"}
      /\ UNCHANGED <<request, arrived, peer, outcome, body, late>>
  BY Sizes DEF Drain, ReaderInv, TypeOK, Progress
<1>2. UNCHANGED <<Total, header_end, content_length>>
  BY <1>1 DEF Total, header_end, content_length
<1>3. outcome # "Request"
  BY <1>1 DEF Errors
<1>4. CASE Finished
  <2>1. phase' = "closed" /\ reset' = (arrived > bytes) /\ UNCHANGED <<bytes, drained>>
    BY <1>4 DEF Drain
  <2>2. TypeOK' /\ Progress'
    BY <1>1, <1>2, <2>1 DEF ReaderInv, TypeOK, Progress
  <2>3. Judged' /\ BodyIsTheDeclaredOne' /\ BufferIsBounded'
    BY <1>1, <1>2, <1>3, <2>1, Zenon DEF ReaderInv, Judged, AtTheLimit, Verdict,
       BodyIsTheDeclaredOne, BufferIsBounded
  <2>4. DrainedFirst'
    <3>1. arrived = bytes => ~ (arrived > bytes)
      BY <1>1
    <3> QED
      BY <1>1, <1>4, <2>1, <3>1, Zenon DEF DrainedFirst, Finished
  <2> QED
    BY <2>2, <2>3, <2>4 DEF ReaderInv
<1>5. CASE ~ Finished
  <2>1. /\ arrived > bytes /\ bytes' = Taken(bytes) /\ drained' = drained + (bytes' - bytes)
        /\ UNCHANGED <<phase, reset>>
    BY <1>5 DEF Drain
  <2>2. bytes' \in Nat /\ bytes' > bytes /\ bytes' <= arrived
    BY <2>1, TakenBounds DEF ReaderInv
  <2>3. drained' \in Nat /\ bytes' - drained' = bytes - drained
    BY <1>1, <2>1, <2>2
  <2>4. TypeOK'
    BY <1>1, <1>2, <2>1, <2>2, <2>3 DEF ReaderInv, TypeOK
  <2>5. Progress' /\ DrainedFirst'
    BY <1>1, <2>1 DEF ReaderInv, Progress, DrainedFirst
  <2>6. Judged'
    <3>1. arrived # bytes
      BY <1>1, <2>1
    <3> QED
      BY <1>1, <3>1, SameVerdict DEF ReaderInv, Judged
  <2>7. BodyIsTheDeclaredOne' /\ BufferIsBounded'
    BY <1>1, <1>3, <2>3 DEF ReaderInv, BodyIsTheDeclaredOne, BufferIsBounded
  <2> QED
    BY <2>4, <2>5, <2>6, <2>7 DEF ReaderInv
<1> QED
  BY <1>4, <1>5

(* The timer of the draining. *)
LEMMA TimeOutKeeps ==
  ASSUME ReaderInv, TimeOut
  PROVE  ReaderInv'
<1>1. /\ late' = TRUE
      /\ UNCHANGED <<request, arrived, peer, bytes, phase, outcome, body, drained, reset>>
  BY DEF TimeOut
<1>2. UNCHANGED <<Total, header_end, content_length>>
  BY <1>1 DEF Total, header_end, content_length
<1> QED
  BY <1>1, <1>2, Zenon DEF ReaderInv, TypeOK, Progress, Judged, AtTheLimit, Verdict,
     DrainedFirst, BodyIsTheDeclaredOne, BufferIsBounded

-----------------------------------------------------------------------------

(* Nothing has arrived, and nothing is judged. *)
LEMMA InitReader == Init => ReaderInv
<1>1. ASSUME Init PROVE ReaderInv
  <2>1. Total \in Nat
    BY <1>1, Sizes DEF Init
  <2>2. TypeOK
    <3>1. arrived \in 0..Total /\ bytes \in 0..arrived /\ drained \in Nat /\ body \in Nat
      BY <1>1, <2>1 DEF Init
    <3>2. QED
      BY <1>1, <3>1, Zenon DEF Init, TypeOK
  <2>3. Progress /\ BufferIsBounded
    BY <1>1, Limits DEF Init, Progress, BufferIsBounded, BlankLine
  <2>4. Judged /\ DrainedFirst /\ BodyIsTheDeclaredOne
    BY <1>1, Limits DEF Init, Judged, DrainedFirst, BodyIsTheDeclaredOne
  <2> QED
    BY <2>2, <2>3, <2>4 DEF ReaderInv
<1> QED
  BY <1>1

(* ReaderInv is inductive. *)
LEMMA NextReader == ReaderInv /\ [Next]_vars => ReaderInv'
<1>1. ASSUME ReaderInv, UNCHANGED vars PROVE ReaderInv'
  <2>1. UNCHANGED <<Total, header_end, content_length>>
    BY <1>1 DEF vars, Total, header_end, content_length
  <2> QED
    BY <1>1, <2>1, Zenon DEF vars, ReaderInv, TypeOK, Progress, Judged, AtTheLimit, Verdict,
       DrainedFirst, BodyIsTheDeclaredOne, BufferIsBounded
<1> QED
  BY <1>1, ClientKeeps, SearchKeeps, ParseKeeps, BodyKeeps, DrainKeeps, TimeOutKeeps
     DEF Next, Hub

(* In every state the reader stands where its bytes put it. *)
THEOREM ReaderInvariant == Spec => []ReaderInv
BY InitReader, NextReader, PTL DEF Spec

(* ReaderIsExact: read_http_request and the draining of ingest.rs judge a     *)
(* request by its bytes and not by how they were split into reads, hand on    *)
(* the declared body and no other, buffer a bounded amount, and let a refusal *)
(* reach a client that stays within the bounds of the draining.               *)
THEOREM ReaderAlwaysExact == Spec => []ReaderIsExact
<1>1. ASSUME ReaderInv PROVE ReaderIsExact
  <2>1. request \in Requests /\ bytes \in Nat /\ Total \in Nat /\ bytes <= Total
    BY <1>1, Sizes DEF ReaderInv, TypeOK
  <2>2. bytes \in bytes..Total /\ Total \in bytes..Total
    BY <2>1
  <2>3. PiecesDoNotMatter
    BY <1>1, <2>2 DEF ReaderInv, Judged, PiecesDoNotMatter
  <2>4. RefusalSurvives
    BY <1>1 DEF ReaderInv, DrainedFirst, RefusalSurvives
  <2> QED
    BY <1>1, <2>3, <2>4 DEF ReaderInv, ReaderIsExact
<1> QED
  BY <1>1, ReaderInvariant, PTL
=============================================================================
