---------------------------- MODULE ChatTransport ----------------------------
(***************************************************************************)
(* One question to a model over HTTPS: the URL the configuration gives, the*)
(* HTTP exchange with the provider and the reading of its answer.          *)
(*                                                                         *)
(* A provider's behaviour is a record. up: it takes the connection.        *)
(* status: the code of its status line, or NotHttp. framing: how the body  *)
(* is delimited ("length", "chunked", "close"; "garbled" when a header or a*)
(* size cannot be read). pieces: the sizes of the parts of the body, and   *)
(* arrive: how many of them come before the connection ends or goes        *)
(* silent. says: what a complete body is.                                  *)
(* A question that was sent may be answered, and charged for, whatever     *)
(* comes back of it: an outcome says whether it was.                       *)
(***************************************************************************)
EXTENDS Integers, Sequences, FiniteSetsExt

CONSTANT MaxBody     \* MAX_BODY_BYTES, in the unit of the pieces

ASSUME ChatAssumption == MaxBody \in Nat

NotHttp == 0
Says == {"answer", "words", "fields", "nothing", "quota", "error"}
Answers == {"answer", "words", "fields", "nothing"}

Outcome(kind, status, says, sent) == [kind |-> kind, status |-> status, says |-> says, sent |-> sent]
Failed(kind, sent) == Outcome(kind, NotHttp, "nothing", sent)
Kinds == {"reply", "rejected", "malformed", "unreachable"}

-----------------------------------------------------------------------------

Size(pieces, n) == MapThenSumSet(LAMBDA k : pieces[k], 1..n)
Whole(server)   == server.arrive = Len(server.pieces)

\* read_exact(content-length), refused before a byte of it is read.
ByLength(server) ==
    IF Size(server.pieces, Len(server.pieces)) > MaxBody THEN "malformed"
    ELSE IF Whole(server) THEN "whole" ELSE "unreachable"

\* A chunk is refused on its size line, which comes before its bytes.
Chunked(server) ==
    LET announced == IF Whole(server) THEN server.arrive ELSE server.arrive + 1
    IN  IF \E n \in 1..announced : Size(server.pieces, n) > MaxBody THEN "malformed"
        ELSE IF Whole(server) THEN "whole" ELSE "unreachable"

\* With neither, the end of the connection is the end of the body.
ToEnd(server) ==
    IF Size(server.pieces, server.arrive) > MaxBody THEN "malformed"
    ELSE IF ~server.closes THEN "unreachable"
    ELSE IF Whole(server) THEN "whole" ELSE "part"

ReadBody(server) ==
    CASE server.framing = "length"  -> ByLength(server)
      [] server.framing = "chunked" -> Chunked(server)
      [] server.framing = "close"   -> ToEnd(server)
      [] server.framing = "garbled" -> "malformed"

\* https only: a key must never travel in clear.
SplitUrl(url) == url.https /\ url.host /\ url.port # "word"

\* Part of a JSON document is not one; an error object has no choices[0].
ParseReply(body, says) ==
    IF body = "whole" /\ says \in Answers THEN Outcome("reply", 200, says, TRUE) ELSE Failed("malformed", TRUE)

Exchange(server) ==
    IF ~server.up THEN "unreachable" ELSE IF server.status = NotHttp THEN "malformed" ELSE ReadBody(server)

Chat(url, server) ==
    LET body == Exchange(server)
    IN  IF ~SplitUrl(url) THEN Failed("malformed", FALSE)
        ELSE IF body \in {"malformed", "unreachable"} THEN Failed(body, server.up)
        ELSE IF server.status \notin 200..299
             THEN Outcome("rejected", server.status, IF body = "whole" THEN server.says ELSE "nothing", TRUE)
        ELSE ParseReply(body, server.says)
=============================================================================
