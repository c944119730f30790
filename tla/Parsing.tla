--------------------------------- MODULE Parsing ---------------------------------
(***************************************************************************)
(* A message from the network, parsed: requests by the server, responses   *)
(* by a proxy.  The text arrives in any portions, and the peer may close   *)
(* its connection anywhere in it.                                          *)
(***************************************************************************)
EXTENDS ResponseParser

CONSTANT Messages   \* the messages that are sent

VARIABLE input      \* the one that is

vars == <<input, streamVars, pc, outcome, messageVars, startVars>>

(* A message is the parts of its start line, its header lines and its body:*)
(* "length" or "eof", if it has no given length; "chunked"; "longChunk" or *)
(* "badSize", if its first chunk is wrong; "hugeChunk", if the last has    *)
(* the largest size.  Its units are sent as one or as chunks, of which     *)
(* ends has where each of them ends.                                       *)
IsRequest == input.kind = "request"

Crlf == <<Cr, Lf>>

Data(i, j) == [k \in 1 .. (j - i) |-> <<"data", i + k>>]

StartParts(in) ==
    IF in.kind = "request"
    THEN << in.method \o <<Sp>>, in.uri \o <<Sp>>, in.version \o Crlf >>
    ELSE << in.version \o <<Sp>>, in.status \o Crlf >>

HeaderParts(in) == [i \in DOMAIN in.headers |-> in.headers[i] \o Crlf]

(* The units of the body before its i-th chunk.                            *)
Before(in, i) == IF i = 1 THEN 0 ELSE in.ends[i - 1]

Size(in, i) == in.ends[i] - Before(in, i)

SizeLine(size) == <<<<"size", size>>>>

ChunkText(in, i) ==
    SizeLine(Size(in, i)) \o Crlf \o Data(Before(in, i), in.ends[i]) \o Crlf

BodySize(in) == Before(in, Len(in.ends) + 1)

BadSizeLine == <<<<"size", 1>>, <<"junk", 0>>>>

(* What has to be sent of the body for it to be parsed: the parser stops   *)
(* at the size of the last chunk.                                          *)
BodyParts(in) ==
    CASE in.framing = "chunked" ->
            [i \in DOMAIN in.ends |-> ChunkText(in, i)] \o <<SizeLine(0) \o Crlf>>
      [] in.framing = "hugeChunk" ->
            [i \in DOMAIN in.ends |-> ChunkText(in, i)]
                \o <<SizeLine(SizeModulus - 1) \o Crlf \o <<Lf>>>>
      [] in.framing = "longChunk" -> <<SizeLine(1) \o Crlf \o Data(0, 3)>>
      [] in.framing = "badSize" -> <<BadSizeLine \o Crlf>>
      [] OTHER -> <<Data(0, BodySize(in))>>

Parts(in) == StartParts(in) \o HeaderParts(in) \o <<Crlf>> \o BodyParts(in)

(* From each part on, the parts one after the other.                       *)
Joined(parts) ==
    LET from[i \in 1 .. Len(parts) + 1] ==
            IF i > Len(parts) THEN <<>> ELSE parts[i] \o from[i + 1]
    IN  from

Text(in) == Joined(Parts(in))[1]

Given(in, name) == {i \in DOMAIN in.headers : in.headers[i][1][1] = name}

TakesBody(in) == in.kind = "response" \/ in.method[1][2] = 1

(* The last length that is given counts, and it goes before chunks.        *)
Length(in) ==
    LET given == Given(in, "length")
    IN  IF given = {} THEN NoLength
        ELSE in.headers[CHOOSE i \in given : \A j \in given : j <= i][1][2]

InChunks(in) == Length(in) = NoLength /\ Given(in, "chunked") # {}

(* A chunk whose size, with what is before it or with its line end, does   *)
(* not fit in a uint64_t.                                                  *)
Wraps(in) ==
    \/ in.framing = "hugeChunk"
    \/ /\ in.framing = "chunked"
       /\ \E i \in DOMAIN in.ends : in.ends[i] >= SizeModulus \/ Size(in, i) + 2 >= SizeModulus

Kinds == {"method", "version", "code", "host", "referer", "length", "chunked", "encoding",
          "field", "size", "data", "pad", "junk", "sp", "cr", "lf"}

Symbols == Kinds \X Nat

(* Symbols, of some length, none of which is of these kinds.               *)
Without(kinds, part) ==
    /\ part \in Seq(Symbols)
    /\ \A i \in DOMAIN part : part[i][1] \notin kinds

StartIs(in) ==
    \/ /\ in.kind = "request"
       /\ Without({"sp", "lf"}, in.method) /\ in.method # <<>>
       /\ Without({"sp"}, in.uri)       \* or it is not one target
       /\ Without({"lf"}, in.version) /\ in.version # <<>> /\ in.version[1][1] = "version"
    \/ /\ in.kind = "response"
       /\ Without({"sp"}, in.version) /\ in.version # <<>> /\ in.version[1][1] = "version"
       /\ Without({"lf"}, in.status) /\ in.status # <<>> /\ in.status[1][1] = "code"
       /\ Len(in.status) > 1 => in.status[2] = Sp

HeadersAre(in) ==
    /\ in.headers \in Seq({in.headers[i] : i \in DOMAIN in.headers})
    /\ \A i \in DOMAIN in.headers : Without({"lf"}, in.headers[i]) /\ in.headers[i] # <<>>

(* The body is as the headers say, but for an error in a chunk; no chunk   *)
(* but the last is empty.  (A number that does not fit is junk.)           *)
BodyIs(in) ==
    /\ in.ends \in Seq(Nat)
    /\ \A i \in DOMAIN in.ends :
          /\ Before(in, i) < in.ends[i] \/ in.framing \notin {"chunked", "hugeChunk"}
          /\ Size(in, i) < SizeModulus
    /\ in.framing = "hugeChunk" => in.ends # <<>>
    /\ \/ in.framing \in {"chunked", "longChunk", "badSize", "hugeChunk"} /\ InChunks(in)
       \/ in.framing = "length" /\ in.ends = <<Length(in)>> /\ Length(in) # NoLength
       \/ in.framing = "eof" /\ Len(in.ends) = 1 /\ Length(in) = NoLength /\ ~InChunks(in)

ASSUME ParsingAssumption ==
    \A in \in Messages : StartIs(in) /\ HeadersAre(in) /\ BodyIs(in)

Init ==
    /\ input \in Messages
    /\ \E n \in 0 .. Len(Text(input)) : text = SubSeq(Text(input), 1, n)
    /\ closes \in BOOLEAN
    /\ StreamInit
    /\ pc = "start"
    /\ outcome = "none"
    /\ MessageInit
    /\ IF IsRequest THEN RequestInit ELSE ResponseInit

(* The reactor wakes the task.                                             *)
Fires ==
    /\ pc = "waiting"
    /\ pc' = "start"
    /\ \/ DescriptorFires /\ UNCHANGED fileReady
       \/ FileFires /\ UNCHANGED streamVars
    /\ UNCHANGED <<input, outcome, startVars, limits, hasBody, state, buffer, headers,
                   contentLength, isChunkBody, hostSet, lastChunkSize,
                   decodedBody, canEof, body>>

Poll ==
    /\ UNCHANGED input
    /\ \/ IsRequest /\ PollRequest
       \/ ~IsRequest /\ PollResponse
       \/ PollMessage /\ UNCHANGED startVars

Next == Poll \/ Fires

Spec == Init /\ [][Next]_vars
-----------------------------------------------------------------------------
(* Properties.                                                             *)

(* What a message must come to, part by part, from the message itself: the *)
(* first part that is too long or wrong decides.                           *)
LineVerdict(line, wrong, error) ==
    IF Len(line) >= limits.buffer THEN "GenericExceededBuffer"
    ELSE IF wrong THEN error ELSE "ok"

StartVerdicts(in) ==
    IF in.kind = "request"
    THEN << IF Len(in.method) > limits.buffer THEN "GenericExceededBuffer"
            ELSE IF in.method[1][1] # "method" \/ Len(in.method) > 1 THEN "InvalidMethod" ELSE "ok",
            IF Len(in.uri) > limits.buffer THEN "UriExceededBuffer"
            ELSE IF \E k \in DOMAIN in.uri : in.uri[k][1] \in {"junk", "cr", "lf"}
            THEN "UriError" ELSE "ok",
            LineVerdict(in.version, Len(in.version) > 1, "UnsupportedVersion") >>
    ELSE << IF Len(in.version) > limits.buffer THEN "GenericExceededBuffer"
            ELSE IF Len(in.version) > 1 THEN "UnsupportedVersion" ELSE "ok",
            LineVerdict(in.status, Len(in.status) = 1, "BadStatus") >>

HeaderVerdict(in, i) ==
    LET name == in.headers[i][1][1]
        form == IF name \in {"host", "referer"} THEN in.headers[i][1][2] ELSE 0
        junk == \E k \in DOMAIN in.headers[i] : in.headers[i][k][1] \in {"junk", "cr"}
        again == name = "host" /\ \E j \in Given(in, "host") : j < i
    IN  LineVerdict(in.headers[i], junk \/ name = "encoding" \/ form > 0 \/ again,
                    IF ~junk /\ name = "encoding" THEN "BadTransferEncoding"
                    ELSE IF ~junk /\ form > 1 THEN "UriError" ELSE "MalformedMessage")

(* A chunk of some size, with so much before it.                           *)
ChunkVerdict(size, before) ==
    LET line == LineVerdict(SizeLine(size), before + size > limits.body, "BodyExceededLimit")
    IN  IF line = "ok" /\ size + 1 > limits.buffer THEN "GenericExceededBuffer" ELSE line

LongChunkVerdict ==
    IF ChunkVerdict(1, 0) = "ok" THEN "MalformedMessage" ELSE ChunkVerdict(1, 0)

(* A body that is collected in the buffer must keep to both limits.  The   *)
(* buffer is looked at before a character is read, so that a length may    *)
(* exceed its limit by one.                                                *)
BufferVerdict(n, most) ==
    IF n > limits.body /\ limits.body <= limits.buffer THEN "BodyExceededLimit"
    ELSE IF n > most THEN "GenericExceededBuffer" ELSE "ok"

(* A body without a length ends where the peer closes the connection.      *)
EndsAtEof(in) == TakesBody(in) /\ in.framing = "eof"

(* In a request that is not allowed: nobody would answer it.               *)
Undetermined(in) == in.kind = "request" /\ EndsAtEof(in)

HeadSize(in) == Len(Text(in)) - BodySize(in)

Received(in) == IF Len(text) < HeadSize(in) THEN 0 ELSE Len(text) - HeadSize(in)

BodyVerdicts(in) ==
    CASE ~TakesBody(in) -> <<>>
      [] TakesBody(in) /\ in.framing = "chunked" ->
            [i \in DOMAIN in.ends |-> ChunkVerdict(Size(in, i), Before(in, i))]
                \o <<LineVerdict(SizeLine(0), FALSE, "ok")>>
      [] TakesBody(in) /\ in.framing = "hugeChunk" ->
            [i \in DOMAIN in.ends |-> ChunkVerdict(Size(in, i), Before(in, i))]
                \o <<LineVerdict(SizeLine(SizeModulus - 1), TRUE, "BodyExceededLimit")>>
      [] TakesBody(in) /\ in.framing = "longChunk" -> <<LongChunkVerdict>>
      [] TakesBody(in) /\ in.framing = "badSize" ->
            <<LineVerdict(BadSizeLine, TRUE, "MalformedMessage")>>
      [] TakesBody(in) /\ in.framing = "length" ->
            <<BufferVerdict(BodySize(in), limits.buffer + 1)>>
      [] Undetermined(in) -> <<"UndeterminedLength">>
      [] EndsAtEof(in) /\ ~Undetermined(in) -> <<BufferVerdict(Received(in), limits.buffer)>>

HostVerdict(in) ==
    IF in.kind = "request" /\ in.version[1][2] = 1 /\ Given(in, "host") = {}
    THEN "MalformedMessage" ELSE "ok"

Verdicts(in) ==
    StartVerdicts(in) \o [i \in DOMAIN in.headers |-> HeaderVerdict(in, i)]
        \o <<LineVerdict(<<>>, FALSE, "ok")>> \o BodyVerdicts(in) \o <<HostVerdict(in)>>

Expected(in) ==
    LET wrong == {i \in DOMAIN Verdicts(in) : Verdicts(in)[i] # "ok"}
    IN  IF wrong = {} THEN "Completed"
        ELSE Verdicts(in)[CHOOSE i \in wrong : \A j \in wrong : i <= j]

SentBody(in) ==
    IF ~TakesBody(in) THEN <<>>
    ELSE Data(0, IF EndsAtEof(in) THEN Received(in) ELSE BodySize(in))

Whole == Len(text) = Len(Text(input))

(* In whatever portions a text arrives, its parser finds the message that  *)
(* was sent, no more and no less of its body, or the error of its first    *)
(* part that is wrong or exceeds a limit; or it finds that the text ends   *)
(* early.  The code is excused where it has no right answer: for a request *)
(* that should be refused for its missing length, and for the error of a   *)
(* chunk whose size wraps - which is still never taken.                    *)
ParsedAsSent ==
    pc = "done" =>
        /\ outcome = "Completed" =>
              /\ Expected(input) \in {"Completed", "UndeterminedLength"}
              /\ headers = input.headers /\ body = SentBody(input)
        /\ \/ outcome = Expected(input)
           \/ outcome \in {"UnexpectedEof", "BadOptionalAccess"} /\ closes /\ ~Whole
           \/ Wraps(input) \/ Expected(input) = "UndeterminedLength"

(* Whoever sends all of a message is answered: no parser waits for more    *)
(* than the message has, and one that waits for its file goes on.          *)
ParseEnds ==
    (closes \/ (Whole /\ ~EndsAtEof(input))) => <>(pc = "done")
=============================================================================
