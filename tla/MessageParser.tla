----------------------------- MODULE MessageParser -----------------------------
(***************************************************************************)
(* MessageParser (http/MessageParser.cpp): the headers and the body of a   *)
(* message, from a CharacterStream.  One action is one inner_poll.         *)
(*                                                                         *)
(* A header line begins with a symbol for the header that it is, a chunk   *)
(* with one for its size; what else is in the line makes it longer.        *)
(***************************************************************************)
EXTENDS CharacterStream, SequencesExt

CONSTANTS
    Limits,         \* the limits of the configurations
    SwitchSize,     \* REQUEST_BODY_SWITCH_TEMPORARY_SIZE
    SizeModulus     \* values of a uint64_t, and of a size_t

ASSUME MessageParserAssumption ==
    /\ SizeModulus \in Nat /\ SizeModulus > 3
    /\ Limits \subseteq [buffer : 0 .. SizeModulus - 1, body : 0 .. SizeModulus - 1]
    /\ SwitchSize \in Nat

VARIABLES
    pc,             \* "start", "message": whose poll runs; "built": the
                    \* message's has completed; "waiting", "done"
    outcome,        \* "none", "Completed", or the name of the exception
    limits,         \* _buffer_limit and _body_limit
    hasBody,        \* _has_body
    state,          \* _state of the MessageParser
    buffer,         \* its _buffer
    headers,        \* the header lines in its _builder
    contentLength,  \* _content_length, or NoLength
    isChunkBody,    \* _is_chunk_body
    hostSet,        \* _host_set
    lastChunkSize,  \* _last_chunk_size
    decodedBody,    \* _decoded_body
    canEof,         \* _can_eof
    fileReady,      \* can the file of the body be written?
    body            \* the body in the _builder

messageVars == <<limits, hasBody, state, buffer, headers, contentLength,
                 isChunkBody, hostSet, lastChunkSize, decodedBody, canEof,
                 fileReady, body>>

NoLength == -1

Cr == <<"cr", 0>>
Lf == <<"lf", 0>>

MessageInit ==
    /\ limits \in Limits
    /\ hasBody = FALSE
    /\ state = "HeaderLine"
    /\ buffer = <<>>
    /\ headers = <<>>
    /\ contentLength = NoLength
    /\ isChunkBody = FALSE
    /\ hostSet = FALSE
    /\ lastChunkSize = 0
    /\ decodedBody = <<>>
    /\ canEof = FALSE
    /\ fileReady \in BOOLEAN
    /\ body = <<>>

(* The poll is over, with an exception or completed.                       *)
Throw(error) ==
    /\ pc' = "done"
    /\ outcome' = error

Complete(content) ==
    /\ pc' = "built"
    /\ body' = content
    /\ UNCHANGED outcome

Running == UNCHANGED <<pc, outcome>>

(* The check before each character.                                        *)
Fits == Len(buffer) <= limits.buffer

InState(s) == pc = "message" /\ state = s /\ Fits

ExceedBuffer ==
    /\ pc = "message"
    /\ ~Fits
    /\ Throw("GenericExceededBuffer")
    /\ UNCHANGED <<streamVars, messageVars>>

MessagePending ==
    /\ pc = "message" /\ Fits
    /\ NextPending
    /\ pc' = "waiting"
    /\ UNCHANGED <<outcome, messageVars>>

MessageFinished ==
    /\ pc = "message" /\ Fits
    /\ NextFinished
    /\ IF canEof THEN Complete(buffer) ELSE Throw("UnexpectedEof") /\ UNCHANGED body
    /\ UNCHANGED <<limits, hasBody, state, buffer, headers, contentLength, isChunkBody,
                   hostSet, lastChunkSize, decodedBody, canEof, fileReady>>
-----------------------------------------------------------------------------
(* A line: what is in the buffer when a line feed follows a return.        *)

EndsLine == Char = Lf /\ buffer # <<>> /\ Last(buffer) = Cr

Line == Front(buffer)

LineGrows(s) ==
    /\ InState(s)
    /\ NextChar
    /\ ~EndsLine
    /\ buffer' = Append(buffer, Char)
    /\ Running
    /\ UNCHANGED <<limits, hasBody, state, headers, contentLength, isChunkBody, hostSet,
                   lastChunkSize, decodedBody, canEof, fileReady, body>>

Has(line, kinds) == \E i \in DOMAIN line : line[i][1] \in kinds

(* The header of a line that follows the rules, and its number.            *)
Header(line) == Head(line)[1]
Value(line) == Head(line)[2]

(* What makes Uri's constructor throw: a character that has no place in    *)
(* any of its forms.                                                       *)
NotUri(target) == Has(target, {"junk", "cr", "lf"})

(* The values of Host and Referer are URIs, by the symbol of the header: 0 *)
(* if it has the form that the header wants, 1 if it has another.  With    *)
(* any other Uri throws, and nobody catches that here.                     *)
UriHeader(line) == Header(line) \in {"host", "referer"}

(* The exception for a line, in the order of the code's checks.            *)
HeaderError(line) ==
    IF Has(line, {"junk", "cr", "lf"}) THEN "MalformedMessage"
    ELSE IF Header(line) = "encoding" THEN "BadTransferEncoding"
    ELSE IF UriHeader(line) /\ Value(line) > 1 THEN "UriError"
    ELSE IF UriHeader(line) /\ Value(line) = 1 THEN "MalformedMessage"
    ELSE IF Header(line) = "host" /\ hostSet THEN "MalformedMessage"
    ELSE "none"

HeaderLine ==
    /\ InState("HeaderLine")
    /\ NextChar
    /\ EndsLine /\ Line # <<>>
    /\ IF HeaderError(Line) # "none"
       THEN Throw(HeaderError(Line)) /\ UNCHANGED <<headers, contentLength, isChunkBody, hostSet>>
       ELSE /\ Running
            /\ headers' = Append(headers, Line)
            /\ contentLength' = IF Header(Line) = "length" THEN Value(Line) ELSE contentLength
            /\ isChunkBody' = (isChunkBody \/ Header(Line) = "chunked")
            /\ hostSet' = (hostSet \/ Header(Line) = "host")
    /\ buffer' = <<>>
    /\ UNCHANGED <<limits, hasBody, state, lastChunkSize, decodedBody, canEof, fileReady, body>>

(* The line without anything in it decides how the body is read.  (Its     *)
(* check of _is_http_1_1, which nothing ever sets, does nothing.)          *)
HeaderTerminator ==
    /\ InState("HeaderLine")
    /\ NextChar
    /\ EndsLine /\ Line = <<>>
    /\ buffer' = <<>>
    /\ IF ~hasBody \/ contentLength = 0 THEN Complete(<<>>) /\ UNCHANGED <<state, canEof>>
       ELSE /\ state' = IF contentLength = NoLength /\ isChunkBody THEN "ChunkedBodySize" ELSE "Body"
            /\ canEof' = (contentLength = NoLength /\ ~isChunkBody)
            /\ Running
            /\ UNCHANGED body
    /\ UNCHANGED <<limits, hasBody, headers, contentLength, isChunkBody, hostSet,
                   lastChunkSize, decodedBody, fileReady>>
-----------------------------------------------------------------------------
(* The body.                                                               *)

(* Mutant: the limit itself is too much.                                   *)
MutExceedsBody(size) == size >= limits.body

ExceedsBody(size) == size > limits.body

(* Mutant: one more character than the length is waited for.               *)
MutHasLength(size) == ~canEof /\ size > contentLength

HasLength(size) == ~canEof /\ size = contentLength

Body ==
    /\ InState("Body")
    /\ NextChar
    /\ buffer' = Append(buffer, Char)
    /\ LET size == Len(buffer')
       IN  IF ExceedsBody(size) THEN Throw("BodyExceededLimit") /\ UNCHANGED body
           ELSE IF HasLength(size) THEN Complete(buffer')
           ELSE Running /\ UNCHANGED body
    /\ UNCHANGED <<limits, hasBody, state, headers, contentLength, isChunkBody, hostSet,
                   lastChunkSize, decodedBody, canEof, fileReady>>

(* A sum of two unsigned numbers.                                          *)
Wrapped(sum) == sum % SizeModulus

(* (Without a chunk before it a size is compared alone: it does not wrap.) *)
ChunkedBodySize ==
    /\ InState("ChunkedBodySize")
    /\ NextChar
    /\ EndsLine
    /\ buffer' = <<>>
    /\ IF Line = <<>> \/ Header(Line) # "size" \/ Has(Line, {"junk", "cr", "lf"})
       THEN Throw("MalformedMessage") /\ UNCHANGED <<state, lastChunkSize, body>>
       ELSE /\ lastChunkSize' = Value(Line)
            /\ IF Value(Line) = 0 THEN Complete(decodedBody) /\ UNCHANGED state
               ELSE IF ExceedsBody(Wrapped(Len(decodedBody) + Value(Line)))
               THEN Throw("BodyExceededLimit") /\ UNCHANGED <<state, body>>
               ELSE Running /\ state' = "ChunkedBodyData" /\ UNCHANGED body
    /\ UNCHANGED <<limits, hasBody, headers, contentLength, isChunkBody, hostSet,
                   decodedBody, canEof, fileReady>>

(* The chunk is whole when the buffer is as long as its size and a line    *)
(* end.  When that sum has wrapped to 1, the line feed leaves an empty     *)
(* buffer, and its back() is undefined: whatever lies before the buffer is *)
(* no return, or it is one, and pop_back() makes the size of the buffer    *)
(* wrap as well.                                                           *)
ChunkedBodyData ==
    /\ InState("ChunkedBodyData")
    /\ NextChar
    /\ LET data == Append(buffer, Char)
           size == Len(data) - 2
       IN  IF Len(data) # Wrapped(lastChunkSize + 2)
           THEN Running /\ buffer' = data /\ UNCHANGED state
           ELSE IF data = <<Lf>>
           THEN /\ \E error \in {"MalformedMessage", "GenericExceededBuffer"} : Throw(error)
                /\ buffer' = <<>> /\ UNCHANGED state
           ELSE IF size < 0 \/ SubSeq(data, size + 1, size + 2) # <<Cr, Lf>>
           THEN Throw("MalformedMessage") /\ buffer' = data /\ UNCHANGED state
           ELSE Running /\ buffer' = SubSeq(data, 1, size) /\ state' = "AppendToBody"
    /\ UNCHANGED <<limits, hasBody, headers, contentLength, isChunkBody, hostSet,
                   lastChunkSize, decodedBody, canEof, fileReady, body>>

(* IncomingBody::poll_write: a body of some size is moved to a file, and   *)
(* then the copy may have to wait for it.                                  *)
InFile == Len(decodedBody) + Len(buffer) >= SwitchSize

AppendPending ==
    /\ InState("AppendToBody")
    /\ NextCharShiftBack
    /\ InFile /\ ~fileReady
    /\ pc' = "waiting"
    /\ UNCHANGED <<outcome, messageVars>>

(* The chunk, all of it, is appended to the body.  The character that was  *)
(* read to come here is given back.  (The limit is checked once more, for  *)
(* what was checked before the chunk was read.)                            *)
AppendToBody ==
    /\ InState("AppendToBody")
    /\ NextCharShiftBack
    /\ InFile => fileReady
    /\ fileReady' \in IF InFile THEN BOOLEAN ELSE {fileReady}
    /\ decodedBody' = decodedBody \o buffer
    /\ buffer' = <<>>
    /\ state' = "ChunkedBodySize"
    /\ Running
    /\ UNCHANGED <<limits, hasBody, headers, contentLength, isChunkBody, hostSet,
                   lastChunkSize, canEof, body>>

FileFires ==
    /\ ~fileReady
    /\ fileReady' = TRUE

PollMessage ==
    \/ ExceedBuffer \/ MessagePending \/ MessageFinished
    \/ LineGrows("HeaderLine") \/ HeaderLine \/ HeaderTerminator
    \/ Body
    \/ LineGrows("ChunkedBodySize") \/ ChunkedBodySize \/ ChunkedBodyData
    \/ AppendPending \/ AppendToBody
=============================================================================
