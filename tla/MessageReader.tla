----------------------------- MODULE MessageReader -----------------------------
(***************************************************************************)
(* The readers that turn a message into bytes: ResponseReader with its     *)
(* StatusLineReader (http/OutgoingResponse.cpp), RequestReader with its    *)
(* RequestLineReader (http/RequestReader.cpp), and in both MessageReader   *)
(* with its readers of headers, their end, and the body                    *)
(* (http/MessageReader.cpp).                                               *)
(*                                                                         *)
(* A section of a message is a sequence of pieces, and a piece a sequence  *)
(* of symbols: a symbol stands for a few bytes and names what they are.    *)
(* Each reader keeps the rest of its current piece, and copies as much of  *)
(* it as the caller's buffer takes.                                        *)
(***************************************************************************)
EXTENDS Integers, Sequences, SequencesExt

CONSTANTS
    Messages,       \* the messages that are read
    ChunkSize       \* symbols in _data_buf, the buffer of a chunk

(* What is a piece made of.                                                *)
Kinds == {"version", "sp", "code", "reason", "request", "crlf", "name", "splitter",
          "value", "size", "data"}
Text == Seq(Kinds \X Nat)

ASSUME MessageReaderAssumption ==
    /\ ChunkSize \in Nat \ {0}
    /\ \A m \in Messages :
        /\ m.type \in {"response", "request"}
        /\ m.line \in Text
        /\ m.headers \in Seq(Text)
        /\ m.body \in {"none", "length", "chunked"}
        /\ m.size \in Nat
        /\ m.body = "none" => m.size = 0

VARIABLES
    message,        \* the message
    stage,          \* _state of its reader and of MessageReader
    pieces,         \* the section's pieces that were not begun
    current,        \* _current: what is left of the one that was
    bodyRead,       \* units of the body that were read from its source
    bodyReady,      \* will the source answer a poll?
    bodyArmed       \* does the source have the task's waker?

readerVars == <<message, stage, pieces, current, bodyRead, bodyReady, bodyArmed>>

Stage == {"start", "headers", "terminator", "body", "chunked", "lastChunk"}

Symbol(kind, i) == <<kind, i>>

Crlf == <<Symbol("crlf", 0)>>
Sp == <<Symbol("sp", 0)>>
Data(i, j) == [k \in 1 .. (j - i) |-> Symbol("data", i + k)]

(* A message: a response with its reason phrase, or a request with its     *)
(* line, which is one piece; header values are pieces; its body is "none", *)
(* has a "length", or is sent in "chunked" form, with some units.          *)
StatusLine(r) == <<<<Symbol("version", 0)>>, Sp, <<Symbol("code", 0)>>, Sp, r.line, Crlf>>

RequestLine(r) == <<r.line \o Crlf>>

StartLine(r) == IF r.type = "request" THEN RequestLine(r) ELSE StatusLine(r)

HeaderLine(i, value) ==
    <<<<Symbol("name", i)>>, <<Symbol("splitter", i)>>, value, Crlf>>

Headers(r) == FlattenSeq([i \in DOMAIN r.headers |-> HeaderLine(i, r.headers[i])])

(* Mutant: the CRLF after a chunk's data is left out.                      *)
MutChunk(i, j) == <<<<Symbol("size", j - i)>>, Crlf, Data(i, j)>>

Chunk(i, j) == <<<<Symbol("size", j - i)>>, Crlf, Data(i, j), Crlf>>

LastChunk == <<<<Symbol("size", 0)>> \o Crlf \o Crlf>>

ReaderInit ==
    /\ message \in Messages
    /\ stage = "start"
    /\ pieces = StartLine(message)
    /\ current = <<>>
    /\ bodyRead = 0
    /\ bodyReady \in BOOLEAN
    /\ bodyArmed = FALSE
-----------------------------------------------------------------------------
(* One poll_read with room for some symbols, by what it returns.           *)

(* The piece the poll goes on with.  When there is none left, or when it   *)
(* is empty, the reader returns 0 bytes, and 0 bytes are the end of file.  *)
Piece == IF current = <<>> /\ pieces # <<>> THEN Head(pieces) ELSE current

Smaller(m, n) == IF m < n THEN m ELSE n

InPieces == stage \in {"start", "headers", "terminator", "chunked", "lastChunk"}

ReadPiece(room) ==
    /\ InPieces
    /\ Piece # <<>>
    /\ LET n == Smaller(room, Len(Piece))
       IN  current' = SubSeq(Piece, n + 1, Len(Piece))
    /\ pieces' = IF current = <<>> THEN Tail(pieces) ELSE pieces
    /\ UNCHANGED <<message, stage, bodyRead, bodyReady, bodyArmed>>

PieceText(room) == SubSeq(Piece, 1, Smaller(room, Len(Piece)))

(* Who returns 0 bytes, as those of an empty piece or where a piece is all *)
(* of the section, has called the waker; who returns its end of file has   *)
(* not.                                                                    *)
EndWakes == stage = "terminator" \/ pieces # <<>>

(* At the end of its section a reader is replaced by the next one, and the *)
(* poll is pending; nobody has the waker.                                  *)
SectionEnds(from, next, nextPieces) ==
    /\ stage = from
    /\ Piece = <<>>
    /\ stage' = next
    /\ pieces' = nextPieces
    /\ current' = <<>>
    /\ UNCHANGED <<message, bodyRead, bodyReady, bodyArmed>>

NextSection ==
    \/ message.type = "response" /\ SectionEnds("start", "headers", Headers(message))
    \/ SectionEnds("headers", "terminator", <<Crlf>>)
    \/ message.body = "length" /\ SectionEnds("terminator", "body", <<>>)
    \/ message.body = "chunked" /\ SectionEnds("terminator", "chunked", <<>>)

(* The reader of a request goes on with the headers in the same poll.      *)
RequestLineEnds ==
    /\ message.type = "request"
    /\ SectionEnds("start", "headers", Headers(message))

(* Between two chunks the next one is read from the body's source.         *)
BetweenChunks == stage = "chunked" /\ Piece = <<>>

AsksBody == stage = "body" \/ BetweenChunks

BodyPending ==
    /\ AsksBody
    /\ ~bodyReady
    /\ bodyArmed' = TRUE
    /\ UNCHANGED <<message, stage, pieces, current, bodyRead, bodyReady>>

(* The source, once it was read, may have to be waited for again.          *)
BodyAnswers(n) ==
    /\ AsksBody
    /\ bodyReady
    /\ bodyRead + n <= message.size
    /\ n = 0 <=> bodyRead = message.size
    /\ bodyRead' = bodyRead + n
    /\ bodyReady' \in IF n = 0 THEN {TRUE} ELSE BOOLEAN
    /\ UNCHANGED <<message, bodyArmed>>

ReadBody(room, n) ==
    /\ stage = "body"
    /\ n \in 1 .. room
    /\ BodyAnswers(n)
    /\ UNCHANGED <<stage, pieces, current>>

(* The chunk is kept, and the same poll goes on with its size.             *)
ReadChunk(n) ==
    /\ BetweenChunks
    /\ n \in 1 .. ChunkSize
    /\ BodyAnswers(n)
    /\ pieces' = Chunk(bodyRead, bodyRead + n)
    /\ UNCHANGED <<stage, current>>

ReadLastChunk ==
    /\ BetweenChunks
    /\ BodyAnswers(0)
    /\ pieces' = LastChunk
    /\ stage' = "lastChunk"
    /\ UNCHANGED current

Eof ==
    \/ stage = "terminator" /\ Piece = <<>> /\ message.body = "none"
    \/ stage = "lastChunk" /\ Piece = <<>>
    \/ stage = "body" /\ bodyReady /\ bodyRead = message.size

(* The source has more: its descriptor was fired.                          *)
BodyFires ==
    /\ ~bodyReady
    /\ bodyReady' = TRUE
    /\ bodyArmed' = FALSE
    /\ UNCHANGED <<message, stage, pieces, current, bodyRead>>
=============================================================================
