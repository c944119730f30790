------------------------------ MODULE IoCopyFuture ------------------------------
(***************************************************************************)
(* IoCopyFuture::poll (ioruntime/IoCopyFuture.hpp), as a connection uses   *)
(* it: it copies a response, read by a ResponseReader, to the client; or a *)
(* request, read by a RequestReader, to the server it is forwarded to.     *)
(*                                                                         *)
(* The writer is FileDescriptor::poll_write, by its contract: it writes if *)
(* its flag says it can, some of the buffer, and has the task's waker after*)
(* every poll.                                                             *)
(***************************************************************************)
EXTENDS MessageReader

CONSTANT BufferSize     \* symbols in _buffer

ASSUME IoCopyFutureAssumption == BufferSize \in Nat \ {0}

VARIABLES
    pc,             \* "running" in a poll, "waiting", "done" or "failed"
    woken,          \* is the task in the executor's queue?
    copy,           \* state
    buffer,         \* the _head symbols read into _buffer
    span,           \* _span: what is left to be written
    readFinished,   \* _read_finished
    bytesWritten,   \* _bytes_written
    output,         \* what the receiver got
    writable,       \* ready_to_write of the receiver's socket
    armed           \* does the socket have the task's waker?

copyVars == <<pc, woken, copy, buffer, span, readFinished, bytesWritten, output,
              writable, armed>>
vars == <<readerVars, copyVars>>

(* Mutant: the reader is given the size of the whole buffer.               *)
MutRoom == BufferSize

(* What the reader is given of the buffer: what is behind its head.        *)
Room == BufferSize - Len(buffer)

Init ==
    /\ ReaderInit
    /\ pc = "waiting"
    /\ woken = TRUE
    /\ copy = "Reading"
    /\ buffer = <<>>
    /\ span = <<>>
    /\ readFinished = FALSE
    /\ bytesWritten = 0
    /\ output = <<>>
    /\ writable \in BOOLEAN
    /\ armed = FALSE

StartPoll ==
    /\ pc = "waiting"
    /\ woken
    /\ pc' = "running"
    /\ woken' = FALSE
    /\ UNCHANGED <<readerVars, copy, buffer, span, readFinished, bytesWritten,
                   output, writable, armed>>
-----------------------------------------------------------------------------
(* Reading, until the buffer is full, the reader is pending or at its end. *)

Reads == pc = "running" /\ copy = "Reading"

SwitchToWriting(text) ==
    /\ copy' = "Writing"
    /\ buffer' = text
    /\ span' = text

(* Mutant: the text is put at the beginning of the buffer.                 *)
MutReadText(text) ==
    /\ IF Len(text) = BufferSize THEN SwitchToWriting(text)
       ELSE buffer' = text /\ UNCHANGED <<copy, span>>
    /\ UNCHANGED <<pc, readFinished, bytesWritten, output, writable, armed>>

ReadText(text) ==
    /\ IF Len(buffer) + Len(text) = BufferSize THEN SwitchToWriting(buffer \o text)
       ELSE buffer' = buffer \o text /\ UNCHANGED <<copy, span>>
    /\ UNCHANGED <<pc, readFinished, bytesWritten, output, writable, armed>>

(* The readers of pieces wake the task they are polled by.                 *)
CopyPiece ==
    /\ Reads
    /\ ReadPiece(Room)
    /\ ReadText(PieceText(Room))
    /\ woken' = TRUE

CopyBody ==
    /\ Reads
    /\ \E n \in 1 .. BufferSize :
        /\ ReadBody(Room, n)
        /\ ReadText(Data(bodyRead, bodyRead + n))
    /\ woken' \in {woken, TRUE}

CopyChunk ==
    /\ Reads
    /\ (\E n \in 1 .. ChunkSize : ReadChunk(n)) \/ ReadLastChunk
    /\ UNCHANGED copyVars

CopyPending ==
    /\ Reads
    /\ \/ NextSection /\ woken' = (woken \/ EndWakes)
       \/ BodyPending /\ UNCHANGED woken
    /\ SwitchToWriting(buffer)
    /\ UNCHANGED <<pc, readFinished, bytesWritten, output, writable, armed>>

CopyEof ==
    /\ Reads
    /\ Eof
    /\ SwitchToWriting(buffer)
    /\ readFinished' = TRUE
    /\ woken' = (woken \/ EndWakes)
    /\ UNCHANGED <<readerVars, pc, bytesWritten, output, writable, armed>>

CopyRequestLine ==
    /\ Reads
    /\ RequestLineEnds
    /\ woken' = TRUE
    /\ UNCHANGED <<pc, copy, buffer, span, readFinished, bytesWritten, output,
                   writable, armed>>

(* The source of the body fails: poll throws.                              *)
ReadFails ==
    /\ Reads
    /\ AsksBody
    /\ pc' = "failed"
    /\ UNCHANGED <<readerVars, woken, copy, buffer, span, readFinished,
                   bytesWritten, output, writable, armed>>
-----------------------------------------------------------------------------
(* Writing what was read, which may be nothing.                            *)

Writes == pc = "running" /\ copy = "Writing"

(* Mutant: the writer is not given the task's waker.                       *)
MutWritePending ==
    /\ Writes
    /\ ~writable
    /\ pc' = "waiting"
    /\ UNCHANGED <<readerVars, woken, copy, buffer, span, readFinished,
                   bytesWritten, output, writable, armed>>

WritePending ==
    /\ Writes
    /\ ~writable
    /\ armed' = TRUE
    /\ pc' = "waiting"
    /\ UNCHANGED <<readerVars, woken, copy, buffer, span, readFinished,
                   bytesWritten, output, writable>>

(* Mutant: the whole buffer is taken as written.                           *)
MutRest(n) == <<>>

(* remove_prefix_inplace.                                                  *)
Rest(n) == SubSeq(span, n + 1, Len(span))

(* A part was written: the poll is pending.  All of it: there is more to   *)
(* read, or the copy is done.                                              *)
WriteText(n) ==
    /\ Writes
    /\ writable
    /\ n \in Smaller(1, Len(span)) .. Len(span)
    /\ output' = output \o SubSeq(span, 1, n)
    /\ bytesWritten' = bytesWritten + n
    /\ span' = Rest(n)
    /\ writable' = FALSE
    /\ armed' = TRUE
    /\ IF Rest(n) # <<>> THEN pc' = "waiting" /\ UNCHANGED <<copy, buffer>>
       ELSE IF readFinished THEN pc' = "done" /\ UNCHANGED <<copy, buffer>>
       ELSE copy' = "Reading" /\ buffer' = <<>> /\ UNCHANGED pc
    /\ UNCHANGED <<readerVars, woken, readFinished>>

WriteFails ==
    /\ Writes
    /\ writable
    /\ pc' = "failed"
    /\ UNCHANGED <<readerVars, woken, copy, buffer, span, readFinished,
                   bytesWritten, output, writable, armed>>

Poll ==
    \/ StartPoll
    \/ CopyPiece \/ CopyRequestLine \/ CopyBody \/ CopyChunk \/ CopyPending
    \/ CopyEof \/ ReadFails
    \/ WritePending \/ WriteFails
    \/ \E n \in 0 .. BufferSize : WriteText(n)
-----------------------------------------------------------------------------
(* The reactor: the socket's flag is set, then its waker runs.             *)
SocketFires ==
    /\ pc \in {"running", "waiting"}
    /\ ~writable \/ armed
    /\ writable' = TRUE
    /\ woken' = (woken \/ armed)
    /\ armed' = FALSE
    /\ UNCHANGED <<readerVars, pc, copy, buffer, span, readFinished,
                   bytesWritten, output>>

SourceFires ==
    /\ pc \in {"running", "waiting"}
    /\ woken' = (woken \/ bodyArmed)
    /\ BodyFires
    /\ UNCHANGED <<pc, copy, buffer, span, readFinished, bytesWritten, output,
                   writable, armed>>

Next == Poll \/ SocketFires \/ SourceFires

Spec == Init /\ [][Next]_vars

(* The task is polled once it is woken; the receiver takes what is sent,  *)
(* and the body's source goes on.                                          *)
FairSpec == Spec /\ WF_vars(Poll) /\ WF_vars(SocketFires) /\ WF_vars(SourceFires)
-----------------------------------------------------------------------------
(* Properties.                                                             *)

TypeOK ==
    /\ message \in Messages
    /\ stage \in Stage
    /\ pieces \in Seq(Text)
    /\ current \in Text
    /\ bodyRead \in 0 .. message.size
    /\ bodyReady \in BOOLEAN /\ bodyArmed \in BOOLEAN
    /\ pc \in {"running", "waiting", "done", "failed"}
    /\ woken \in BOOLEAN
    /\ copy \in {"Reading", "Writing"}
    /\ buffer \in Text /\ Len(buffer) <= BufferSize
    /\ span \in Text
    /\ readFinished \in BOOLEAN
    /\ bytesWritten = Len(output)
    /\ output \in Text
    /\ writable \in BOOLEAN /\ armed \in BOOLEAN

(* A message up to its body: its first line, its headers and a CRLF.       *)
Heads ==
    [m \in Messages |-> FlattenSeq(StartLine(m)) \o FlattenSeq(Headers(m)) \o Crlf]

HeadOf(m) == Heads[m]

BodyOf(text) == SubSeq(text, Len(HeadOf(message)) + 1, Len(text))

(* A receiver of chunks, from symbol to symbol: it expects a size and CRLF,*)
(* that much data and a CRLF, and so on; a size of 0, its CRLF and another *)
(* one are the end, with nothing behind them.                              *)
Receiver ==
    [expects : {"size", "sizeEnd", "data", "last", "nothing", "malformed"},
     left : Nat, data : Text]

NothingReceived == [expects |-> "size", left |-> 0, data |-> <<>>]

Receive(symbol) == [r \in Receiver |->
    CASE r.expects = "size" /\ symbol[1] = "size" ->
            [expects |-> "sizeEnd", left |-> symbol[2], data |-> r.data]
      [] r.expects = "sizeEnd" /\ symbol = Crlf[1] ->
            [r EXCEPT !.expects = IF r.left = 0 THEN "last" ELSE "data"]
      [] r.expects = "data" /\ r.left > 0 ->
            [expects |-> "data", left |-> r.left - 1, data |-> Append(r.data, symbol)]
      [] r.expects = "data" /\ r.left = 0 /\ symbol = Crlf[1] ->
            [r EXCEPT !.expects = "size"]
      [] r.expects = "last" /\ symbol = Crlf[1] -> [r EXCEPT !.expects = "nothing"]
      [] OTHER -> [r EXCEPT !.expects = "malformed"]]

Received(text) ==
    LET after[n \in 0 .. Len(text)] ==
            IF n = 0 THEN NothingReceived ELSE Receive(text[n])[after[n - 1]]
    IN  after[Len(text)]

Payload(text) == IF message.body = "chunked" THEN Received(text).data ELSE text

(* No message has an empty reason or an empty header value.  The reader    *)
(* takes such a piece for the end of its section, so that the code does    *)
(* not send what is behind it, although it "reads all the headers + a clrf"*)
(* (http/MessageReader.hpp:27).                                            *)
NoEmptyPiece == \A m \in Messages : <<>> \notin Range(StartLine(m)) \cup Range(Headers(m))

(* For messages without empty pieces, the receiver gets the whole head of  *)
(* the message and the units of its body in order, none lost and none      *)
(* twice, in whatever parts the sources yield, the buffer holds and the    *)
(* socket takes them; and a copy that is done has sent them all.           *)
Transfer == INSTANCE ByteTransfer WITH
    text <- HeadOf(message) \o Data(0, message.size),
    sent <- IF Len(output) < Len(HeadOf(message)) THEN output
            ELSE HeadOf(message) \o Payload(BodyOf(output)),
    status <- CASE pc = "done" -> "complete" [] pc = "failed" -> "failed" [] OTHER -> "open"

TransfersMessage == Transfer!Spec

(* The receiver of a body in chunks, behind a head without empty pieces,   *)
(* can take it apart: at any time what it got is well formed, each size is *)
(* that of the data behind it, whatever was read from the body's source at *)
(* a time; when the copy is done it has found the end.                     *)
ChunksDecode ==
    message.body = "chunked" =>
        /\ Received(BodyOf(output)).expects # "malformed"
        /\ pc = "done" => Received(BodyOf(output)) =
                [expects |-> "nothing", left |-> 0, data |-> Data(0, message.size)]

(* A copy ends.                                                            *)
CopyEnds == <>(pc \in {"done", "failed"})
=============================================================================
