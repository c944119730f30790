----------------------------- MODULE RequestParser -----------------------------
(***************************************************************************)
(* RequestParser (http/RequestParser.cpp): the start line of a request,    *)
(* and then its message.  One action is one inner_poll of its own loop.    *)
(***************************************************************************)
EXTENDS MessageParser

VARIABLES
    startState,     \* _state of the parser of the start line
    startBuffer,    \* its _buffer
    startLine       \* what it has put in its _builder

startVars == <<startState, startBuffer, startLine>>

Sp == <<"sp", 0>>

Word(kind) == Len(startBuffer) = 1 /\ startBuffer[1][1] = kind

(* get_method and method_has_body, by the symbol of a method: 1 if it has  *)
(* a body.                                                                 *)
MethodHasBody == startLine[1][1] = <<"method", 1>>

StartFits == Len(startBuffer) <= limits.buffer

InStart(s) == pc = "start" /\ startState = s /\ StartFits

StartInit ==
    /\ startBuffer = <<>>
    /\ startLine = <<>>

StartExceedsBuffer ==
    /\ pc = "start"
    /\ ~StartFits
    /\ Throw("GenericExceededBuffer")
    /\ UNCHANGED <<streamVars, messageVars, startVars>>

StartPending ==
    /\ pc = "start" /\ StartFits
    /\ NextPending
    /\ pc' = "waiting"
    /\ UNCHANGED <<outcome, messageVars, startVars>>

StartGrows ==
    /\ startBuffer' = Append(startBuffer, Char)
    /\ Running
    /\ UNCHANGED <<startState, startLine>>

(* A part of the start line is whole, and the next one begins.             *)
StartPart(next) ==
    /\ startLine' = Append(startLine, startBuffer)
    /\ startState' = next
    /\ startBuffer' = <<>>
    /\ Running

StartThrows(error) == Throw(error) /\ UNCHANGED startVars

RequestInit == startState = "Method" /\ StartInit

RequestMethod ==
    /\ InStart("Method")
    /\ NextChar
    /\ \/ Char # Sp /\ StartGrows
       \/ Char = Sp /\ Word("method") /\ StartPart("Uri")
       \/ Char = Sp /\ ~Word("method") /\ StartThrows("InvalidMethod")
    /\ UNCHANGED messageVars

UriFits == Len(startBuffer) < limits.buffer

(* The constructor of Uri throws on a target that is none.                 *)
RequestUri ==
    /\ InStart("Uri")
    /\ NextChar
    /\ \/ Char # Sp /\ UriFits /\ StartGrows
       \/ Char # Sp /\ ~UriFits /\ StartThrows("UriExceededBuffer")
       \/ Char = Sp /\ ~NotUri(startBuffer) /\ StartPart("Version")
       \/ Char = Sp /\ NotUri(startBuffer) /\ StartThrows("UriError")
    /\ UNCHANGED messageVars

StartLineEnds == Char = Lf /\ startBuffer # <<>> /\ Last(startBuffer) = Cr

(* The version is left in _buffer, which is not used any more.             *)
RequestVersion ==
    /\ InStart("Version")
    /\ NextChar
    /\ \/ ~StartLineEnds /\ StartGrows
       \/ /\ StartLineEnds
          /\ LET version == Front(startBuffer)
             IN  IF Len(version) = 1 /\ version[1][1] = "version"
                 THEN /\ startLine' = Append(startLine, version)
                      /\ startBuffer' = version
                      /\ startState' = "Message"
                      /\ Running
                 ELSE StartThrows("UnsupportedVersion")
    /\ UNCHANGED messageVars

(* The first character of the message makes its parser, each poll of which *)
(* finds the character where this one put it back.                         *)
RequestMessage ==
    /\ InStart("Message")
    /\ NextCharShiftBack
    /\ pc' = "message"
    /\ hasBody' = MethodHasBody
    /\ UNCHANGED <<outcome, startVars, limits, state, buffer, headers, contentLength,
                   isChunkBody, hostSet, lastChunkSize, decodedBody, canEof,
                   fileReady, body>>

RequestFinished ==
    /\ pc = "start" /\ StartFits
    /\ NextFinished
    /\ Throw("UnexpectedEof")
    /\ UNCHANGED <<messageVars, startVars>>

(* A request of HTTP/1.1.                                                  *)
NeedsHost == startLine[3][1] = <<"version", 1>>

(* poll, when inner_poll has completed.                                    *)
RequestBuilt ==
    /\ pc = "built"
    /\ Throw(IF NeedsHost /\ ~hostSet THEN "MalformedMessage" ELSE "Completed")
    /\ UNCHANGED <<streamVars, messageVars, startVars>>

PollRequest ==
    \/ StartExceedsBuffer \/ StartPending
    \/ RequestMethod \/ RequestUri \/ RequestVersion \/ RequestMessage
    \/ RequestFinished
    \/ RequestBuilt
=============================================================================
