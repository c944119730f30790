----------------------------- MODULE ResponseParser -----------------------------
(***************************************************************************)
(* ResponseParser (http/ResponseParser.cpp), by which a proxy reads its    *)
(* upstream's response.                                                    *)
(***************************************************************************)
EXTENDS RequestParser

ResponseInit == startState = "ResponseVersion" /\ StartInit

ResponseVersion ==
    /\ InStart("ResponseVersion")
    /\ NextChar
    /\ \/ Char # Sp /\ StartGrows
       \/ Char = Sp /\ Word("version") /\ StartPart("Status")
       \/ Char = Sp /\ ~Word("version") /\ StartThrows("UnsupportedVersion")
    /\ UNCHANGED messageVars

(* A status line: a code, a space, and anything.                           *)
StatusLine(line) == Len(line) > 1 /\ line[1][1] = "code" /\ line[2] = Sp

(* The line feed itself is put in _buffer, where nobody looks for it.      *)
ResponseStatus ==
    /\ InStart("Status")
    /\ NextChar
    /\ \/ ~StartLineEnds /\ StartGrows
       \/ /\ StartLineEnds
          /\ IF StatusLine(Front(startBuffer))
             THEN /\ startLine' = Append(startLine, Front(startBuffer))
                  /\ startBuffer' = <<Lf>>
                  /\ startState' = "ResponseMessage"
                  /\ Running
             ELSE StartThrows("BadStatus")
    /\ UNCHANGED messageVars

(* The message of a response always has a body.                            *)
ResponseMessage ==
    /\ InStart("ResponseMessage")
    /\ NextCharShiftBack
    /\ pc' = "message"
    /\ hasBody' = TRUE
    /\ UNCHANGED <<outcome, startVars, limits, state, buffer, headers, contentLength,
                   isChunkBody, hostSet, lastChunkSize, decodedBody, canEof,
                   fileReady, body>>

(* The message's parser, if there is one, is told of the end of the stream *)
(* too.  (The character given back is of no use to a finished stream.)     *)
ResponseFinished ==
    /\ pc = "start" /\ StartFits
    /\ NextFinished
    /\ IF hasBody THEN pc' = "message" /\ UNCHANGED outcome ELSE Throw("BadOptionalAccess")
    /\ UNCHANGED <<messageVars, startVars>>

ResponseBuilt ==
    /\ pc = "built"
    /\ Throw("Completed")
    /\ UNCHANGED <<streamVars, messageVars, startVars>>

PollResponse ==
    \/ StartExceedsBuffer \/ StartPending
    \/ ResponseVersion \/ ResponseStatus \/ ResponseMessage
    \/ ResponseFinished
    \/ ResponseBuilt
=============================================================================
