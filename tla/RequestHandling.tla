---------------------------- MODULE RequestHandling ----------------------------
(***************************************************************************)
(* How a connection comes to its answer (ConnectionFuture::poll in the     *)
(* state Listen, http/Server.cpp): the parser is polled, the service is    *)
(* called with the request that it yields, and whatever the parser throws  *)
(* is answered with a status.  A response, that a proxy's parser reads, is *)
(* only parsed.                                                            *)
(***************************************************************************)
EXTENDS Parsing, RequestService

handlingVars == <<vars, serviceVars>>

(* The service was not called yet.                                         *)
HandlingInit ==
    /\ Init
    /\ check = "idle"
    /\ request = None /\ config = None
    /\ NothingFound

(* A request as the service is given it, by what the parser has built.     *)
(* Its credentials, host and path are any: the parser has no use for them. *)
Built(r) ==
    /\ r.version = IF startLine[3][1] = <<"version", 1>> THEN "1.1" ELSE "1.0"
    /\ (r.method \in {"POST", "PUT"}) <=> MethodHasBody
    /\ r.size = Len(body)

CallService ==
    /\ pc = "done" /\ IsRequest
    /\ outcome = "Completed"
    /\ check = "idle"
    /\ \E in \in Calls : Built(in.request) /\ request' = in.request /\ config' = in.config
    /\ check' = "version"
    /\ UNCHANGED <<vars, next, serverVars, locationVars, base, answer>>

(* The exceptions that are known here.  Uri's are not.                     *)
StatusOf(error) ==
    CASE error = "UndeterminedLength" -> "411"
      [] error = "UriExceededBuffer" -> "414"
      [] error = "BodyExceededLimit" -> "413"
      [] error = "GenericExceededBuffer" -> "431"
      [] error \in {"InvalidMethod", "BadTransferEncoding"} -> "501"
      [] error = "UnsupportedVersion" -> "505"
      [] error \in {"MalformedMessage", "UnexpectedEof"} -> "400"
      [] OTHER -> "500"

AnswerError ==
    /\ pc = "done" /\ IsRequest
    /\ outcome # "Completed"
    /\ check = "idle"
    /\ Answer(StatusOf(outcome))
    /\ UNCHANGED <<vars, request, config, next, serverVars, locationVars, base>>

HandlingNext ==
    \/ Next /\ UNCHANGED serviceVars
    \/ CallService \/ AnswerError
    \/ ServiceNext /\ UNCHANGED vars

HandlingSpec == HandlingInit /\ [][HandlingNext]_handlingVars

(* The peer sends its text, the file is written, the task is polled.       *)
FairHandlingSpec == HandlingSpec /\ WF_vars(Next)
-----------------------------------------------------------------------------
(* Properties.                                                             *)

(* The service looks at the host of a request without asking whether there *)
(* is one (main.cpp:1054): of the three places that look after the host -  *)
(* both parsers and the version check - enough do.                         *)
ServedHasHost == check = "server" => \E i \in DOMAIN headers : Header(headers[i]) = "host"

(* Whoever sends a whole request that cannot be served is answered with    *)
(* the status for what is wrong with it: 411 if it has no length           *)
(* (MessageParser.cpp:311-312), 413 if a chunk exceeds the limit (:482),   *)
(* 400 if it is malformed (Status.hpp:363-366).                            *)
WrongIsRefused ==
    (answer # "none" /\ Whole /\ Expected(input) # "Completed") =>
        answer = IF Expected(input) = "UriError" THEN "400" ELSE StatusOf(Expected(input))
=============================================================================
