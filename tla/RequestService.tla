----------------------------- MODULE RequestService -----------------------------
(***************************************************************************)
(* The service of a listening address (the lambda in main.cpp): it finds   *)
(* the server and the locations of a request, puts the configuration       *)
(* together from them, checks the request against it, and decides what     *)
(* answers it.  One action is one iteration of a loop, or one check.       *)
(*                                                                         *)
(* Nothing but the file system changes meanwhile: each question asked of   *)
(* it may be answered in any way.                                          *)
(***************************************************************************)
EXTENDS Integers, Sequences, FiniteSets

CONSTANTS
    Calls,         \* a request, [version, auth, method, size, host, address],
                    \* and a configuration, [http, servers, locations]
    PathLength      \* a path is the positions from 0 to PathLength

(* An optional is a sequence of at most one element.                       *)
None == <<>>
Some(x) == <<x>>

Keys == {"root", "index", "cgi", "methods", "autoindex", "auth", "upload",
         "body_limit", "modules", "proxy"}

(* A server has bind addresses, names, locations and settings; a location  *)
(* has locations, settings, a mark that it is final, and the pattern that  *)
(* leads to it: where it matches a path that begins at some position, up   *)
(* to which position it does, or NoMatch.  Locations are numbered.         *)
NoMatch == -1

AllSettings(c) ==
    {c.http} \cup {c.servers[s].settings : s \in DOMAIN c.servers}
             \cup {c.locations[l].settings : l \in DOMAIN c.locations}

Switch == {None, Some(TRUE), Some(FALSE)}

(* What locations and servers are, what two of the settings are, and that  *)
(* a listening address is one that some server was bound to.               *)
WellFormed(r, c) ==
    /\ c.servers \in Seq({c.servers[s] : s \in DOMAIN c.servers})
    /\ \A s \in DOMAIN c.servers : c.servers[s].locations \in Seq(DOMAIN c.locations)
    /\ \A l \in DOMAIN c.locations :
        /\ c.locations[l].locations \in Seq(DOMAIN c.locations)
        /\ \A i \in 0 .. PathLength : c.locations[l].pattern[i] \in {NoMatch} \cup i .. PathLength
    /\ \A set \in AllSettings(c) : set["cgi"] \in Switch /\ set["autoindex"] \in Switch
    /\ \E s \in DOMAIN c.servers : r.address \in c.servers[s].binds

ASSUME RequestServiceAssumption ==
    /\ PathLength \in Nat
    /\ \A in \in Calls : WellFormed(in.request, in.config)

VARIABLES
    check,          \* the next check
    request,        \* the request
    config,         \* the configuration
    next,           \* the iteration of a loop
    default,        \* default_server
    server,         \* scfg: the server of the request
    chain,          \* location_list
    position,       \* path: where what is left of the path begins
    best,           \* lout: the best location of a level so far
    length,         \* len: where its match ends, or NoMatch
    base,           \* bcfg
    answer          \* what answers: a handler, or a status of an error

serverVars == <<default, server>>
locationVars == <<chain, position, best, length>>
serviceVars == <<check, request, config, next, serverVars, locationVars, base, answer>>

(* What the service has found out before its first step.                   *)
NothingFound ==
    /\ next = 1
    /\ default = None
    /\ server = None
    /\ chain = <<>>
    /\ position = 0
    /\ best = None
    /\ length = NoMatch
    /\ base = [k \in Keys |-> None]
    /\ answer = "none"

ServiceInit ==
    /\ check = "version"
    /\ \E in \in Calls : request = in.request /\ config = in.config
    /\ NothingFound

(* The address is one that some server was bound to.                       *)
Bound(s) == request.address \in config.servers[s].binds
Named(s) == request.host \in config.servers[s].names

Goto(label) == check' = label /\ UNCHANGED answer
Answer(a) == check' = "done" /\ answer' = a

(* Mutant: every version is served.                                        *)
MutCheckVersion ==
    /\ check = "version"
    /\ Goto("server")
    /\ UNCHANGED <<request, config, next, serverVars, locationVars, base>>

CheckVersion ==
    /\ check = "version"
    /\ IF request.version = "1.1" THEN Goto("server") ELSE Answer("505")
    /\ UNCHANGED <<request, config, next, serverVars, locationVars, base>>
-----------------------------------------------------------------------------
(* match_server.                                                           *)

(* Mutant: the last server that is bound is the default.                   *)
MutDefault(s) == IF Bound(s) THEN Some(s) ELSE default

Default(s) == IF Bound(s) /\ default = None THEN Some(s) ELSE default

MatchServer ==
    /\ check = "server"
    /\ next <= Len(config.servers)
    /\ default' = Default(next)
    /\ IF Bound(next) /\ Named(next)
       THEN server' = Some(next) /\ next' = 1 /\ Goto("location")
       ELSE next' = next + 1 /\ UNCHANGED <<check, server, answer>>
    /\ UNCHANGED <<request, config, locationVars, base>>

DefaultServer ==
    /\ check = "server"
    /\ next > Len(config.servers)
    /\ server' = default
    /\ next' = 1
    /\ Goto("location")
    /\ UNCHANGED <<request, config, default, locationVars, base>>
-----------------------------------------------------------------------------
(* match_location_i: a level of it looks at each location of the one it is *)
(* called for, or of the server, and calls itself for the best.            *)

Location(l) == config.locations[l]

Inner ==
    IF chain = <<>> THEN config.servers[server[1]].locations
    ELSE Location(chain[Len(chain)]).locations

(* Mutant: as good as the best is better, and so is no match than none.    *)
MutBetter(end) == end >= length

Better(end) == end > length

MatchLocation ==
    /\ check = "location"
    /\ next <= Len(Inner)
    /\ LET end == Location(Inner[next]).pattern[position]
       IN  IF Better(end) THEN best' = Some(Inner[next]) /\ length' = end
           ELSE UNCHANGED <<best, length>>
    /\ next' = next + 1
    /\ UNCHANGED <<check, request, config, serverVars, chain, position, base, answer>>

EnterLocation ==
    /\ check = "location"
    /\ next > Len(Inner)
    /\ best # None
    /\ chain' = Append(chain, best[1])
    /\ position' = IF Location(best[1]).final THEN position ELSE length
    /\ next' = 1
    /\ best' = None
    /\ length' = NoMatch
    /\ UNCHANGED <<check, request, config, serverVars, base, answer>>

LocationsMatched ==
    /\ check = "location"
    /\ next > Len(Inner)
    /\ best = None
    /\ IF chain = <<>> THEN Answer("404") ELSE Goto("base")
    /\ next' = 1
    /\ UNCHANGED <<request, config, serverVars, locationVars, base>>
-----------------------------------------------------------------------------
(* match_base_config: from the innermost location to the server and the    *)
(* whole, each sets what is not yet set.                                   *)

Levels ==
    [i \in DOMAIN chain |-> Location(chain[Len(chain) + 1 - i]).settings]
        \o <<config.servers[server[1]].settings, config.http>>

(* Mutant: each level sets what it has.                                    *)
MutInherit(mine, theirs) == IF theirs = None THEN mine ELSE theirs

Inherit(mine, theirs) == IF mine = None THEN theirs ELSE mine

MatchBaseConfig ==
    /\ check = "base"
    /\ next <= Len(Levels)
    /\ base' = [k \in Keys |-> Inherit(base[k], Levels[next][k])]
    /\ next' = next + 1
    /\ IF next = Len(Levels) THEN Goto("auth") ELSE UNCHANGED <<check, answer>>
    /\ UNCHANGED <<request, config, serverVars, locationVars>>
-----------------------------------------------------------------------------
(* The checks.                                                             *)

(* What the Authorization header is: "absent" or of another scheme,        *)
(* "malformed", or Basic with credentials that are "wrong" or "right".     *)
Authorized == base["auth"] = None \/ request.auth = "right"

CheckAuthorization ==
    /\ check = "auth"
    /\ IF Authorized THEN Goto("method")
       ELSE Answer(IF request.auth = "malformed" THEN "400" ELSE "401")
    /\ UNCHANGED <<request, config, next, serverVars, locationVars, base>>

MethodAllowed ==
    \/ base["methods"] # None /\ request.method \in base["methods"][1]
    \/ base["methods"] = None /\ request.method \in {"GET", "HEAD"}

CheckMethod ==
    /\ check = "method"
    /\ IF MethodAllowed THEN Goto("limit") ELSE Answer("405")
    /\ UNCHANGED <<request, config, next, serverVars, locationVars, base>>

WithinLimit == base["body_limit"] = None \/ request.size <= base["body_limit"][1]

CheckInnerBodyLimit ==
    /\ check = "limit"
    /\ IF WithinLimit THEN Goto("handler") ELSE Answer("413")
    /\ UNCHANGED <<request, config, next, serverVars, locationVars, base>>
-----------------------------------------------------------------------------
(* What answers.  A failed call of the system is "500", if it is not known *)
(* for another status.                                                     *)

IsUpload == request.method = "PUT" /\ base["upload"] # None

True(k) == base[k] # None /\ base[k][1]

ConnectProxy ==
    /\ check = "handler"
    /\ base["proxy"] # None
    /\ \E connected \in BOOLEAN : Answer(IF connected THEN "proxy" ELSE "500")
    /\ UNCHANGED <<request, config, next, serverVars, locationVars, base>>

(* try_download: the file's name is that of a directory, or its directory  *)
(* does not exist; or it can be made, or not.                              *)
TryDownload ==
    /\ check = "handler"
    /\ base["proxy"] = None /\ IsUpload
    /\ \E a \in {"404", "500", "upload"} : Answer(a)
    /\ UNCHANGED <<request, config, next, serverVars, locationVars, base>>

FindRoot ==
    /\ check = "handler"
    /\ base["proxy"] = None /\ ~IsUpload
    /\ \E exists \in BOOLEAN :
        IF base["root"] # None /\ exists THEN Goto("search") ELSE Answer("404")
    /\ UNCHANGED <<request, config, next, serverVars, locationVars, base>>

(* What is found at the path: nothing, a directory, which is listed or in  *)
(* which one of the index pages is found, or a file.                       *)
SearchPath ==
    /\ check = "search"
    /\ \E found \in {"nothing", "directory", "file"}, index \in BOOLEAN, opened \in BOOLEAN :
        CASE found = "nothing" -> Answer("404")
          [] found = "directory" /\ True("autoindex") ->
                Answer(IF opened THEN "directory" ELSE "500")
          [] found = "directory" /\ ~True("autoindex") ->
                IF base["index"] # None /\ index THEN Goto("serve") ELSE Answer("404")
          [] found = "file" -> Goto("serve")
    /\ UNCHANGED <<request, config, next, serverVars, locationVars, base>>

(* The modules that are enabled, a script, or the file itself, which may   *)
(* have gone since it was found.                                           *)
ServeFile ==
    /\ check = "serve"
    /\ \/ base["modules"] # None /\ Answer("module")
       \/ True("cgi") /\ \E a \in {"cgi", "502"} : Answer(a)
       \/ ~True("cgi") /\ \E a \in {"file", "404", "500"} : Answer(a)
    /\ UNCHANGED <<request, config, next, serverVars, locationVars, base>>

ServiceNext ==
    \/ CheckVersion
    \/ MatchServer \/ DefaultServer
    \/ MatchLocation \/ EnterLocation \/ LocationsMatched \/ MatchBaseConfig
    \/ CheckAuthorization \/ CheckMethod \/ CheckInnerBodyLimit
    \/ ConnectProxy \/ TryDownload \/ FindRoot \/ SearchPath \/ ServeFile

ServiceSpec == ServiceInit /\ [][ServiceNext]_serviceVars
-----------------------------------------------------------------------------
(* Properties.                                                             *)

Matched == {"base", "auth", "method", "limit", "handler", "search", "serve"}
Handlers == {"proxy", "upload", "directory", "module", "cgi", "file"}
Statuses == {"400", "401", "404", "405", "413", "500", "502", "505"}

TypeOK ==
    /\ check \in {"version", "server", "location", "done"} \cup Matched
    /\ WellFormed(request, config)
    /\ next \in Nat \ {0}
    /\ default \in {None} \cup {Some(s) : s \in DOMAIN config.servers}
    /\ server \in {None} \cup {Some(s) : s \in DOMAIN config.servers}
    /\ chain \in Seq(DOMAIN config.locations)
    /\ position \in 0 .. PathLength
    /\ best \in {None} \cup {Some(l) : l \in DOMAIN config.locations}
    /\ length \in {NoMatch} \cup position .. PathLength
    /\ DOMAIN base = Keys
    /\ answer \in {"none"} \cup Handlers \cup Statuses

(* A request is served by the first server of its address that has the     *)
(* name of its host, and by the first of its address if none has.          *)
ServerOfHost ==
    server # None =>
        /\ Bound(server[1])
        /\ \A s \in DOMAIN config.servers :
             Bound(s) =>
                \/ server[1] <= s
                \/ Named(server[1]) /\ ~Named(s)
        /\ ~Named(server[1]) => \A s \in DOMAIN config.servers : Bound(s) => ~Named(s)

(* Where the path begins for each level of locations, and for a next one.  *)
RunsFrom(from) ==
    /\ from[1] = 0
    /\ \A i \in DOMAIN chain :
        LET l == Location(chain[i])
        IN  from[i + 1] = IF l.final THEN from[i] ELSE l.pattern[from[i]]

(* The locations among which the i-th level chose.                         *)
Offered(i) ==
    IF i = 1 THEN config.servers[server[1]].locations ELSE Location(chain[i - 1]).locations

(* The first of those that match most of a path that begins at start.      *)
Longest(choices, l, start) ==
    LET end(j) == Location(choices[j]).pattern[start]
    IN  \E c \in DOMAIN choices :
            /\ l = choices[c]
            /\ end(c) # NoMatch
            /\ \A j \in DOMAIN choices : end(j) <= end(c) /\ (end(j) = end(c) => c <= j)

(* Every level of locations has the one that matches most of what its      *)
(* outer ones left of the path, and the first of those; there is a level   *)
(* wherever a location matches.                                            *)
LongestLocation ==
    \E from \in [1 .. Len(chain) + 1 -> 0 .. PathLength] :
        /\ RunsFrom(from)
        /\ \A i \in DOMAIN chain : Longest(Offered(i), chain[i], from[i])
        /\ check \in Matched =>
            /\ chain # <<>>
            /\ \A c \in DOMAIN Inner :
                Location(Inner[c]).pattern[from[Len(chain) + 1]] = NoMatch

(* The setting of the innermost level that has one.                        *)
Sets(k) == {i \in DOMAIN Levels : Levels[i][k] # None}

Innermost(k) ==
    IF Sets(k) = {} THEN None ELSE Levels[CHOOSE i \in Sets(k) : \A j \in Sets(k) : i <= j][k]

(* Nothing is served - no file, listing, script, module or upstream, and   *)
(* no file is made - unless the innermost settings for the request allow   *)
(* it: credentials, method and the size of the body.                       *)
ServedIsAllowed ==
    answer \in Handlers =>
        /\ request.version = "1.1"
        /\ Innermost("auth") # None => request.auth = "right"
        /\ IF Innermost("methods") = None THEN request.method \in {"GET", "HEAD"}
           ELSE request.method \in Innermost("methods")[1]
        /\ Innermost("body_limit") # None => request.size <= Innermost("body_limit")[1]
        /\ (answer = "proxy") <=> (Innermost("proxy") # None)
        /\ answer = "upload" => request.method = "PUT" /\ Innermost("upload") # None
        /\ answer = "cgi" => Innermost("cgi") = Some(TRUE)
        /\ answer = "file" => Innermost("cgi") # Some(TRUE)
=============================================================================
