------------------------------- MODULE HttpProofs -------------------------------
(***************************************************************************)
(* Proofs about what of an HTTP exchange needs no runtime: RequestService, *)
(* for every request and every configuration; Parsing, for every set of    *)
(* messages, every portioning and every limit; and RequestHandling, which  *)
(* is both.                                                                *)
(***************************************************************************)
EXTENDS RequestHandling, SequenceTheorems, WellFoundedInduction, TLAPS

-----------------------------------------------------------------------------
(* The service: how a request finds its configuration and what answers it. *)

Label == {"version", "server", "location", "done"} \cup Matched

(* What match_server knows when it comes to the next server.               *)
ServerInv ==
    /\ check = "version" => next = 1 /\ default = None /\ server = None
    /\ check = "server" =>
        /\ server = None
        /\ next <= Len(config.servers) + 1
        /\ \A s \in DOMAIN config.servers : s < next =>
            /\ ~(Bound(s) /\ Named(s))
            /\ default = None => ~Bound(s)
    /\ default # None =>
        /\ Bound(default[1])
        /\ \A s \in DOMAIN config.servers : Bound(s) => default[1] <= s
    /\ check \in {"location"} \cup Matched => server # None
    /\ ServerOfHost

(* What match_location_i did on the levels that it left.                   *)
Walk(from) ==
    /\ RunsFrom(from)
    /\ \A i \in DOMAIN chain : Longest(Offered(i), chain[i], from[i])
    /\ from[Len(chain) + 1] = position

EndOf(c) == Location(Inner[c]).pattern[position]

(* What it knows on its level when it comes to the next location.          *)
BestSoFar ==
    \/ /\ best = None
       /\ length = NoMatch
       /\ \A c \in DOMAIN Inner : c < next => EndOf(c) = NoMatch
    \/ \E c \in DOMAIN Inner :
        /\ best = Some(Inner[c])
        /\ length = EndOf(c)
        /\ length # NoMatch
        /\ c < next
        /\ \A j \in DOMAIN Inner : j < next => EndOf(j) <= length /\ (EndOf(j) = length => c <= j)

LocationInv ==
    /\ check \in {"version", "server"} => chain = <<>> /\ position = 0 /\ best = None /\ length = NoMatch
    /\ \E from \in [1 .. Len(chain) + 1 -> 0 .. PathLength] : Walk(from)
    /\ check = "location" => next <= Len(Inner) + 1 /\ BestSoFar
    /\ check \in Matched => chain # <<>> /\ \A c \in DOMAIN Inner : EndOf(c) = NoMatch

(* What match_base_config has of a setting before it comes to level n.     *)
SetBefore(k, n) ==
    \/ base[k] = None /\ \A i \in DOMAIN Levels : i < n => Levels[i][k] = None
    \/ \E i \in DOMAIN Levels :
        /\ i < n
        /\ base[k] # None
        /\ base[k] = Levels[i][k]
        /\ \A j \in DOMAIN Levels : j < i => Levels[j][k] = None

Checks == Matched \ {"base"}

SettingsInv ==
    /\ check \in {"version", "server", "location"} => base = [k \in Keys |-> None]
    /\ check = "base" => next <= Len(Levels) /\ \A k \in Keys : SetBefore(k, next)
    /\ check \in Checks => \A k \in Keys : SetBefore(k, Len(Levels) + 1)

CheckInv ==
    /\ check \notin {"version", "done"} => request.version = "1.1"
    /\ check \in Checks \ {"auth"} => Authorized
    /\ check \in Checks \ {"auth", "method"} => MethodAllowed
    /\ check \in Checks \ {"auth", "method", "limit"} => WithinLimit
    /\ check \in {"search", "serve"} => base["proxy"] = None /\ ~IsUpload
    /\ check # "done" => answer = "none"
    /\ ServedIsAllowed

ServiceInv == TypeOK /\ ServerInv /\ LocationInv /\ SettingsInv /\ CheckInv
-----------------------------------------------------------------------------
(* What the operators have.                                                *)

LEMMA InnerIsSeq ==
    ASSUME TypeOK, server # None
    PROVE  Inner \in Seq(DOMAIN config.locations)
<1>1. CASE chain = <<>>
  <2>1. server[1] \in DOMAIN config.servers
    BY DEF TypeOK, None, Some
  <2> QED
    BY <1>1, <2>1 DEF Inner, TypeOK, WellFormed
<1>2. CASE chain # <<>>
  <2>1. chain[Len(chain)] \in DOMAIN config.locations
    BY <1>2 DEF TypeOK
  <2> QED
    BY <1>2, <2>1 DEF Inner, Location, TypeOK, WellFormed
<1> QED
  BY <1>1, <1>2

LEMMA LevelsIsSeq ==
    ASSUME TypeOK, server # None
    PROVE  Levels \in Seq(AllSettings(config)) /\ Len(Levels) = Len(chain) + 2
<1> DEFINE own == [i \in DOMAIN chain |-> Location(chain[Len(chain) + 1 - i]).settings]
           rest == <<config.servers[server[1]].settings, config.http>>
<1>1. \A i \in DOMAIN chain : own[i] \in AllSettings(config)
  <2>1. \A i \in DOMAIN chain : chain[Len(chain) + 1 - i] \in DOMAIN config.locations
    BY DEF TypeOK
  <2> QED
    BY <2>1 DEF Location, AllSettings
<1>2. own \in Seq(AllSettings(config)) /\ Len(own) = Len(chain)
  <2>1. DOMAIN own = 1 .. Len(chain) /\ Len(chain) \in Nat
    BY DEF TypeOK
  <2> QED
    BY <1>1, <2>1
<1>3. rest \in Seq(AllSettings(config)) /\ Len(rest) = 2
  <2>1. server[1] \in DOMAIN config.servers
    BY DEF TypeOK, None, Some
  <2> QED
    BY <2>1 DEF AllSettings
<1>4. Levels = own \o rest
  BY DEF Levels
<1>5. QED
  <2> HIDE DEF own, rest
  <2>1. own \o rest \in Seq(AllSettings(config))
    BY <1>2, <1>3, ConcatProperties
  <2>2. Len(own \o rest) = Len(own) + Len(rest)
    BY <1>2, <1>3, ConcatProperties
  <2>3. Len(own \o rest) = Len(chain) + 2
    BY <2>2, <1>2, <1>3
  <2> QED
    BY <1>4, <2>1, <2>3

(* The best of a level matches: its end is a position behind the start.    *)
LEMMA PatternEnds ==
    ASSUME TypeOK, NEW l \in DOMAIN config.locations, NEW i \in 0 .. PathLength
    PROVE  Location(l).pattern[i] \in {NoMatch} \cup i .. PathLength
  BY DEF TypeOK, WellFormed, Location

-----------------------------------------------------------------------------
(* Type correctness.                                                       *)

LEMMA TypeInit == ServiceInit => TypeOK
<1> SUFFICES ASSUME ServiceInit PROVE TypeOK
  OBVIOUS
<1>1. WellFormed(request, config)
  BY RequestServiceAssumption DEF ServiceInit, NothingFound
<1>2. chain \in Seq(DOMAIN config.locations)
  <2>1. chain = <<>>
    BY DEF ServiceInit, NothingFound
  <2> QED
    BY <2>1
<1> QED
  BY <1>1, <1>2, RequestServiceAssumption DEF ServiceInit, NothingFound, TypeOK, Matched, NoMatch, Handlers, Statuses

LEMMA TypeStep ==
    ASSUME ServiceInv, [ServiceNext]_serviceVars
    PROVE  TypeOK'
<1> USE DEF ServiceInv, Matched, Handlers, Statuses, Goto, Answer
<1>0. TypeOK /\ (WellFormed(request, config) /\ request' = request /\ config' = config => WellFormed(request, config)')
  BY DEF WellFormed, AllSettings
<1>1. CASE CheckVersion
  BY <1>0, <1>1 DEF CheckVersion, TypeOK, serverVars, locationVars
<1>2. CASE MatchServer
  <2>1. next \in DOMAIN config.servers /\ next + 1 \in Nat \ {0}
    BY <1>2 DEF MatchServer, TypeOK, WellFormed
  <2> QED
    BY <1>0, <1>2, <2>1 DEF MatchServer, Default, TypeOK, locationVars
<1>3. CASE DefaultServer
  BY <1>0, <1>3 DEF DefaultServer, TypeOK, locationVars
<1>4. CASE MatchLocation
  <2>1. Inner[next] \in DOMAIN config.locations
    BY <1>4, InnerIsSeq DEF MatchLocation, TypeOK, ServerInv
  <2>2. Location(Inner[next]).pattern[position] \in {NoMatch} \cup position .. PathLength
    BY <2>1, PatternEnds DEF TypeOK
  <2> QED
    BY <1>0, <1>4, <2>1, <2>2 DEF MatchLocation, TypeOK, serverVars
<1>5. CASE EnterLocation
  <2>1. best[1] \in DOMAIN config.locations
    BY <1>5 DEF EnterLocation, TypeOK, None, Some
  <2>2. chain' \in Seq(DOMAIN config.locations)
    <3>1. chain \in Seq(DOMAIN config.locations) /\ chain' = Append(chain, best[1])
      BY <1>5 DEF EnterLocation, TypeOK
    <3> QED
      BY <2>1, <3>1, AppendProperties
  <2>3. length \in position .. PathLength
    BY <1>5, <2>1 DEF EnterLocation, TypeOK, LocationInv, BestSoFar, None
  <2>4. position' \in 0 .. PathLength
    BY <1>5, <2>3 DEF EnterLocation, TypeOK
  <2> QED
    BY <1>0, <1>5, <2>2, <2>4 DEF EnterLocation, TypeOK, serverVars
<1>6. CASE LocationsMatched
  BY <1>0, <1>6 DEF LocationsMatched, TypeOK, serverVars, locationVars
<1>7. CASE MatchBaseConfig
  BY <1>0, <1>7 DEF MatchBaseConfig, TypeOK, serverVars, locationVars
<1>8. CASE CheckAuthorization \/ CheckMethod \/ CheckInnerBodyLimit
  BY <1>0, <1>8 DEF CheckAuthorization, CheckMethod, CheckInnerBodyLimit, TypeOK, serverVars, locationVars
<1>9. CASE ConnectProxy \/ TryDownload \/ FindRoot \/ SearchPath
  <2>1. CASE ConnectProxy
    BY <1>0, <2>1 DEF ConnectProxy, TypeOK, serverVars, locationVars
  <2>2. CASE TryDownload
    BY <1>0, <2>2 DEF TryDownload, TypeOK, serverVars, locationVars
  <2>3. CASE FindRoot
    BY <1>0, <2>3 DEF FindRoot, TypeOK, serverVars, locationVars
  <2>4. CASE SearchPath
    <3>1. /\ check' \in {"done", "serve"} /\ answer' \in {answer, "404", "500", "directory"}
          /\ UNCHANGED <<request, config, next, serverVars, locationVars, base>>
      BY <2>4 DEF SearchPath
    <3> QED BY <1>0, <3>1 DEF TypeOK, serverVars, locationVars
  <2> QED BY <1>9, <2>1, <2>2, <2>3, <2>4
<1>10. CASE ServeFile
  BY <1>0, <1>10 DEF ServeFile, TypeOK, serverVars, locationVars
<1>11. CASE UNCHANGED serviceVars
  BY <1>0, <1>11 DEF serviceVars, TypeOK, serverVars, locationVars
<1> QED
  BY <1>1, <1>2, <1>3, <1>4, <1>5, <1>6, <1>7, <1>8, <1>9, <1>10, <1>11 DEF ServiceNext
-----------------------------------------------------------------------------
(* The server.                                                             *)

LEMMA ServerInit == ServiceInit => ServerInv
<1> SUFFICES ASSUME ServiceInit PROVE ServerInv
  OBVIOUS
<1>1. check = "version" /\ next = 1 /\ default = None /\ server = None
  BY DEF ServiceInit, NothingFound
<1> QED
  BY <1>1 DEF ServerInv, ServerOfHost, Matched

LEMMA ServerKept ==
    ASSUME ServiceInv, UNCHANGED <<request, config, serverVars>>,
           check \notin {"version", "server"}, check' \in {"location", "done"} \cup Matched,
           check = "done" => check' = "done"
    PROVE  ServerInv'
<1>1. UNCHANGED <<request, config, default, server>>
  BY DEF serverVars
<1>2. ServerInv /\ (check' \in {"location"} \cup Matched => check \in {"location"} \cup Matched)
  BY DEF ServiceInv, TypeOK
<1>3. check' # "version" /\ check' # "server"
  BY DEF Matched
<1>4. (default # None => /\ Bound(default[1])
                         /\ \A s \in DOMAIN config.servers : Bound(s) => default[1] <= s)'
  BY <1>1, <1>2 DEF ServerInv, Bound
<1>5. ServerOfHost'
  BY <1>1, <1>2 DEF ServerInv, ServerOfHost, Bound, Named
<1> QED
  BY <1>1, <1>2, <1>3, <1>4, <1>5 DEF ServerInv

LEMMA ServerStep ==
    ASSUME ServiceInv, [ServiceNext]_serviceVars
    PROVE  ServerInv'
<1> USE DEF ServiceInv
<1>1. CASE CheckVersion
  <2>1. next' = 1 /\ server' = None /\ default' = None /\ check' \in {"server", "done"}
    BY <1>1 DEF CheckVersion, ServerInv, serverVars, Goto, Answer
  <2>2. config' = config /\ \A s \in DOMAIN config.servers : ~(s < 1)
    BY <1>1 DEF CheckVersion, TypeOK, WellFormed
  <2>3. Len(config.servers) \in Nat
    BY DEF TypeOK, WellFormed
  <2> QED
    BY <2>1, <2>2, <2>3 DEF ServerInv, ServerOfHost, Matched, None
<1>2. CASE MatchServer
  <2>0. UNCHANGED <<request, config>>
    BY <1>2 DEF MatchServer
  <2>1. /\ DOMAIN config.servers = 1 .. Len(config.servers)
        /\ Len(config.servers) \in Nat
        /\ next \in DOMAIN config.servers
    BY <1>2 DEF MatchServer, TypeOK, WellFormed
  <2>2. /\ server = None
        /\ \A s \in DOMAIN config.servers : s < next =>
              ~(Bound(s) /\ Named(s)) /\ (default = None => ~Bound(s))
    BY <1>2 DEF MatchServer, ServerInv
  <2>3. default' # None =>
          /\ Bound(default'[1])
          /\ \A s \in DOMAIN config.servers : Bound(s) => default'[1] <= s
    <3>1. CASE default' = default
      BY <3>1 DEF ServerInv
    <3>2. CASE default' = Some(next) /\ default = None /\ Bound(next)
      BY <3>2, <2>1, <2>2 DEF Some
    <3> QED
      BY <1>2, <3>1, <3>2 DEF MatchServer, Default
  <2>4. default' = None => default = None /\ ~Bound(next)
    BY <1>2 DEF MatchServer, Default, None, Some
  <2>5. CASE Bound(next) /\ Named(next)
    <3>1. server' = Some(next) /\ check' = "location"
      BY <1>2, <2>5 DEF MatchServer, Goto
    <3>2. /\ Bound(next)
          /\ \A s \in DOMAIN config.servers : Bound(s) => next <= s \/ (Named(next) /\ ~Named(s))
      BY <2>1, <2>2, <2>5
    <3>3. server'[1] = next /\ server' # None
      BY <3>1 DEF Some, None
    <3>4. ServerOfHost'
      BY <2>0, <2>5, <3>2, <3>3 DEF ServerOfHost, Bound, Named
    <3> QED
      BY <2>0, <2>3, <3>1, <3>3, <3>4 DEF ServerInv, Bound
  <2>6. CASE ~(Bound(next) /\ Named(next))
    <3>1. next' = next + 1 /\ check' = "server" /\ server' = None
      BY <1>2, <2>2, <2>6 DEF MatchServer
    <3>2. next' <= Len(config.servers) + 1
      BY <2>1, <3>1
    <3>3. \A s \in DOMAIN config.servers : s < next' =>
            ~(Bound(s) /\ Named(s)) /\ (default' = None => ~Bound(s))
      BY <2>1, <2>2, <2>4, <2>6, <3>1
    <3> QED
      BY <2>0, <2>3, <3>1, <3>2, <3>3 DEF ServerInv, ServerOfHost, Bound, Named, Matched
  <2> QED
    BY <2>5, <2>6
<1>3. CASE DefaultServer
  <2>0. UNCHANGED <<request, config, default>> /\ server' = default /\ check' = "location"
    BY <1>3 DEF DefaultServer, Goto
  <2>1. DOMAIN config.servers = 1 .. Len(config.servers) /\ Len(config.servers) \in Nat
    BY DEF TypeOK, WellFormed
  <2>2. \A s \in DOMAIN config.servers : s < next
    BY <1>3, <2>1 DEF DefaultServer, TypeOK
  <2>3. \A s \in DOMAIN config.servers : ~(Bound(s) /\ Named(s)) /\ (default = None => ~Bound(s))
    BY <1>3, <2>2 DEF DefaultServer, ServerInv
  <2>4. \E s \in DOMAIN config.servers : Bound(s)
    BY DEF TypeOK, WellFormed, Bound
  <2>5. default # None
    BY <2>3, <2>4
  <2>6. default[1] \in DOMAIN config.servers
    BY <2>5 DEF TypeOK, None, Some
  <2>7. /\ Bound(default[1])
        /\ \A s \in DOMAIN config.servers : Bound(s) => default[1] <= s
    BY <2>5 DEF ServerInv
  <2>8. ServerOfHost'
    BY <2>0, <2>3, <2>7 DEF ServerOfHost, Bound, Named
  <2> QED
    BY <2>0, <2>5, <2>7, <2>8 DEF ServerInv, Bound
<1>4. CASE MatchLocation \/ EnterLocation \/ LocationsMatched \/ MatchBaseConfig
  BY <1>4, ServerKept DEF MatchLocation, EnterLocation, LocationsMatched, MatchBaseConfig,
     Goto, Answer, Matched
<1>5. CASE CheckAuthorization \/ CheckMethod \/ CheckInnerBodyLimit
  BY <1>5, ServerKept DEF CheckAuthorization, CheckMethod, CheckInnerBodyLimit, Goto, Answer, Matched
<1>6. CASE ConnectProxy \/ TryDownload \/ FindRoot \/ SearchPath \/ ServeFile
  BY <1>6, ServerKept DEF ConnectProxy, TryDownload, FindRoot, SearchPath, ServeFile,
     Goto, Answer, Matched
<1>7. CASE UNCHANGED serviceVars
  BY <1>7 DEF serviceVars, ServerInv, ServerOfHost, Bound, Named, serverVars
<1> QED
  BY <1>1, <1>2, <1>3, <1>4, <1>5, <1>6, <1>7 DEF ServiceNext
-----------------------------------------------------------------------------
(* The locations.                                                          *)

LEMMA LocationInit == ServiceInit => LocationInv
<1> SUFFICES ASSUME ServiceInit PROVE LocationInv
  OBVIOUS
<1>1. check = "version" /\ chain = <<>> /\ position = 0 /\ best = None /\ length = NoMatch
  BY DEF ServiceInit, NothingFound
<1> DEFINE start == [i \in 1 .. 1 |-> 0]
<1>2. start \in [1 .. Len(chain) + 1 -> 0 .. PathLength] /\ start[1] = 0
  BY <1>1, RequestServiceAssumption
<1>3. DOMAIN chain = {} /\ Len(chain) + 1 = 1
  BY <1>1
<1>4. Walk(start)
  BY <1>1, <1>2, <1>3 DEF Walk, RunsFrom
<1>5. \E from \in [1 .. Len(chain) + 1 -> 0 .. PathLength] : Walk(from)
  BY <1>2, <1>4
<1> QED
  BY <1>1, <1>5 DEF LocationInv, Matched

(* Which locations there are depends on the way so far.                    *)
LEMMA WalkKept ==
    ASSUME LocationInv, UNCHANGED <<config, chain, position>>,
           server' = server \/ chain = <<>>
    PROVE  (\E from \in [1 .. Len(chain) + 1 -> 0 .. PathLength] : Walk(from))'
<1>1. PICK from \in [1 .. Len(chain) + 1 -> 0 .. PathLength] : Walk(from)
  BY DEF LocationInv
<1>2. RunsFrom(from)' /\ (from[Len(chain) + 1] = position)'
  BY <1>1 DEF Walk, RunsFrom, Location
<1>3. \A i \in DOMAIN chain : Longest(Offered(i), chain[i], from[i])'
  <2>1. CASE chain = <<>>
    BY <2>1
  <2>2. ASSUME server' = server, NEW i \in DOMAIN chain
        PROVE  Longest(Offered(i), chain[i], from[i])'
    <3>1. Longest(Offered(i), chain[i], from[i])
      BY <1>1 DEF Walk
    <3>2. Offered(i)' = Offered(i) /\ chain'[i] = chain[i]
      BY <2>2 DEF Offered, Location
    <3> QED
      BY <3>1, <3>2 DEF Longest, Location
  <2> QED
    BY <2>1, <2>2
<1> QED
  BY <1>1, <1>2, <1>3 DEF Walk

LEMMA LocationKept ==
    ASSUME ServiceInv, UNCHANGED <<config, server, locationVars>>,
           check \in Matched, check' \in {"done"} \cup Matched
    PROVE  LocationInv'
<1>1. UNCHANGED <<chain, position, best, length>>
  BY DEF locationVars
<1>2. (\E from \in [1 .. Len(chain) + 1 -> 0 .. PathLength] : Walk(from))'
  BY <1>1, WalkKept DEF ServiceInv
<1>3. chain # <<>> /\ \A c \in DOMAIN Inner : EndOf(c) = NoMatch
  BY DEF ServiceInv, LocationInv
<1>4. (chain # <<>> /\ \A c \in DOMAIN Inner : EndOf(c) = NoMatch)'
  BY <1>1, <1>3 DEF Inner, EndOf, Location
<1> QED
  BY <1>2, <1>4 DEF LocationInv, Matched

(* The step to a next level: it begins where the match of the best ended.  *)
LEMMA EnterStep ==
    ASSUME ServiceInv, ServiceInv => TypeOK', EnterLocation
    PROVE  LocationInv'
<1> USE DEF ServiceInv
<1>1. PICK from \in [1 .. Len(chain) + 1 -> 0 .. PathLength] : Walk(from)
  BY DEF LocationInv
<1>2. PICK c \in DOMAIN Inner :
        /\ best = Some(Inner[c])
        /\ length = EndOf(c)
        /\ length # NoMatch
        /\ \A j \in DOMAIN Inner : j < next => EndOf(j) <= length /\ (EndOf(j) = length => c <= j)
  BY DEF EnterLocation, LocationInv, BestSoFar
<1> DEFINE l == Inner[c]
<1>2a. PICK n \in Nat : n = Len(chain)
  BY DEF TypeOK
<1>3. /\ UNCHANGED <<request, config, server>>
      /\ check' = "location" /\ check = "location" /\ next' = 1 /\ best' = None /\ length' = NoMatch
      /\ best[1] = l
      /\ position' = IF Location(l).final THEN position ELSE length
  BY <1>2 DEF EnterLocation, serverVars, Some
<1>4. Inner \in Seq(DOMAIN config.locations)
  BY <1>3, InnerIsSeq DEF ServerInv
<1>5. l \in DOMAIN config.locations
  BY <1>4
<1>6. /\ chain' = Append(chain, l)
      /\ chain \in Seq(DOMAIN config.locations)
      /\ DOMAIN chain = 1 .. n
      /\ Len(chain) = n
  BY <1>2a, <1>3 DEF EnterLocation, TypeOK
<1>7. /\ chain' # <<>>
      /\ Len(chain') = n + 1
      /\ \A i \in 1 .. n : chain'[i] = chain[i]
      /\ chain'[n + 1] = l
      /\ DOMAIN chain' = 1 .. n + 1
  <2>1. chain' \in Seq(DOMAIN config.locations)
    BY <1>5, <1>6, AppendProperties
  <2>2. /\ chain' # <<>>
        /\ Len(chain') = n + 1
        /\ \A i \in 1 .. n : chain'[i] = chain[i]
        /\ chain'[n + 1] = l
    BY <1>5, <1>6, AppendProperties
  <2> QED
    BY <2>1, <2>2
<1>8. from[n + 1] = position /\ from[1] = 0 /\ from \in [1 .. n + 1 -> 0 .. PathLength]
  BY <1>1, <1>2a DEF Walk, RunsFrom
<1>9. PICK longer \in [1 .. n + 2 -> 0 .. PathLength] :
        longer[n + 2] = position' /\ \A i \in 1 .. n + 1 : longer[i] = from[i]
  <2> DEFINE f == [i \in 1 .. n + 2 |-> IF i <= n + 1 THEN from[i] ELSE position']
  <2>1. position' \in 0 .. PathLength
    BY DEF TypeOK
  <2>2. f \in [1 .. n + 2 -> 0 .. PathLength]
    BY <1>8, <2>1
  <2>3. f[n + 2] = position' /\ \A i \in 1 .. n + 1 : f[i] = from[i]
    BY <1>6
  <2> HIDE DEF f
  <2> QED
    BY <2>2, <2>3
<1>10. RunsFrom(longer)'
  <2>1. longer[1] = 0
    BY <1>6, <1>8, <1>9
  <2>2. ASSUME NEW i \in 1 .. n
        PROVE  longer[i + 1] = IF Location(chain'[i]).final THEN longer[i] ELSE Location(chain'[i]).pattern[longer[i]]
    <3>1. longer[i + 1] = from[i + 1] /\ longer[i] = from[i] /\ chain'[i] = chain[i]
      BY <1>6, <1>7, <1>9
    <3> QED
      BY <1>1, <1>6, <3>1 DEF Walk, RunsFrom
  <2>3. longer[n + 2] = IF Location(l).final THEN longer[n + 1] ELSE Location(l).pattern[longer[n + 1]]
    BY <1>2, <1>3, <1>6, <1>8, <1>9 DEF EndOf
  <2>4. \A i \in DOMAIN chain' : longer[i + 1] =
            IF Location(chain'[i]).final THEN longer[i] ELSE Location(chain'[i]).pattern[longer[i]]
    <3> SUFFICES ASSUME NEW i \in DOMAIN chain'
                 PROVE  longer[i + 1] =
                    IF Location(chain'[i]).final THEN longer[i] ELSE Location(chain'[i]).pattern[longer[i]]
      OBVIOUS
    <3>1. CASE i \in 1 .. n
      BY <2>2, <3>1
    <3>2. CASE i = n + 1
      <4>1. i + 1 = n + 2
        BY <3>2, <1>6
      <4> QED
        BY <2>3, <3>2, <4>1, <1>7
    <3> QED
      BY <1>6, <1>7, <3>1, <3>2, SMTT(30)
  <2> QED
    BY <1>3, <2>1, <2>4 DEF RunsFrom, Location
<1>11. \A i \in DOMAIN chain' : Longest(Offered(i), chain[i], longer[i])'
  <2>1. \A j \in DOMAIN Inner : j < next
    BY <1>4 DEF EnterLocation, TypeOK
  <2>2. Longest(Inner, l, position)
    BY <1>2, <2>1 DEF Longest, EndOf
  <2>3. Offered(n + 1)' = Inner /\ longer[n + 1] = position
    <3>1. longer[n + 1] = position
      BY <1>6, <1>8, <1>9
    <3>2. CASE n = 0
      <4>1. chain = <<>> /\ n + 1 = 1
        BY <1>6, <3>2
      <4>2. server' = server
        BY <1>3
      <4> QED
        BY <1>3, <3>1, <4>1, <4>2 DEF Offered, Inner
    <3>3. CASE n # 0
      <4>1. chain # <<>> /\ n + 1 # 1 /\ n + 1 - 1 = n /\ n \in 1 .. n
        BY <1>6, <3>3
      <4> QED
        <5>1. chain'[n] = chain[n] /\ config' = config /\ Len(chain) = n
          BY <1>3, <1>6, <1>7, <4>1
        <5>2. Offered(n + 1)' = Location(chain[n]).locations
          BY ONLY <4>1, <5>1 DEF Offered, Location
        <5>3. Inner = Location(chain[n]).locations
          BY ONLY <4>1, <5>1 DEF Inner
        <5> QED BY <3>1, <5>2, <5>3
    <3> QED
      BY <3>2, <3>3
  <2>4. ASSUME NEW i \in 1 .. n
        PROVE  Offered(i)' = Offered(i) /\ longer[i] = from[i] /\ chain'[i] = chain[i]
    <3>1. i # 1 => i - 1 \in 1 .. n
      BY <1>6
    <3>2. longer[i] = from[i] /\ chain'[i] = chain[i] /\ i \in 1 .. n + 1
      BY <1>6, <1>7, <1>9
    <3> QED
      BY <1>3, <1>6, <1>7, <3>1, <3>2 DEF Offered, Location
  <2> SUFFICES ASSUME NEW i \in DOMAIN chain'
               PROVE  Longest(Offered(i), chain[i], longer[i])'
    OBVIOUS
  <2>5. CASE i \in 1 .. n
    <3>1. Longest(Offered(i), chain[i], from[i])
      BY <1>1, <1>6, <2>5 DEF Walk
    <3> QED
      BY <1>3, <2>4, <2>5, <3>1 DEF Longest, Location
  <2>6. CASE i = n + 1
    <3>1. Offered(i)' = Inner /\ longer[i] = position /\ chain'[i] = l
      BY <1>7, <2>3, <2>6
    <3> QED
      BY <1>3, <2>2, <3>1 DEF Longest, Location
  <2> QED
    BY <1>6, <1>7, <2>5, <2>6
<1>12. (\E f \in [1 .. Len(chain) + 1 -> 0 .. PathLength] : Walk(f))'
  <2>1. Len(chain') + 1 = n + 2
    BY <1>6, <1>7
  <2>2. longer \in [1 .. Len(chain') + 1 -> 0 .. PathLength] /\ longer[Len(chain') + 1] = position'
    BY <1>9, <2>1
  <2>3. Walk(longer)'
    BY <1>10, <1>11, <2>2 DEF Walk
  <2> QED
    BY <2>2, <2>3
<1>13. (next <= Len(Inner) + 1 /\ BestSoFar)'
  <2>1. Inner' \in Seq(DOMAIN config'.locations)
    <3>1. Inner' = Location(l).locations
      BY <1>3, <1>6, <1>7 DEF Inner, Location
    <3> QED
      BY <1>3, <1>5, <3>1 DEF TypeOK, WellFormed, Location
  <2>2. Len(Inner') \in Nat /\ \A d \in DOMAIN Inner' : ~(d < 1)
    BY <2>1
  <2> QED
    BY <1>3, <2>2 DEF BestSoFar
<1> QED
  BY <1>3, <1>7, <1>12, <1>13 DEF LocationInv, Matched

LEMMA LocationStep ==
    ASSUME ServiceInv, [ServiceNext]_serviceVars
    PROVE  LocationInv'
<1> USE DEF ServiceInv
<1>1. CASE CheckVersion
  <2>1. chain = <<>> /\ position = 0 /\ best = None /\ length = NoMatch
    BY <1>1 DEF CheckVersion, LocationInv
  <2>2. UNCHANGED <<config, chain, position, best, length>> /\ check' \in {"server", "done"}
    BY <1>1 DEF CheckVersion, locationVars, Goto, Answer
  <2>3. (\E from \in [1 .. Len(chain) + 1 -> 0 .. PathLength] : Walk(from))'
    BY <2>1, <2>2, WalkKept
  <2> QED
    BY <2>1, <2>2, <2>3 DEF LocationInv, Matched
<1>2. CASE MatchServer \/ DefaultServer
  <2>1. chain = <<>> /\ position = 0 /\ best = None /\ length = NoMatch
    BY <1>2 DEF MatchServer, DefaultServer, LocationInv
  <2>2. UNCHANGED <<config, chain, position, best, length>>
    BY <1>2 DEF MatchServer, DefaultServer, locationVars
  <2>3. (\E from \in [1 .. Len(chain) + 1 -> 0 .. PathLength] : Walk(from))'
    BY <2>1, <2>2, WalkKept
  <2>4. check' = "server" \/ (check' = "location" /\ next' = 1)
    BY <1>2 DEF MatchServer, DefaultServer, Goto
  <2>5. server' # None => Inner' \in Seq(DOMAIN config.locations)
    <3> SUFFICES ASSUME server' # None PROVE Inner' \in Seq(DOMAIN config.locations)
      OBVIOUS
    <3>1. TypeOK'
      BY TypeStep
    <3>2. server'[1] \in DOMAIN config'.servers
      BY <3>1 DEF TypeOK, None, Some
    <3>3. Inner' = config'.servers[server'[1]].locations
      BY <2>1, <2>2 DEF Inner
    <3> QED
      BY <2>2, <3>1, <3>2, <3>3 DEF TypeOK, WellFormed
  <2>6. check' = "location" => server' # None
    BY ServerStep, <1>2 DEF ServerInv
  <2>7. check' = "location" => Len(Inner') \in Nat /\ \A c \in DOMAIN Inner' : ~(c < 1)
    BY <2>5, <2>6
  <2>8. check' = "location" => (next <= Len(Inner) + 1 /\ BestSoFar)'
    BY <2>1, <2>2, <2>4, <2>7 DEF BestSoFar
  <2> QED
    BY <2>1, <2>2, <2>3, <2>4, <2>8 DEF LocationInv, Matched
<1>3. CASE MatchLocation
  <2>0. /\ UNCHANGED <<config, server, chain, position, check>>
        /\ check = "location" /\ next' = next + 1 /\ next \in Nat
        /\ next <= Len(Inner)
    BY <1>3 DEF MatchLocation, serverVars, TypeOK
  <2>1. (\E from \in [1 .. Len(chain) + 1 -> 0 .. PathLength] : Walk(from))'
    BY <2>0, WalkKept
  <2>2. Inner \in Seq(DOMAIN config.locations) /\ next \in DOMAIN Inner
    BY <2>0, InnerIsSeq DEF ServerInv, TypeOK
  <2>3. Inner' = Inner /\ \A c \in DOMAIN Inner : EndOf(c)' = EndOf(c)
    BY <2>0 DEF Inner, EndOf, Location
  <2>4. \A c \in DOMAIN Inner : EndOf(c) \in Int
    <3>1. \A c \in DOMAIN Inner : Inner[c] \in DOMAIN config.locations
      BY <2>2
    <3> QED
      BY <3>1, PatternEnds DEF EndOf, TypeOK, NoMatch
  <2>5. next' <= Len(Inner') + 1
    BY <2>0, <2>2, <2>3
  <2>6. BestSoFar
    BY <2>0 DEF LocationInv
  <2>6a. DOMAIN Inner \subseteq Nat
    BY <2>2
  <2>7. BestSoFar'
    <3>1. CASE EndOf(next) > length
      <4>1. best' = Some(Inner[next]) /\ length' = EndOf(next)
        BY <1>3, <3>1 DEF MatchLocation, Better, EndOf
      <4>2. EndOf(next) # NoMatch
        BY <2>2, <2>4, <3>1 DEF TypeOK, NoMatch
      <4>3. \A j \in DOMAIN Inner : j < next + 1 =>
                EndOf(j) <= EndOf(next) /\ (EndOf(j) = EndOf(next) => next <= j)
        <5>1. length \in Int
          BY DEF TypeOK, NoMatch
        <5>2. \A j \in DOMAIN Inner : j < next => EndOf(j) <= length
          <6>1. CASE best = None /\ length = NoMatch /\ \A c \in DOMAIN Inner : c < next => EndOf(c) = NoMatch
            BY <6>1 DEF NoMatch
          <6>2. CASE \E c \in DOMAIN Inner : \A j \in DOMAIN Inner : j < next => EndOf(j) <= length
            BY <6>2
          <6> QED
            BY <2>6, <6>1, <6>2 DEF BestSoFar
        <5> QED
          BY <2>0, <2>2, <2>4, <2>6a, <3>1, <5>1, <5>2
      <4> HIDE DEF ServiceInv
      <4> QED
        BY <2>0, <2>2, <2>3, <4>1, <4>2, <4>3 DEF BestSoFar
    <3>2. CASE ~(EndOf(next) > length)
      <4>1. UNCHANGED <<best, length>>
        BY <1>3, <3>2 DEF MatchLocation, Better, EndOf
      <4>2. length \in Int /\ EndOf(next) \in Int
        BY <2>2, <2>4 DEF TypeOK, NoMatch
      <4>3. CASE best = None /\ length = NoMatch /\ \A c \in DOMAIN Inner : c < next => EndOf(c) = NoMatch
        <5>1. EndOf(next) = NoMatch
          <6>1. EndOf(next) \in {NoMatch} \cup position .. PathLength
            BY <2>2, PatternEnds DEF EndOf, TypeOK
          <6> QED
            BY <6>1, <3>2, <4>3 DEF TypeOK, NoMatch
        <5>2. \A c \in DOMAIN Inner : c < next + 1 => c < next \/ c = next
          BY <2>0, <2>6a
        <5> HIDE DEF ServiceInv
        <5> QED
          BY <2>0, <2>3, <4>1, <4>3, <5>1, <5>2 DEF BestSoFar
      <4>4. ASSUME NEW c \in DOMAIN Inner,
                   best = Some(Inner[c]), length = EndOf(c), length # NoMatch, c < next,
                   \A j \in DOMAIN Inner : j < next => EndOf(j) <= length /\ (EndOf(j) = length => c <= j)
            PROVE  BestSoFar'
        <5>1. c < next + 1 /\ EndOf(next) <= length /\ c <= next
          BY <2>0, <2>6a, <3>2, <4>2, <4>4
        <5>2. \A j \in DOMAIN Inner : j < next + 1 => j < next \/ j = next
          BY <2>0, <2>6a
        <5> HIDE DEF ServiceInv
        <5>3. \A j \in DOMAIN Inner : j < next + 1 => EndOf(j) <= length /\ (EndOf(j) = length => c <= j)
          BY <4>4, <5>1, <5>2
        <5> QED
          BY <2>0, <2>3, <4>1, <4>4, <5>1, <5>3 DEF BestSoFar
      <4> QED
        BY <2>6, <4>3, <4>4 DEF BestSoFar
    <3> QED
      BY <3>1, <3>2
  <2> QED
    BY <2>0, <2>1, <2>5, <2>7 DEF LocationInv, Matched
<1>4. CASE EnterLocation
  BY <1>4, EnterStep, TypeStep
<1>5. CASE LocationsMatched
  <2>1. UNCHANGED <<config, server, chain, position, best, length>> /\ check = "location"
    BY <1>5 DEF LocationsMatched, serverVars, locationVars
  <2>2. (\E from \in [1 .. Len(chain) + 1 -> 0 .. PathLength] : Walk(from))'
    BY <2>1, WalkKept
  <2>3. check' = "done" \/ (check' = "base" /\ chain # <<>>)
    BY <1>5 DEF LocationsMatched, Goto, Answer
  <2>4. Inner \in Seq(DOMAIN config.locations)
    BY <2>1, InnerIsSeq DEF ServerInv
  <2>5. \A c \in DOMAIN Inner : c < next
    BY <1>5, <2>4 DEF LocationsMatched, TypeOK
  <2>6. \A c \in DOMAIN Inner : EndOf(c) = NoMatch
    BY <1>5, <2>1, <2>5 DEF LocationsMatched, LocationInv, BestSoFar, None, Some
  <2>7. (\A c \in DOMAIN Inner : EndOf(c) = NoMatch)'
    BY <2>1, <2>6 DEF Inner, EndOf, Location
  <2> QED
    BY <2>1, <2>2, <2>3, <2>7 DEF LocationInv, Matched
<1>6. CASE MatchBaseConfig
  BY <1>6, LocationKept DEF MatchBaseConfig, Goto, Matched, serverVars
<1>7. CASE CheckAuthorization \/ CheckMethod \/ CheckInnerBodyLimit
  BY <1>7, LocationKept DEF CheckAuthorization, CheckMethod, CheckInnerBodyLimit, Goto, Answer,
     Matched, serverVars
<1>8. CASE ConnectProxy \/ TryDownload \/ FindRoot \/ SearchPath \/ ServeFile
  BY <1>8, LocationKept DEF ConnectProxy, TryDownload, FindRoot, SearchPath, ServeFile,
     Goto, Answer, Matched, serverVars
<1>9. CASE UNCHANGED serviceVars
  <2>1. UNCHANGED <<check, config, next, server, chain, position, best, length>>
    BY <1>9 DEF serviceVars, serverVars, locationVars
  <2>2. (\E from \in [1 .. Len(chain) + 1 -> 0 .. PathLength] : Walk(from))'
    BY <2>1, WalkKept
  <2>3. Inner' = Inner /\ \A c : EndOf(c)' = EndOf(c)
    BY <2>1 DEF Inner, EndOf, Location
  <2> QED
    BY <2>1, <2>2, <2>3 DEF LocationInv, BestSoFar
<1> QED
  BY <1>1, <1>2, <1>3, <1>4, <1>5, <1>6, <1>7, <1>8, <1>9 DEF ServiceNext
-----------------------------------------------------------------------------
(* The settings.                                                           *)

LEMMA SettingsInit == ServiceInit => SettingsInv
<1> SUFFICES ASSUME ServiceInit PROVE SettingsInv
  OBVIOUS
<1>1. check = "version" /\ base = [k \in Keys |-> None]
  BY DEF ServiceInit, NothingFound
<1> QED
  BY <1>1 DEF SettingsInv, Checks, Matched

LEMMA LevelsKept ==
    ASSUME UNCHANGED <<config, server, chain>>
    PROVE  Levels' = Levels
  BY DEF Levels, Location

LEMMA SetKept ==
    ASSUME UNCHANGED <<config, server, chain, base>>, NEW k, NEW n, SetBefore(k, n)
    PROVE  SetBefore(k, n)'
  BY LevelsKept DEF SetBefore

LEMMA SettingsKept ==
    ASSUME ServiceInv, UNCHANGED <<config, server, chain, base>>,
           check \in Checks, check' \in {"done"} \cup Checks
    PROVE  SettingsInv'
<1>1. Levels' = Levels
  BY LevelsKept
<1>2. \A k \in Keys : SetBefore(k, Len(Levels) + 1)
  BY DEF ServiceInv, SettingsInv
<1>3. \A k \in Keys : SetBefore(k, Len(Levels) + 1)'
  BY <1>1, <1>2, SetKept DEF SetBefore
<1> QED
  BY <1>3 DEF SettingsInv, Checks, Matched

LEMMA SettingsStep ==
    ASSUME ServiceInv, [ServiceNext]_serviceVars
    PROVE  SettingsInv'
<1> USE DEF ServiceInv
<1>1. CASE CheckVersion \/ MatchServer \/ DefaultServer \/ MatchLocation \/ EnterLocation
  <2>1. base' = base /\ check \in {"version", "server", "location"}
           /\ check' \in {"version", "server", "location", "done"}
    BY <1>1 DEF CheckVersion, MatchServer, DefaultServer, MatchLocation, EnterLocation, Goto, Answer
  <2> QED
    BY <2>1 DEF SettingsInv, Checks, Matched
<1>2. CASE LocationsMatched
  <2>1. base' = base /\ base = [k \in Keys |-> None] /\ check' \in {"base", "done"} /\ next' = 1
    BY <1>2 DEF LocationsMatched, SettingsInv, Goto, Answer
  <2>2. check' = "base" => Levels' \in Seq(AllSettings(config)') /\ Len(Levels') = Len(chain') + 2
    <3> SUFFICES ASSUME check' = "base"
                 PROVE  Levels' \in Seq(AllSettings(config)') /\ Len(Levels') = Len(chain') + 2
      OBVIOUS
    <3>1. Levels' = Levels /\ UNCHANGED <<config, chain>> /\ AllSettings(config)' = AllSettings(config)
      BY <1>2, LevelsKept DEF LocationsMatched, serverVars, locationVars, AllSettings
    <3>2. server # None
      BY <1>2 DEF LocationsMatched, ServerInv
    <3> QED
      BY <3>1, <3>2, LevelsIsSeq
  <2>3. check' = "base" => 1 <= Len(Levels') /\ \A i \in DOMAIN Levels' : ~(i < 1)
    <3>1. Len(chain') \in Nat
      BY TypeStep DEF TypeOK
    <3> QED
      BY <2>2, <3>1
  <2> QED
    BY <2>1, <2>3 DEF SettingsInv, SetBefore, Checks, Matched
<1>3. CASE MatchBaseConfig
  <2>0. /\ check = "base" /\ UNCHANGED <<config, server, chain>>
        /\ next \in Nat \ {0} /\ next <= Len(Levels) /\ next' = next + 1
        /\ server # None
    BY <1>3 DEF MatchBaseConfig, TypeOK, serverVars, locationVars, ServerInv, Matched
  <2>1. Levels' = Levels
    BY <2>0, LevelsKept
  <2>2. Levels \in Seq(AllSettings(config)) /\ Len(Levels) \in Nat
    BY <2>0, LevelsIsSeq DEF TypeOK
  <2>3. DOMAIN Levels = 1 .. Len(Levels)
    BY <2>2
  <2>3a. PICK n \in Nat \ {0} : n = next
    BY <2>0
  <2>4. ASSUME NEW k \in Keys
        PROVE  SetBefore(k, n + 1)'
    <3>1. base'[k] = Inherit(base[k], Levels[next][k])
      BY <1>3 DEF MatchBaseConfig
    <3>2. SetBefore(k, next)
      BY <2>0 DEF SettingsInv
    <3>3. CASE base[k] = None /\ \A i \in DOMAIN Levels : i < next => Levels[i][k] = None
      <4>1. base'[k] = Levels[next][k]
        BY <3>1, <3>3 DEF Inherit
      <4>2. CASE base'[k] = None
        <5>0. \A i \in DOMAIN Levels : i < n + 1 => i < n \/ i = n
          BY <2>2, <2>3
        <5>1. \A i \in DOMAIN Levels : i < n + 1 => Levels[i][k] = None
          BY <2>3a, <3>3, <4>1, <4>2, <5>0
        <5> QED
          BY <2>0, <2>1, <4>2, <5>1 DEF SetBefore
      <4>3. CASE base'[k] # None
        <5>1. n \in DOMAIN Levels /\ n < n + 1
          BY <2>0, <2>3, <2>3a
        <5>2. \A j \in DOMAIN Levels : j < n => Levels[j][k] = None
          BY <2>3a, <3>3
        <5> QED
          BY <2>0, <2>1, <2>3a, <4>1, <4>3, <5>1, <5>2 DEF SetBefore
      <4> QED
        BY <4>2, <4>3
    <3>4. ASSUME NEW i \in DOMAIN Levels, i < next, base[k] # None, base[k] = Levels[i][k],
                 \A j \in DOMAIN Levels : j < i => Levels[j][k] = None
          PROVE  SetBefore(k, n + 1)'
      <4>1. base'[k] = base[k]
        BY <3>1, <3>4 DEF Inherit
      <4>2. i < n + 1
        BY <2>0, <2>3, <2>3a, <3>4
      <4> QED
        BY <2>0, <2>1, <3>4, <4>1, <4>2 DEF SetBefore
    <3> QED
      BY <3>2, <3>3, <3>4 DEF SetBefore
  <2>5. \A k \in Keys : SetBefore(k, next)'
    BY <2>0, <2>3a, <2>4 DEF SetBefore
  <2>6. CASE next = Len(Levels)
    <3>1. check' = "auth"
      BY <1>3, <2>6 DEF MatchBaseConfig, Goto
    <3>2. \A k \in Keys : SetBefore(k, Len(Levels) + 1)'
      BY <2>1, <2>3a, <2>4, <2>6 DEF SetBefore
    <3> QED
      BY <3>1, <3>2 DEF SettingsInv, Checks, Matched
  <2>7. CASE next # Len(Levels)
    <3>1. check' = "base"
      BY <1>3, <2>0, <2>7 DEF MatchBaseConfig
    <3>2. next' <= Len(Levels')
      BY <2>0, <2>1, <2>2, <2>7
    <3> QED
      BY <2>5, <3>1, <3>2 DEF SettingsInv, Checks, Matched
  <2> QED
    BY <2>6, <2>7
<1>4. CASE CheckAuthorization \/ CheckMethod \/ CheckInnerBodyLimit
  BY <1>4, SettingsKept DEF CheckAuthorization, CheckMethod, CheckInnerBodyLimit, Goto, Answer,
     Checks, Matched, serverVars, locationVars
<1>5. CASE ConnectProxy \/ TryDownload \/ FindRoot \/ SearchPath \/ ServeFile
  BY <1>5, SettingsKept DEF ConnectProxy, TryDownload, FindRoot, SearchPath, ServeFile,
     Goto, Answer, Checks, Matched, serverVars, locationVars
<1>6. CASE UNCHANGED serviceVars
  <2>1. UNCHANGED <<check, config, server, chain, next, base>>
    BY <1>6 DEF serviceVars, serverVars, locationVars
  <2>2. Levels' = Levels
    BY <2>1, LevelsKept
  <2> QED
    BY <2>1, <2>2 DEF SettingsInv, SetBefore
<1> QED
  BY <1>1, <1>2, <1>3, <1>4, <1>5, <1>6 DEF ServiceNext
-----------------------------------------------------------------------------
(* The checks.                                                             *)

LEMMA BaseIsInnermost ==
    ASSUME ServiceInv, check \in Checks, NEW k \in Keys
    PROVE  base[k] = Innermost(k)
<1>1. Levels \in Seq(AllSettings(config)) /\ Len(Levels) \in Nat
  BY LevelsIsSeq DEF ServiceInv, ServerInv, TypeOK, Checks
<1>2. DOMAIN Levels \subseteq Int /\ \A i \in DOMAIN Levels : i < Len(Levels) + 1
  BY <1>1
<1>3. SetBefore(k, Len(Levels) + 1)
  BY DEF ServiceInv, SettingsInv
<1>4. CASE base[k] = None /\ \A i \in DOMAIN Levels : Levels[i][k] = None
  BY <1>4 DEF Innermost, Sets
<1>5. ASSUME NEW i \in DOMAIN Levels, base[k] # None, base[k] = Levels[i][k],
             \A j \in DOMAIN Levels : j < i => Levels[j][k] = None
      PROVE  base[k] = Innermost(k)
  <2>1. i \in Sets(k)
    BY <1>5 DEF Sets
  <2>2. \A j \in Sets(k) : i <= j
    BY <1>2, <1>5 DEF Sets
  <2>3. \A m \in Sets(k) : (\A j \in Sets(k) : m <= j) => m = i
    BY <1>2, <2>1, <2>2 DEF Sets
  <2>4. (CHOOSE m \in Sets(k) : \A j \in Sets(k) : m <= j) = i
    BY <2>1, <2>2, <2>3
  <2> QED
    BY <1>5, <2>1, <2>4 DEF Innermost
<1> QED
  BY <1>2, <1>3, <1>4, <1>5 DEF SetBefore

LEMMA InnermostKept ==
    ASSUME UNCHANGED <<config, server, chain>>, NEW k
    PROVE  Innermost(k)' = Innermost(k)
  BY LevelsKept DEF Innermost, Sets

LEMMA SwitchSet ==
    ASSUME ServiceInv, check \in Checks
    PROVE  base["cgi"] \in Switch
<1>1. Levels \in Seq(AllSettings(config))
  BY LevelsIsSeq DEF ServiceInv, ServerInv, Checks
<1>2. \A i \in DOMAIN Levels : Levels[i] \in AllSettings(config)
  BY <1>1
<1>3. \A i \in DOMAIN Levels : Levels[i]["cgi"] \in Switch
  BY <1>2 DEF ServiceInv, TypeOK, WellFormed
<1>4. SetBefore("cgi", Len(Levels) + 1)
  BY DEF ServiceInv, SettingsInv, Keys
<1> QED
  BY <1>3, <1>4 DEF SetBefore, Switch

(* What has been checked by the time that a handler answers.               *)
LEMMA Allowed ==
    ASSUME ServiceInv, check \in {"handler", "search", "serve"}
    PROVE  /\ request.version = "1.1"
           /\ Innermost("auth") # None => request.auth = "right"
           /\ IF Innermost("methods") = None THEN request.method \in {"GET", "HEAD"}
              ELSE request.method \in Innermost("methods")[1]
           /\ Innermost("body_limit") # None => request.size <= Innermost("body_limit")[1]
<1>1. check \in Checks
  BY DEF Checks, Matched
<1>2. \A k \in {"auth", "methods", "body_limit"} : base[k] = Innermost(k)
  BY <1>1, BaseIsInnermost DEF Keys
<1>3. request.version = "1.1" /\ Authorized /\ MethodAllowed /\ WithinLimit
  BY <1>1 DEF ServiceInv, CheckInv, Checks, Matched
<1> QED
  BY <1>2, <1>3 DEF Authorized, MethodAllowed, WithinLimit

LEMMA CheckInit == ServiceInit => CheckInv
<1> SUFFICES ASSUME ServiceInit PROVE CheckInv
  OBVIOUS
<1>1. check = "version" /\ answer = "none"
  BY DEF ServiceInit, NothingFound
<1> QED
  BY <1>1 DEF CheckInv, ServedIsAllowed, Checks, Matched, Handlers

(* A step that answers.                                                    *)
LEMMA AnswerStep ==
    ASSUME ServiceInv, UNCHANGED <<request, config, server, chain>>,
           check \in {"handler", "search", "serve"}, NEW a, Answer(a),
           (a = "proxy") <=> (base["proxy"] # None),
           a = "upload" => IsUpload,
           a = "cgi" => True("cgi"),
           a = "file" => ~True("cgi")
    PROVE  CheckInv'
<1>1. \A k \in Keys : base[k] = Innermost(k)' /\ Innermost(k) = Innermost(k)'
  BY BaseIsInnermost, InnermostKept DEF Checks, Matched
<1>2. /\ request'.version = "1.1"
      /\ Innermost("auth")' # None => request'.auth = "right"
      /\ IF Innermost("methods")' = None THEN request'.method \in {"GET", "HEAD"}
         ELSE request'.method \in Innermost("methods")'[1]
      /\ Innermost("body_limit")' # None => request'.size <= Innermost("body_limit")'[1]
  BY <1>1, Allowed DEF Keys
<1>3. /\ (a = "proxy") <=> (Innermost("proxy")' # None)
      /\ a = "upload" => request'.method = "PUT" /\ Innermost("upload")' # None
  BY <1>1 DEF IsUpload, Keys
<1>4. /\ a = "cgi" => Innermost("cgi")' = Some(TRUE)
      /\ a = "file" => Innermost("cgi")' # Some(TRUE)
  <2>1. base["cgi"] \in Switch
    BY SwitchSet DEF Checks, Matched
  <2>2. base["cgi"] = Innermost("cgi")'
    BY <1>1 DEF Keys
  <2>3. True("cgi") <=> base["cgi"] = Some(TRUE)
    <3>1. CASE base["cgi"] = None
      BY <3>1 DEF True, None, Some
    <3>2. CASE base["cgi"] = <<TRUE>>
      BY <3>2 DEF True, None, Some
    <3>3. CASE base["cgi"] = <<FALSE>>
      <4>1. base["cgi"][1] = FALSE
        BY <3>3
      <4>2. ~True("cgi")
        BY <4>1 DEF True
      <4>3. <<FALSE>> # <<TRUE>>
        <5>1. <<FALSE>>[1] # <<TRUE>>[1]
          OBVIOUS
        <5> QED
          BY <5>1
      <4> QED
        BY <3>3, <4>2, <4>3 DEF Some
    <3> QED
      BY <2>1, <3>1, <3>2, <3>3 DEF Switch, Some
  <2> QED
    BY <2>2, <2>3
<1>5. ServedIsAllowed'
  BY <1>2, <1>3, <1>4 DEF ServedIsAllowed, Answer
<1> QED
  BY <1>5 DEF CheckInv, Answer, Checks, Matched

LEMMA CheckStep ==
    ASSUME ServiceInv, [ServiceNext]_serviceVars
    PROVE  CheckInv'
<1> USE DEF Checks, Matched
<1>1. CASE CheckVersion \/ MatchServer \/ DefaultServer \/ MatchLocation \/ EnterLocation
           \/ LocationsMatched \/ MatchBaseConfig
  <2>1. request' = request /\ check \in {"version", "server", "location", "base"}
    BY <1>1 DEF CheckVersion, MatchServer, DefaultServer, MatchLocation, EnterLocation,
       LocationsMatched, MatchBaseConfig
  <2>2. answer = "none" /\ (check # "version" => request.version = "1.1")
    BY <2>1 DEF ServiceInv, CheckInv
  <2>3. \/ check' \in {"server", "location", "base", "auth"} /\ answer' = "none"
             /\ request.version = "1.1"
        \/ check' = "done" /\ answer' \in {"505", "404"}
    BY <1>1, <2>1, <2>2 DEF CheckVersion, MatchServer, DefaultServer, MatchLocation,
       EnterLocation, LocationsMatched, MatchBaseConfig, Goto, Answer
  <2> QED
    BY <2>1, <2>3 DEF CheckInv, ServedIsAllowed, Handlers
<1>2. CASE CheckAuthorization \/ CheckMethod \/ CheckInnerBodyLimit
  <2>1. request' = request /\ base' = base /\ request.version = "1.1" /\ answer = "none"
    BY <1>2 DEF ServiceInv, CheckInv, CheckAuthorization, CheckMethod, CheckInnerBodyLimit
  <2>2. \/ check' = "method" /\ Authorized
        \/ check' = "limit" /\ Authorized /\ MethodAllowed
        \/ check' = "handler" /\ Authorized /\ MethodAllowed /\ WithinLimit
        \/ check' = "done" /\ answer' \in {"400", "401", "405", "413"}
    BY <1>2 DEF ServiceInv, CheckInv, CheckAuthorization, CheckMethod, CheckInnerBodyLimit, Goto, Answer
  <2>3. check' # "done" => answer' = "none"
    BY <1>2, <2>1 DEF CheckAuthorization, CheckMethod, CheckInnerBodyLimit, Goto, Answer
  <2> QED
    BY <2>1, <2>2, <2>3 DEF CheckInv, ServedIsAllowed, Handlers, Authorized, MethodAllowed, WithinLimit
<1>3. CASE ConnectProxy
  <2>1. /\ check = "handler" /\ UNCHANGED <<request, config, server, chain>>
        /\ base["proxy"] # None
    BY <1>3 DEF ConnectProxy, serverVars, locationVars
  <2>2. Answer("proxy") \/ Answer("500")
    BY <1>3 DEF ConnectProxy
  <2>3. CASE Answer("proxy")
    BY <2>1, <2>3, AnswerStep
  <2>4. CASE Answer("500")
    BY <2>1, <2>4 DEF CheckInv, ServedIsAllowed, Handlers, Answer
  <2> QED
    BY <2>2, <2>3, <2>4
<1>4. CASE TryDownload
  BY <1>4, AnswerStep DEF TryDownload, serverVars, locationVars
<1>5. ASSUME ServiceInv, UNCHANGED <<request, base>>, check \in {"handler", "search"},
             check' \in {"search", "serve"}, answer' = answer, base["proxy"] = None, ~IsUpload
      PROVE  CheckInv'
  BY <1>5 DEF ServiceInv, CheckInv, ServedIsAllowed, Handlers, Authorized, MethodAllowed, WithinLimit, IsUpload
<1>6. CASE FindRoot
  <2>1. /\ check = "handler" /\ UNCHANGED <<request, config, server, chain, base>>
        /\ base["proxy"] = None /\ ~IsUpload /\ (Goto("search") \/ Answer("404"))
    BY <1>6 DEF FindRoot, serverVars, locationVars
  <2> QED
    BY <1>5, <2>1, AnswerStep DEF Goto
<1>7. CASE SearchPath
  <2>1. /\ check = "search" /\ UNCHANGED <<request, config, server, chain, base>>
        /\ Goto("serve") \/ \E a \in {"404", "directory", "500"} : Answer(a)
    BY <1>7 DEF SearchPath, serverVars, locationVars
  <2>2. base["proxy"] = None /\ ~IsUpload
    BY <2>1 DEF ServiceInv, CheckInv
  <2> QED
    BY <1>5, <2>1, <2>2, AnswerStep DEF Goto
<1>8. CASE ServeFile
  <2>1. check = "serve" /\ UNCHANGED <<request, config, server, chain>>
    BY <1>8 DEF ServeFile, serverVars, locationVars
  <2>2. base["proxy"] = None
    BY <2>1 DEF ServiceInv, CheckInv
  <2> QED
    BY <1>8, <2>1, <2>2, AnswerStep DEF ServeFile
<1>9. CASE UNCHANGED serviceVars
  <2>1. UNCHANGED <<check, request, config, server, chain, base, answer>>
    BY <1>9 DEF serviceVars, serverVars, locationVars
  <2>2. \A k : Innermost(k)' = Innermost(k)
    BY <2>1, InnermostKept
  <2>3. CheckInv
    BY DEF ServiceInv
  <2>4. ServedIsAllowed'
    BY <2>1, <2>2, <2>3 DEF CheckInv, ServedIsAllowed
  <2> QED
    BY <2>1, <2>3, <2>4 DEF CheckInv, Authorized, MethodAllowed, WithinLimit, IsUpload
<1> QED
  BY <1>1, <1>2, <1>3, <1>4, <1>6, <1>7, <1>8, <1>9 DEF ServiceNext
-----------------------------------------------------------------------------
(* The theorems.                                                           *)

(* What the service knows before each of its steps, for any configuration. *)
THEOREM Invariant == ServiceSpec => []ServiceInv
<1>1. ServiceInit => ServiceInv
  BY TypeInit, ServerInit, LocationInit, SettingsInit, CheckInit DEF ServiceInv
<1>2. ServiceInv /\ [ServiceNext]_serviceVars => ServiceInv'
  BY TypeStep, ServerStep, LocationStep, SettingsStep, CheckStep DEF ServiceInv
<1> QED
  BY <1>1, <1>2, PTL DEF ServiceSpec

(* Every variable keeps its type: the service of an address always has a   *)
(* server when it looks for locations, and only locations of the           *)
(* configuration, at positions of the path (main.cpp:526-775).             *)
THEOREM TypeCorrect == ServiceSpec => []TypeOK
<1>1. ServiceInv => TypeOK
  BY DEF ServiceInv
<1> QED
  BY <1>1, Invariant, PTL

(* A request is served by the first server of its address with its host's  *)
(* name, or by the first of its address (match_server, main.cpp:526-570).  *)
THEOREM HostServed == ServiceSpec => []ServerOfHost
<1>1. ServiceInv => ServerOfHost
  BY DEF ServiceInv, ServerInv
<1> QED
  BY <1>1, Invariant, PTL

(* Each level of locations has the one that matches most of what was left  *)
(* of the path (match_location_i, main.cpp:573-599).                       *)
THEOREM LongestMatched == ServiceSpec => []LongestLocation
<1>1. ASSUME ServiceInv PROVE LongestLocation
  <2>1. PICK from \in [1 .. Len(chain) + 1 -> 0 .. PathLength] : Walk(from)
    BY <1>1 DEF ServiceInv, LocationInv
  <2>2. check \in Matched => chain # <<>> /\ \A c \in DOMAIN Inner : EndOf(c) = NoMatch
    BY <1>1 DEF ServiceInv, LocationInv
  <2> QED
    BY <2>1, <2>2 DEF LongestLocation, Walk, EndOf
<1> QED
  BY <1>1, Invariant, PTL

(* Nothing is served that the innermost settings for the request forbid    *)
(* (match_base_config and the checks, main.cpp:637-886).                   *)
THEOREM OnlyAllowed == ServiceSpec => []ServedIsAllowed
<1>1. ServiceInv => ServedIsAllowed
  BY DEF ServiceInv, CheckInv
<1> QED
  BY <1>1, Invariant, PTL

-----------------------------------------------------------------------------
(* The parsers: numbers, and sequences.                                    *)

(* Induction over the naturals, from the fact that their order is well     *)
(* founded: a set that has 0 and, with n, n + 1 has them all. The          *)
(* induction theorems of the library take an operator, which none of the   *)
(* provers can instantiate; a set they can.                                *)
Less == {p \in Nat \X Nat : p[1] < p[2]}

LEMMA LessWF == IsWellFoundedOn(Less, Nat)
  <1> USE NatLessThanWellFounded DEF OpToRel, Less
  <1> QED BY Zenon

LEMMA SetInduction ==
    ASSUME NEW S, 0 \in S, \A n \in Nat : n \in S => n + 1 \in S
    PROVE  Nat \subseteq S
<1> DEFINE T == Nat \ S
<1> SUFFICES ASSUME T # {} PROVE FALSE
  OBVIOUS
<1>0. T \subseteq Nat
  OBVIOUS
<1> HIDE DEF T
<1>1. PICK x \in T : \A y \in T : ~(<<y, x>> \in Less)
  BY LessWF, WFMin, <1>0
<1>2. \A y \in T : ~(y < x)
  BY <1>1, <1>0 DEF Less
<1> USE DEF T
<1>3. x # 0 /\ x \in Nat
  OBVIOUS
<1>4. x - 1 \in Nat /\ x - 1 \notin T
  BY <1>2, <1>3
<1> QED
  BY <1>3, <1>4

-----------------------------------------------------------------------------
(* Texts: sequences of symbols.                                            *)
Lacks(read, symbol) == \A i \in DOMAIN read : read[i] # symbol

(* The symbols that separate are three, and none of them is another.       *)
LEMMA SymbolsAre ==
    /\ Cr \in Symbols /\ Lf \in Symbols /\ Sp \in Symbols
    /\ Cr # Lf /\ Cr # Sp /\ Lf # Sp
    /\ Crlf \in Seq(Symbols) /\ Len(Crlf) = 2 /\ Crlf[1] = Cr /\ Crlf[2] = Lf
<1>1. Cr # Lf /\ Cr # Sp /\ Lf # Sp
  BY DEF Cr, Lf, Sp
<1>2. Cr \in Symbols /\ Lf \in Symbols /\ Sp \in Symbols
  BY DEF Cr, Lf, Sp, Symbols, Kinds
<1>3. Crlf \in Seq(Symbols) /\ Len(Crlf) = 2 /\ Crlf[1] = Cr /\ Crlf[2] = Lf
  <2> HIDE DEF Symbols
  <2> QED BY <1>2 DEF Crlf
<1> QED
  BY <1>1, <1>2, <1>3

(* What the library says of a concatenation, in the form it is cited in.   *)
LEMMA Concat ==
    ASSUME NEW S, NEW a \in Seq(S), NEW b \in Seq(S)
    PROVE  /\ a \o b \in Seq(S)
           /\ Len(a \o b) = Len(a) + Len(b)
           /\ Len(a) \in Nat /\ Len(b) \in Nat
           /\ \A i \in 1 .. Len(a) : (a \o b)[i] = a[i]
           /\ \A i \in 1 .. Len(b) : (a \o b)[Len(a) + i] = b[i]
<1>1. a \o b \in Seq(S) /\ Len(a \o b) = Len(a) + Len(b) /\ Len(a) \in Nat /\ Len(b) \in Nat
  BY ConcatProperties, LenProperties
<1>2. \A i \in 1 .. Len(a) + Len(b) :
        (a \o b)[i] = IF i <= Len(a) THEN a[i] ELSE b[i - Len(a)]
  BY ConcatProperties
<1>3. ASSUME NEW i \in 1 .. Len(b) PROVE (a \o b)[Len(a) + i] = b[i]
  <2>1. Len(a) + i \in 1 .. Len(a) + Len(b) /\ ~(Len(a) + i <= Len(a)) /\ Len(a) + i - Len(a) = i
    BY <1>1
  <2> QED BY <1>2, <2>1
<1>4. ASSUME NEW i \in 1 .. Len(a) PROVE (a \o b)[i] = a[i]
  <2>1. i \in 1 .. Len(a) + Len(b) /\ i <= Len(a)
    BY <1>1
  <2> QED BY <1>2, <2>1
<1> QED
  BY <1>1, <1>3, <1>4

(* Two ways to split a text at the same place.                             *)
LEMMA SplitSame ==
    ASSUME NEW S, NEW a \in Seq(S), NEW r \in Seq(S), NEW b \in Seq(S), NEW s \in Seq(S),
           a \o r = b \o s, Len(a) = Len(b)
    PROVE  a = b /\ r = s
<1>a. a \in Seq(S) /\ r \in Seq(S)
  OBVIOUS
<1>b. b \in Seq(S) /\ s \in Seq(S)
  OBVIOUS
<1>1. /\ Len(a \o r) = Len(a) + Len(r) /\ Len(a) \in Nat /\ Len(r) \in Nat
      /\ \A i \in 1 .. Len(a) : (a \o r)[i] = a[i]
      /\ \A i \in 1 .. Len(r) : (a \o r)[Len(a) + i] = r[i]
  BY ONLY <1>a, Concat
<1>2. /\ Len(b \o s) = Len(b) + Len(s) /\ Len(s) \in Nat
      /\ \A i \in 1 .. Len(b) : (b \o s)[i] = b[i]
      /\ \A i \in 1 .. Len(s) : (b \o s)[Len(b) + i] = s[i]
  BY ONLY <1>b, Concat
<1>3. Len(r) = Len(s)
  BY <1>1, <1>2
<1>4. \A i \in 1 .. Len(a) : a[i] = b[i]
  BY <1>1, <1>2
<1>5. \A i \in 1 .. Len(r) : r[i] = s[i]
  BY <1>1, <1>2, <1>3
<1>6. a = b
  BY <1>4, SeqEqual
<1>7. r = s
  BY <1>3, <1>5, SeqEqual
<1> QED
  BY <1>6, <1>7

(* A symbol is read: it leaves what comes after it, and joins what was     *)
(* read.                                                                   *)
LEMMA ReadsOne ==
    ASSUME NEW a \in Seq(Symbols), NEW c \in Symbols, NEW r \in Seq(Symbols)
    PROVE  /\ a \o (<<c>> \o r) = Append(a, c) \o r
           /\ Append(a, c) \in Seq(Symbols) /\ Len(Append(a, c)) = Len(a) + 1
           /\ Append(a, c) = a \o <<c>>
           /\ \A i \in 1 .. Len(a) : Append(a, c)[i] = a[i]
           /\ Append(a, c)[Len(a) + 1] = c
<1> HIDE DEF Symbols
<1>1. <<c>> \in Seq(Symbols)
  OBVIOUS
<1>2. Append(a, c) = a \o <<c>>
  BY AppendIsConcat
<1>3. a \o (<<c>> \o r) = (a \o <<c>>) \o r
  BY <1>1, ConcatAssociative
<1>4. /\ Append(a, c) \in Seq(Symbols) /\ Len(Append(a, c)) = Len(a) + 1
      /\ \A i \in 1 .. Len(a) : Append(a, c)[i] = a[i]
      /\ Append(a, c)[Len(a) + 1] = c
  BY AppendProperties
<1> QED
  BY <1>2, <1>3, <1>4

(* Another symbol is read, and it is not the separator either.             *)
LEMMA LacksAppend ==
    ASSUME NEW a \in Seq(Symbols), NEW c \in Symbols, NEW x, Lacks(a, x), c # x
    PROVE  Lacks(Append(a, c), x)
<1> HIDE DEF Symbols
<1>1. /\ Len(Append(a, c)) = Len(a) + 1 /\ Append(a, c) \in Seq(Symbols) /\ Len(a) \in Nat
      /\ \A i \in 1 .. Len(a) : Append(a, c)[i] = a[i]
      /\ Append(a, c)[Len(a) + 1] = c
  BY AppendProperties, LenProperties
<1>2. DOMAIN Append(a, c) = 1 .. Len(a) + 1 /\ DOMAIN a = 1 .. Len(a)
  BY <1>1, LenProperties
<1>3. ASSUME NEW i \in DOMAIN Append(a, c) PROVE Append(a, c)[i] # x
  <2>1. CASE i \in 1 .. Len(a)
    BY <1>1, <1>2, <2>1 DEF Lacks
  <2>2. CASE i = Len(a) + 1
    BY <1>1, <2>2
  <2>3. i \in 1 .. Len(a) \/ i = Len(a) + 1
    BY <1>1, <1>2
  <2> QED BY <2>1, <2>2, <2>3
<1> QED
  BY <1>3 DEF Lacks

(* A text that begins with a word and a separator, of which a is read that *)
(* has no separator.                                                       *)
LEMMA WordBegins ==
    ASSUME NEW x \in Symbols, NEW a \in Seq(Symbols), NEW r \in Seq(Symbols),
           NEW w \in Seq(Symbols), NEW s \in Seq(Symbols),
           Lacks(a, x), a \o r = (w \o <<x>>) \o s
    PROVE  Len(a) <= Len(w) /\ r # <<>>
<1> HIDE DEF Symbols
<1> DEFINE v == w \o <<x>>
<1>1. <<x>> \in Seq(Symbols) /\ Len(<<x>>) = 1 /\ <<x>>[1] = x
  OBVIOUS
<1>2. v \in Seq(Symbols) /\ Len(v) = Len(w) + 1 /\ v[Len(w) + 1] = x /\ Len(w) \in Nat
  BY <1>1, Concat
<1> HIDE DEF v
<1>3. /\ Len(v \o s) = Len(v) + Len(s) /\ Len(s) \in Nat
      /\ \A i \in 1 .. Len(v) : (v \o s)[i] = v[i]
  BY <1>2, Concat
<1>4. /\ Len(a \o r) = Len(a) + Len(r) /\ Len(a) \in Nat /\ Len(r) \in Nat
      /\ \A i \in 1 .. Len(a) : (a \o r)[i] = a[i]
  BY Concat
<1>5. a \o r = v \o s
  BY DEF v
<1>6. Len(a) <= Len(w)
  <2> SUFFICES ASSUME Len(a) > Len(w) PROVE FALSE
    BY <1>2, <1>4
  <2>1. Len(w) + 1 \in 1 .. Len(a) /\ Len(w) + 1 \in 1 .. Len(v)
    BY <1>2, <1>4
  <2>2. a[Len(w) + 1] = x
    BY <1>2, <1>3, <1>4, <1>5, <2>1
  <2>3. DOMAIN a = 1 .. Len(a)
    BY LenProperties
  <2> QED BY <2>1, <2>2, <2>3 DEF Lacks
<1>7. Len(r) # 0
  BY <1>2, <1>3, <1>4, <1>5, <1>6
<1>8. Len(<<>>) = 0
  OBVIOUS
<1> QED
  BY <1>6, <1>7, <1>8

(* The word goes on: the next symbol is one of it, and not the separator.  *)
LEMMA WordGoesOn ==
    ASSUME NEW x \in Symbols, NEW a \in Seq(Symbols), NEW c \in Symbols, NEW r \in Seq(Symbols),
           NEW w \in Seq(Symbols), NEW s \in Seq(Symbols),
           Lacks(a, x), a \o (<<c>> \o r) = (w \o <<x>>) \o s, c # x
    PROVE  Len(a) < Len(w)
<1>1. /\ a \o (<<c>> \o r) = Append(a, c) \o r
      /\ Append(a, c) \in Seq(Symbols) /\ Len(Append(a, c)) = Len(a) + 1
  BY ReadsOne
<1>2. Lacks(Append(a, c), x)
  BY LacksAppend
<1>3. Append(a, c) \o r = (w \o <<x>>) \o s
  BY <1>1
<1>4. Len(Append(a, c)) <= Len(w)
  BY ONLY <1>1, <1>2, <1>3, WordBegins, x \in Symbols, r \in Seq(Symbols),
          w \in Seq(Symbols), s \in Seq(Symbols)
<1>5. Len(a) \in Nat /\ Len(w) \in Nat
  BY LenProperties
<1> QED
  BY <1>1, <1>4, <1>5

(* At the separator the word is what was read, and more comes after it.    *)
LEMMA WordEnds ==
    ASSUME NEW x \in Symbols, NEW a \in Seq(Symbols), NEW r \in Seq(Symbols),
           NEW w \in Seq(Symbols), NEW s \in Seq(Symbols),
           Lacks(a, x), Lacks(w, x), a \o (<<x>> \o r) = (w \o <<x>>) \o s
    PROVE  a = w /\ r = s
<1> HIDE DEF Symbols
<1> DEFINE q == <<x>> \o r
           v == <<x>> \o s
<1>1. <<x>> \in Seq(Symbols) /\ Len(<<x>>) = 1
  OBVIOUS
<1>2. q \in Seq(Symbols) /\ v \in Seq(Symbols)
  BY <1>1, Concat
<1>3. (w \o <<x>>) \o s = w \o v /\ (a \o <<x>>) \o r = a \o q
  <2>1. (w \o <<x>>) \o s = w \o v
    BY <1>1, ConcatAssociative
  <2>2. (a \o <<x>>) \o r = a \o q
    BY <1>1, ConcatAssociative
  <2> QED BY <2>1, <2>2
<1>4. a \o q = w \o v
  BY <1>3
<1>5. a \o q = (w \o <<x>>) \o s /\ w \o v = (a \o <<x>>) \o r
  BY <1>3, <1>4
<1> HIDE DEF q, v
<1>6. Len(a) <= Len(w)
  BY <1>2, <1>5, WordBegins
<1>7. Len(w) <= Len(a)
  BY <1>2, <1>5, WordBegins
<1>8. Len(a) = Len(w)
  BY <1>6, <1>7, LenProperties
<1>9. a = w /\ q = v
  BY <1>2, <1>4, <1>8, SplitSame
<1> USE DEF q, v
<1>10. <<x>> \o r = <<x>> \o s
  BY <1>9
<1>11. r = s
  BY <1>1, <1>10, SplitSame
<1> QED
  BY <1>9, <1>11

(* From each part on, the parts one after the other: there is such a       *)
(* function, and it is the one that is defined.                            *)
Joins(f, parts, k) ==
    /\ f[Len(parts) + 1] = <<>>
    /\ \A i \in k .. Len(parts) : f[i] = parts[i] \o f[i + 1]

LEMMA JoinExists ==
    ASSUME NEW parts \in Seq(Seq(Symbols))
    PROVE  \E f \in [1 .. Len(parts) + 1 -> Seq(Symbols)] : Joins(f, parts, 1)
<1> HIDE DEF Symbols
<1> DEFINE n == Len(parts)
           D == 1 .. n + 1
           S == {m \in Nat : m <= n => \E f \in [D -> Seq(Symbols)] : Joins(f, parts, n + 1 - m)}
<1>0. n \in Nat /\ \A i \in 1 .. n : parts[i] \in Seq(Symbols)
  BY LenProperties
<1>1. 0 \in S
  <2> DEFINE f == [i \in D |-> <<>>]
  <2>1. f \in [D -> Seq(Symbols)]
    OBVIOUS
  <2>2. f[n + 1] = <<>> /\ \A i \in n + 1 - 0 .. n : FALSE
    BY <1>0
  <2>3. Joins(f, parts, n + 1 - 0)
    BY <2>2 DEF Joins
  <2> HIDE DEF f
  <2> QED BY <2>1, <2>3
<1>2. ASSUME NEW m \in Nat, m \in S PROVE m + 1 \in S
  <2> SUFFICES ASSUME m + 1 <= n
               PROVE  \E f \in [D -> Seq(Symbols)] : Joins(f, parts, n + 1 - (m + 1))
    OBVIOUS
  <2>1. PICK f \in [D -> Seq(Symbols)] : Joins(f, parts, n + 1 - m)
    BY <1>0, <1>2
  <2> DEFINE k == n + 1 - (m + 1)
             g == [f EXCEPT ![k] = parts[k] \o f[k + 1]]
  <2>2. k \in 1 .. n /\ k + 1 \in D /\ k \in D /\ n + 1 - m = k + 1 /\ n + 1 # k
    BY <1>0
  <2> HIDE DEF k
  <2>3. parts[k] \o f[k + 1] \in Seq(Symbols)
    BY <1>0, <2>2, Concat
  <2>4. g \in [D -> Seq(Symbols)] /\ g[k] = parts[k] \o f[k + 1]
        /\ \A i \in D : i # k => g[i] = f[i]
    BY <2>2, <2>3
  <2> HIDE DEF g
  <2>5. f[n + 1] = <<>> /\ \A i \in k + 1 .. n : f[i] = parts[i] \o f[i + 1]
    BY <2>1, <2>2 DEF Joins
  <2>6. g[n + 1] = <<>>
    BY <1>0, <2>2, <2>4, <2>5
  <2>7. ASSUME NEW i \in k .. n PROVE g[i] = parts[i] \o g[i + 1]
    <3>1. i \in D /\ i + 1 \in D /\ i + 1 # k
      BY <1>0, <2>2
    <3>2. CASE i = k
      BY <2>4, <3>1, <3>2
    <3>3. CASE i # k
      <4>1. i \in k + 1 .. n
        BY <1>0, <2>2, <3>3
      <4> QED BY <2>4, <2>5, <3>1, <3>3, <4>1
    <3> QED BY <3>2, <3>3
  <2>8. Joins(g, parts, k)
    BY <2>6, <2>7 DEF Joins
  <2> QED BY <2>4, <2>8 DEF k
<1>3. Nat \subseteq S
  <2> HIDE DEF S
  <2> QED BY <1>1, <1>2, SetInduction
<1>4. n \in S /\ n + 1 - n = 1
  BY <1>0, <1>3
<1> QED
  BY <1>0, <1>4

(* Each of its values is a part and its next value, and the last is        *)
(* nothing.                                                                *)
LEMMA JoinedIs ==
    ASSUME NEW parts \in Seq(Seq(Symbols))
    PROVE  /\ \A k \in 1 .. Len(parts) + 1 : Joined(parts)[k] \in Seq(Symbols)
           /\ Joined(parts)[Len(parts) + 1] = <<>>
           /\ \A k \in 1 .. Len(parts) : Joined(parts)[k] = parts[k] \o Joined(parts)[k + 1]
<1> HIDE DEF Symbols
<1> DEFINE n == Len(parts)
           D == 1 .. n + 1
           J(g) == [i \in D |-> IF i > n THEN <<>> ELSE parts[i] \o g[i + 1]]
<1>0. n \in Nat /\ \A i \in 1 .. n : parts[i] \in Seq(Symbols)
  BY LenProperties
<1>1. PICK f \in [D -> Seq(Symbols)] : Joins(f, parts, 1)
  BY JoinExists
<1>2. ASSUME NEW i \in D PROVE f[i] = J(f)[i]
  <2>1. CASE i = n + 1
    BY <1>0, <1>1, <2>1 DEF Joins
  <2>2. CASE i # n + 1
    <3>1. i \in 1 .. n /\ ~(i > n)
      BY <1>0, <2>2
    <3> QED BY <1>1, <3>1 DEF Joins
  <2> QED BY <2>1, <2>2
<1>3. f = J(f)
  BY <1>2
<1>4. Joined(parts) = J(Joined(parts))
  BY <1>3 DEF Joined
<1> DEFINE j == Joined(parts)
<1>5. \A i \in D : j[i] = IF i > n THEN <<>> ELSE parts[i] \o j[i + 1]
  BY <1>4
<1> HIDE DEF j
<1>6. j[n + 1] = <<>> /\ \A i \in 1 .. n : j[i] = parts[i] \o j[i + 1]
  <2>1. n + 1 \in D /\ n + 1 > n
    BY <1>0
  <2>2. ASSUME NEW i \in 1 .. n PROVE i \in D /\ ~(i > n)
    BY <1>0
  <2> QED BY <1>5, <2>1, <2>2
<1> DEFINE S == {m \in Nat : m <= n => j[n + 1 - m] \in Seq(Symbols)}
<1>7. 0 \in S
  <2>1. n + 1 - 0 = n + 1 /\ <<>> \in Seq(Symbols)
    BY <1>0
  <2> QED BY <1>6, <2>1
<1>8. ASSUME NEW m \in Nat, m \in S PROVE m + 1 \in S
  <2> SUFFICES ASSUME m + 1 <= n PROVE j[n + 1 - (m + 1)] \in Seq(Symbols)
    OBVIOUS
  <2> DEFINE i == n + 1 - (m + 1)
  <2>1. i \in 1 .. n /\ n + 1 - m = i + 1
    BY <1>0
  <2>2. j[n + 1 - m] \in Seq(Symbols)
    BY <1>0, <1>8
  <2> HIDE DEF i
  <2>3. j[i] = parts[i] \o j[i + 1] /\ j[i + 1] \in Seq(Symbols) /\ parts[i] \in Seq(Symbols)
    BY <1>0, <1>6, <2>1, <2>2
  <2>4. j[i] \in Seq(Symbols)
    BY <2>3, Concat
  <2> QED BY <2>4 DEF i
<1>9. Nat \subseteq S
  <2> HIDE DEF S
  <2> QED BY <1>7, <1>8, SetInduction
<1>10. ASSUME NEW k \in D PROVE j[k] \in Seq(Symbols)
  <2>1. n + 1 - k \in Nat /\ n + 1 - k <= n /\ n + 1 - (n + 1 - k) = k
    BY <1>0
  <2>2. n + 1 - k \in S
    BY <1>9, <2>1
  <2> QED BY <2>1, <2>2
<1> QED
  BY <1>6, <1>10 DEF j

(* The units of a body.                                                    *)
LEMMA DataIs ==
    ASSUME NEW i \in Nat, NEW j \in Nat, i <= j
    PROVE  /\ Data(i, j) \in Seq(Symbols)
           /\ Len(Data(i, j)) = j - i
           /\ \A k \in 1 .. j - i : Data(i, j)[k] = <<"data", i + k>>
<1>1. \A k \in 1 .. j - i : <<"data", i + k>> \in Symbols
  BY DEF Symbols, Kinds
<1>2. j - i \in Nat
  OBVIOUS
<1> HIDE DEF Symbols
<1>3. Data(i, j) \in [1 .. j - i -> Symbols]
  BY <1>1 DEF Data
<1>4. Data(i, j) \in Seq(Symbols)
  BY <1>2, <1>3, IsASeq
<1>5. Len(Data(i, j)) = j - i
  BY <1>2, <1>3, <1>4, LenProperties
<1> QED
  BY <1>4, <1>5 DEF Data

LEMMA DataFirst ==
    ASSUME NEW j \in Nat
    PROVE  /\ Data(0, j) \in Seq(Symbols) /\ Len(Data(0, j)) = j
           /\ \A k \in 1 .. j : Data(0, j)[k] = <<"data", k>>
<1>1. 0 \in Nat /\ 0 <= j /\ j - 0 = j /\ \A k \in 1 .. j : 0 + k = k
  OBVIOUS
<1>2. /\ Data(0, j) \in Seq(Symbols) /\ Len(Data(0, j)) = j - 0
      /\ \A k \in 1 .. j - 0 : Data(0, j)[k] = <<"data", 0 + k>>
  BY ONLY <1>1, j \in Nat, DataIs
<1> QED
  BY <1>1, <1>2

LEMMA DataConcat ==
    ASSUME NEW i \in Nat, NEW j \in Nat, i <= j
    PROVE  Data(0, i) \o Data(i, j) = Data(0, j)
<1> DEFINE a == Data(0, i)  b == Data(i, j)  c == Data(0, j)
<1>1. a \in Seq(Symbols) /\ Len(a) = i /\ \A k \in 1 .. i : a[k] = <<"data", k>>
  BY DataFirst
<1>2. b \in Seq(Symbols) /\ Len(b) = j - i /\ \A k \in 1 .. j - i : b[k] = <<"data", i + k>>
  BY DataIs
<1>3. c \in Seq(Symbols) /\ Len(c) = j /\ \A k \in 1 .. j : c[k] = <<"data", k>>
  BY DataFirst
<1> HIDE DEF a, b, c
<1>a. a \in Seq(Symbols) /\ b \in Seq(Symbols)
  BY <1>1, <1>2
<1>4. /\ a \o b \in Seq(Symbols) /\ Len(a \o b) = Len(a) + Len(b)
      /\ \A k \in 1 .. Len(a) : (a \o b)[k] = a[k]
      /\ \A k \in 1 .. Len(b) : (a \o b)[Len(a) + k] = b[k]
  BY ONLY <1>a, Concat
<1>5. Len(a \o b) = Len(c)
  BY <1>1, <1>2, <1>3, <1>4
<1>6. ASSUME NEW k \in 1 .. Len(a \o b) PROVE (a \o b)[k] = c[k]
  <2>0. k \in 1 .. j
    BY <1>3, <1>5
  <2>1. CASE k <= i
    <3>1. k \in 1 .. i
      BY <2>0, <2>1
    <3> QED BY <1>1, <1>3, <1>4, <2>0, <3>1
  <2>2. CASE k > i
    <3>1. k - i \in 1 .. j - i /\ i + (k - i) = k
      BY <2>0, <2>2
    <3>2. (a \o b)[i + (k - i)] = <<"data", i + (k - i)>>
      BY <1>1, <1>2, <1>4, <3>1
    <3> QED BY <1>3, <2>0, <3>1, <3>2
  <2> QED BY <2>0, <2>1, <2>2
<1>7. a \o b = c
  BY ONLY <1>3, <1>4, <1>5, <1>6, SeqEqual
<1> QED
  BY <1>7 DEF a, b, c

LEMMA DataBegins ==
    ASSUME NEW n \in Nat, NEW a \in Seq(Symbols), NEW r \in Seq(Symbols), a \o r = Data(0, n)
    PROVE  Len(a) <= n /\ a = Data(0, Len(a)) /\ Len(r) = n - Len(a)
<1> DEFINE d == Data(0, n)  m == Len(a)  c == Data(0, m)
<1>1. d \in Seq(Symbols) /\ Len(d) = n /\ \A k \in 1 .. n : d[k] = <<"data", k>>
  BY DataFirst
<1>2. /\ Len(a \o r) = m + Len(r) /\ m \in Nat /\ Len(r) \in Nat
      /\ \A k \in 1 .. m : (a \o r)[k] = a[k]
  BY Concat
<1>3. c \in Seq(Symbols) /\ Len(c) = m /\ \A k \in 1 .. m : c[k] = <<"data", k>>
  BY <1>2, DataFirst
<1>4. a \o r = d
  OBVIOUS
<1> HIDE DEF d, c
<1>5. m <= n /\ Len(r) = n - m
  BY <1>1, <1>2, <1>4
<1>6. ASSUME NEW k \in 1 .. m PROVE a[k] = c[k]
  <2>1. k \in 1 .. n
    BY <1>2, <1>5
  <2> QED BY <1>1, <1>2, <1>3, <1>4, <2>1
<1>7. a = c
  BY <1>3, <1>6, SeqEqual
<1> QED
  BY <1>5, <1>7 DEF c

(* A line with its return, and with its line feed.                         *)
LEMMA LineIsWord ==
    ASSUME NEW l \in Seq(Symbols), Lacks(l, Lf)
    PROVE  /\ Append(l, Cr) \in Seq(Symbols) /\ Lacks(Append(l, Cr), Lf)
           /\ Len(Append(l, Cr)) = Len(l) + 1
           /\ l \o Crlf = Append(l, Cr) \o <<Lf>> /\ l \o Crlf \in Seq(Symbols)
           /\ Front(Append(l, Cr)) = l /\ Last(Append(l, Cr)) = Cr
<1> HIDE DEF Symbols
<1>0. Cr \in Symbols /\ Lf \in Symbols /\ Cr # Lf /\ Crlf \in Seq(Symbols)
      /\ <<Lf>> \in Seq(Symbols) /\ <<Cr>> \in Seq(Symbols) /\ Len(l) \in Nat
  BY SymbolsAre, LenProperties
<1> DEFINE a == Append(l, Cr)
<1>1. /\ a \in Seq(Symbols) /\ Len(a) = Len(l) + 1
      /\ \A i \in 1 .. Len(l) : a[i] = l[i]
      /\ a[Len(l) + 1] = Cr
  BY <1>0, AppendProperties
<1>2. Lacks(a, Lf)
  BY <1>0, LacksAppend
<1>3. l \o Crlf = a \o <<Lf>>
  <2>1. Crlf = <<Cr>> \o <<Lf>>
    <3>1. Len(<<Cr>>) = 1 /\ <<Cr>>[1] = Cr /\ Len(<<Lf>>) = 1 /\ <<Lf>>[1] = Lf
      OBVIOUS
    <3> DEFINE c == <<Cr>> \o <<Lf>>
    <3>2. /\ c \in Seq(Symbols) /\ Len(c) = Len(<<Cr>>) + Len(<<Lf>>)
          /\ \A i \in 1 .. Len(<<Cr>>) : c[i] = <<Cr>>[i]
          /\ \A i \in 1 .. Len(<<Lf>>) : c[Len(<<Cr>>) + i] = <<Lf>>[i]
      BY ONLY <1>0, Concat DEF c
    <3> HIDE DEF c
    <3>3. Len(c) = 2 /\ c[1] = Cr /\ c[2] = Lf
      <4> DEFINE u == <<Cr>>  v == <<Lf>>
      <4>1. /\ Len(u) = 1 /\ u[1] = Cr /\ Len(v) = 1 /\ v[1] = Lf
            /\ Len(c) = Len(u) + Len(v)
            /\ \A i \in 1 .. Len(u) : c[i] = u[i]
            /\ \A i \in 1 .. Len(v) : c[Len(u) + i] = v[i]
        BY <3>1, <3>2
      <4> HIDE DEF u, v
      <4>2. 1 \in 1 .. Len(u) /\ 1 \in 1 .. Len(v) /\ Len(u) + 1 = 2 /\ Len(u) + Len(v) = 2
        BY <4>1
      <4>3. c[1] = u[1] /\ c[Len(u) + 1] = v[1]
        BY <4>1, <4>2
      <4> QED BY <4>1, <4>2, <4>3
    <3>4. \A i \in 1 .. 2 : i = 1 \/ i = 2
      OBVIOUS
    <3>5. \A i \in 1 .. Len(Crlf) : Crlf[i] = c[i]
      BY <3>3, <3>4, SymbolsAre
    <3>6. Crlf = c
      BY ONLY <3>2, <3>3, <3>5, SymbolsAre, SeqEqual
    <3> QED BY <3>6 DEF c
  <2>2. l \o (<<Cr>> \o <<Lf>>) = a \o <<Lf>>
    <3>1. l \in Seq(Symbols) /\ Cr \in Symbols /\ <<Lf>> \in Seq(Symbols)
      BY <1>0
    <3> QED BY ONLY <3>1, ReadsOne DEF a
  <2> QED BY <2>1, <2>2
<1>4. l \o Crlf \in Seq(Symbols)
  BY <1>0, Concat
<1> HIDE DEF a
<1>5. Last(a) = Cr
  BY <1>1 DEF Last
<1>6. Front(a) = l
  <2>1. Front(a) = SubSeq(a, 1, Len(l))
    <3>1. Len(a) - 1 = Len(l)
      BY <1>0, <1>1
    <3> QED BY <3>1 DEF Front
  <2>2. \A i \in 1 .. Len(l) : a[i] \in Symbols
    <3>1. \A i \in 1 .. Len(l) : l[i] \in Symbols
      BY LenProperties
    <3> QED BY <1>1, <3>1
  <2>3. /\ SubSeq(a, 1, Len(l)) \in Seq(Symbols)
        /\ Len(SubSeq(a, 1, Len(l))) = IF 1 <= Len(l) THEN Len(l) - 1 + 1 ELSE 0
        /\ \A i \in 1 .. Len(l) - 1 + 1 : SubSeq(a, 1, Len(l))[i] = a[1 + i - 1]
    BY <1>0, <2>2, SubSeqProperties
  <2> DEFINE s == SubSeq(a, 1, Len(l))
  <2>4. Len(s) = Len(l) /\ \A i \in 1 .. Len(l) : s[i] = l[i]
    <3> HIDE DEF s
    <3>1. Len(s) = IF 1 <= Len(l) THEN Len(l) - 1 + 1 ELSE 0
      BY <2>3 DEF s
    <3>2. \A i \in 1 .. Len(l) - 1 + 1 : s[i] = a[1 + i - 1]
      BY <2>3 DEF s
    <3>3. Len(s) = Len(l)
      BY <1>0, <3>1
    <3>4. ASSUME NEW i \in 1 .. Len(l) PROVE s[i] = l[i]
      <4>1. i \in 1 .. Len(l) - 1 + 1 /\ 1 + i - 1 = i
        BY <1>0
      <4> QED BY <1>1, <3>2, <4>1
    <3> QED BY <3>3, <3>4
  <2>5. s = l
    BY <2>3, <2>4, SeqEqual
  <2> QED BY <2>1, <2>5
<1> QED
  BY <1>1, <1>2, <1>3, <1>4, <1>5, <1>6 DEF a

(* Four sequences, one after the other.                                    *)
Four(a, b, c, d) ==
    LET s == a \o b \o c \o d
    IN  /\ Len(s) = Len(a) + Len(b) + Len(c) + Len(d)
        /\ \A i \in 1 .. Len(a) : s[i] = a[i]
        /\ \A i \in 1 .. Len(b) : s[Len(a) + i] = b[i]
        /\ \A i \in 1 .. Len(c) : s[Len(a) + Len(b) + i] = c[i]
        /\ \A i \in 1 .. Len(d) : s[Len(a) + Len(b) + Len(c) + i] = d[i]

LEMMA FourSequences ==
    \A S : \A a, b, c, d \in Seq(S) : a \o b \o c \o d \in Seq(S) /\ Four(a, b, c, d)
<1> SUFFICES ASSUME NEW S, NEW a \in Seq(S), NEW b \in Seq(S), NEW c \in Seq(S), NEW d \in Seq(S)
             PROVE  a \o b \o c \o d \in Seq(S) /\ Four(a, b, c, d)
  OBVIOUS
<1> DEFINE p == a \o b  q == p \o c  s == q \o d
<1>1. /\ p \in Seq(S) /\ Len(p) = Len(a) + Len(b) /\ Len(a) \in Nat /\ Len(b) \in Nat
      /\ \A i \in 1 .. Len(a) : p[i] = a[i]
      /\ \A i \in 1 .. Len(b) : p[Len(a) + i] = b[i]
  <2>1. a \in Seq(S) /\ b \in Seq(S)
    OBVIOUS
  <2> QED BY ONLY <2>1, Concat DEF p
<1> HIDE DEF p
<1>2. /\ q \in Seq(S) /\ Len(q) = Len(p) + Len(c) /\ Len(c) \in Nat
      /\ \A i \in 1 .. Len(p) : q[i] = p[i]
      /\ \A i \in 1 .. Len(c) : q[Len(p) + i] = c[i]
  <2>1. p \in Seq(S) /\ c \in Seq(S)
    BY <1>1
  <2> QED BY ONLY <2>1, Concat DEF q
<1> HIDE DEF q
<1>3. /\ s \in Seq(S) /\ Len(s) = Len(q) + Len(d) /\ Len(d) \in Nat
      /\ \A i \in 1 .. Len(q) : s[i] = q[i]
      /\ \A i \in 1 .. Len(d) : s[Len(q) + i] = d[i]
  <2>1. q \in Seq(S) /\ d \in Seq(S)
    BY <1>2
  <2> QED BY ONLY <2>1, Concat DEF s
<1> HIDE DEF s
<1>4. Len(s) = Len(a) + Len(b) + Len(c) + Len(d) /\ Len(q) = Len(a) + Len(b) + Len(c)
  BY <1>1, <1>2, <1>3
<1>5. ASSUME NEW i \in 1 .. Len(a) PROVE s[i] = a[i]
  <2>1. i \in 1 .. Len(p) /\ i \in 1 .. Len(q)
    BY <1>1, <1>2
  <2> QED BY <1>1, <1>2, <1>3, <2>1
<1>6. ASSUME NEW i \in 1 .. Len(b) PROVE s[Len(a) + i] = b[i]
  <2>1. Len(a) + i \in 1 .. Len(p) /\ Len(a) + i \in 1 .. Len(q)
    BY <1>1, <1>2
  <2> QED BY <1>1, <1>2, <1>3, <2>1
<1>7. ASSUME NEW i \in 1 .. Len(c) PROVE s[Len(a) + Len(b) + i] = c[i]
  <2>1. Len(p) + i \in 1 .. Len(q)
    BY <1>1, <1>2
  <2>2. s[Len(p) + i] = c[i]
    BY <1>2, <1>3, <2>1
  <2> QED BY <1>1, <2>2
<1>8. ASSUME NEW i \in 1 .. Len(d) PROVE s[Len(a) + Len(b) + Len(c) + i] = d[i]
  BY <1>3, <1>4
<1>9. s = a \o b \o c \o d
  BY DEF p, q, s
<1> QED
  BY <1>3, <1>4, <1>5, <1>6, <1>7, <1>8, <1>9, Zenon DEF Four
-----------------------------------------------------------------------------
(* The messages.                                                           *)
Texts == Seq(Symbols)

(* The messages for which the code has a right answer (see ParsedAsSent):  *)
(* the size of no chunk wraps, and no request leaves out its length.       *)
Straight == {in \in Messages : ~Wraps(in) /\ ~Undetermined(in)}

LEMMA StraightAre ==
    \A in \in Straight :
        /\ in \in Messages /\ StartIs(in) /\ HeadersAre(in) /\ BodyIs(in)
        /\ in.framing # "hugeChunk" /\ ~Undetermined(in)
        /\ in.framing = "chunked" =>
            \A i \in DOMAIN in.ends : ~(in.ends[i] >= SizeModulus \/ Size(in, i) + 2 >= SizeModulus)
  BY ParsingAssumption DEF Straight, Wraps

(* A sum that fits in its type is itself.                                  *)
LEMMA SumFits ==
    ASSUME NEW sum \in Nat, sum < SizeModulus
    PROVE  Wrapped(sum) = sum
<1>1. \A n \in Nat : n < SizeModulus => n % SizeModulus = n
  BY MessageParserAssumption
<1> QED
  BY <1>1 DEF Wrapped

(* A word of a message holds no separator.                                 *)
LEMMA WithoutLacks ==
    ASSUME NEW kinds, NEW part, Without(kinds, part)
    PROVE  /\ part \in Seq(Symbols)
           /\ "lf" \in kinds => Lacks(part, Lf)
           /\ "sp" \in kinds => Lacks(part, Sp)
<1>1. part \in Seq(Symbols) /\ \A i \in DOMAIN part : part[i][1] \notin kinds
  BY DEF Without
<1>2. Lf[1] = "lf" /\ Sp[1] = "sp"
  BY DEF Lf, Sp
<1> HIDE DEF Symbols
<1> QED
  BY <1>1, <1>2 DEF Lacks

(* Where the units of a body end, and how many there are.                  *)
LEMMA EndsAre ==
    ASSUME NEW in \in Straight
    PROVE  /\ Len(in.ends) \in Nat
           /\ \A i \in 1 .. Len(in.ends) : in.ends[i] \in Nat /\ Before(in, i + 1) = in.ends[i]
           /\ \A i \in 1 .. Len(in.ends) + 1 : Before(in, i) \in Nat
           /\ BodySize(in) \in Nat
           /\ Before(in, 1) = 0
<1>1. in.ends \in Seq(Nat)
  BY StraightAre DEF BodyIs
<1>2. Len(in.ends) \in Nat /\ \A i \in 1 .. Len(in.ends) : in.ends[i] \in Nat
  BY <1>1, LenProperties
<1>3. ASSUME NEW i \in 1 .. Len(in.ends) PROVE Before(in, i + 1) = in.ends[i]
  <2>1. i + 1 # 1 /\ i + 1 - 1 = i
    OBVIOUS
  <2> QED BY <2>1 DEF Before
<1>4. ASSUME NEW i \in 1 .. Len(in.ends) + 1 PROVE Before(in, i) \in Nat
  <2>1. i # 1 => i - 1 \in 1 .. Len(in.ends)
    BY <1>2
  <2> QED BY <1>2, <2>1 DEF Before
<1>5. Len(in.ends) + 1 \in 1 .. Len(in.ends) + 1
  BY <1>2
<1> QED
  BY <1>2, <1>3, <1>4, <1>5 DEF BodySize, Before

LEMMA ChunkIs ==
    ASSUME NEW in \in Straight, in.framing = "chunked", NEW i \in 1 .. Len(in.ends)
    PROVE  /\ Before(in, i) \in Nat /\ in.ends[i] \in Nat /\ Before(in, i) < in.ends[i]
           /\ Size(in, i) \in Nat \ {0} /\ Before(in, i) + Size(in, i) = in.ends[i]
           /\ Before(in, i + 1) = in.ends[i]
           /\ Wrapped(Before(in, i) + Size(in, i)) = Before(in, i) + Size(in, i)
           /\ Wrapped(Size(in, i) + 2) = Size(in, i) + 2
<1>0. SizeModulus \in Nat
  BY MessageParserAssumption
<1>1. /\ in.ends \in Seq(Nat) /\ \A j \in DOMAIN in.ends : Before(in, j) < in.ends[j]
      /\ \A j \in DOMAIN in.ends : ~(in.ends[j] >= SizeModulus \/ Size(in, j) + 2 >= SizeModulus)
  BY StraightAre DEF BodyIs
<1>2. /\ Before(in, i) < in.ends[i]
      /\ ~(in.ends[i] >= SizeModulus \/ Size(in, i) + 2 >= SizeModulus)
  BY <1>1, LenProperties
<1>3. Before(in, i) \in Nat /\ in.ends[i] \in Nat /\ Before(in, i + 1) = in.ends[i]
  <2>1. i \in 1 .. Len(in.ends) + 1
    BY EndsAre
  <2> QED BY <2>1, EndsAre
<1>4. \A m, n \in Nat : m < n => n - m \in Nat \ {0} /\ m + (n - m) = n
  OBVIOUS
<1>5. Size(in, i) \in Nat \ {0} /\ Before(in, i) + Size(in, i) = in.ends[i]
  BY <1>2, <1>3, <1>4 DEF Size
<1>6. in.ends[i] < SizeModulus /\ Size(in, i) + 2 < SizeModulus /\ Size(in, i) + 2 \in Nat
  <2>1. \A e, s, m \in Nat : ~(e >= m \/ s + 2 >= m) => e < m /\ s + 2 < m /\ s + 2 \in Nat
    OBVIOUS
  <2> QED BY <1>0, <1>2, <1>3, <1>5, <2>1
<1>7. Wrapped(in.ends[i]) = in.ends[i] /\ Wrapped(Size(in, i) + 2) = Size(in, i) + 2
  BY <1>3, <1>6, SumFits
<1> QED
  BY <1>2, <1>3, <1>5, <1>7

LEMMA SizeLineIs ==
    ASSUME NEW n \in Nat
    PROVE  /\ SizeLine(n) \in Texts /\ Len(SizeLine(n)) = 1 /\ SizeLine(n)[1] = <<"size", n>>
           /\ Lacks(SizeLine(n), Lf)
<1> DEFINE c == <<"size", n>>
<1>1. c \in Symbols /\ c # Lf
  BY DEF Symbols, Kinds, Lf
<1>2. SizeLine(n) = <<c>>
  BY DEF SizeLine
<1> HIDE DEF c, Symbols
<1>3. <<c>> \in Seq(Symbols) /\ Len(<<c>>) = 1 /\ <<c>>[1] = c /\ DOMAIN <<c>> = 1 .. 1
  BY <1>1
<1>4. Lacks(<<c>>, Lf)
  BY <1>1, <1>3 DEF Lacks
<1> QED
  BY <1>2, <1>3, <1>4 DEF Texts, c

LEMMA BadSizeLineIs ==
    /\ BadSizeLine \in Texts /\ Len(BadSizeLine) = 2 /\ Lacks(BadSizeLine, Lf)
    /\ BadSizeLine[2] = <<"junk", 0>>
<1> DEFINE c == <<"size", 1>>  d == <<"junk", 0>>
<1>1. c \in Symbols /\ d \in Symbols /\ c # Lf /\ d # Lf
  BY DEF Symbols, Kinds, Lf
<1>2. BadSizeLine = <<c, d>>
  BY DEF BadSizeLine
<1>a. BadSizeLine[2] = <<"junk", 0>>
  BY DEF BadSizeLine
<1> HIDE DEF c, d, Symbols
<1>3. <<c, d>> \in Seq(Symbols) /\ Len(<<c, d>>) = 2 /\ <<c, d>>[2] = d /\ <<c, d>>[1] = c
      /\ DOMAIN <<c, d>> = 1 .. 2
  BY <1>1
<1>4. \A i \in 1 .. 2 : i = 1 \/ i = 2
  OBVIOUS
<1>5. Lacks(<<c, d>>, Lf)
  BY <1>1, <1>3, <1>4 DEF Lacks
<1> QED
  BY <1>2, <1>3, <1>5, <1>a DEF Texts

(* The words of a start line, each with its separator.                     *)
LEMMA StartPartsAre ==
    ASSUME NEW in \in Straight
    PROVE  /\ StartParts(in) \in Seq(Texts)
           /\ in.kind \in {"request", "response"}
           /\ in.kind = "request" =>
                /\ Len(StartParts(in)) = 3
                /\ in.method \in Texts /\ in.uri \in Texts /\ in.version \in Texts
                /\ Lacks(in.method, Sp) /\ Lacks(in.uri, Sp) /\ Lacks(in.version, Lf)
                /\ in.method # <<>> /\ in.version # <<>> /\ in.version[1][1] = "version"
                /\ StartParts(in)[1] = in.method \o <<Sp>>
                /\ StartParts(in)[2] = in.uri \o <<Sp>>
                /\ StartParts(in)[3] = in.version \o Crlf
           /\ in.kind = "response" =>
                /\ Len(StartParts(in)) = 2
                /\ in.version \in Texts /\ in.status \in Texts
                /\ Lacks(in.version, Sp) /\ Lacks(in.status, Lf)
                /\ in.version # <<>> /\ in.version[1][1] = "version"
                /\ in.status # <<>> /\ in.status[1][1] = "code"
                /\ Len(in.status) > 1 => in.status[2] = Sp
                /\ StartParts(in)[1] = in.version \o <<Sp>>
                /\ StartParts(in)[2] = in.status \o Crlf
<1>0. StartIs(in)
  BY StraightAre
<1>1. \A x, y, z : /\ Len(<<x, y, z>>) = 3
                   /\ <<x, y, z>>[1] = x /\ <<x, y, z>>[2] = y /\ <<x, y, z>>[3] = z
  OBVIOUS
<1>2. \A x, y : Len(<<x, y>>) = 2 /\ <<x, y>>[1] = x /\ <<x, y>>[2] = y
  OBVIOUS
<1>3. \A S : (\A x, y, z \in S : <<x, y, z>> \in Seq(S)) /\ (\A x, y \in S : <<x, y>> \in Seq(S))
  OBVIOUS
<1>4. \A l \in Texts : l \o <<Sp>> \in Texts /\ l \o Crlf \in Texts
  <2>1. <<Sp>> \in Seq(Symbols) /\ Crlf \in Seq(Symbols)
    <3> HIDE DEF Symbols
    <3> QED BY SymbolsAre
  <2>2. ASSUME NEW l \in Texts PROVE l \o <<Sp>> \in Texts
    BY <2>1, Concat DEF Texts
  <2>3. ASSUME NEW l \in Texts PROVE l \o Crlf \in Texts
    BY <2>1, Concat DEF Texts
  <2> QED BY <2>2, <2>3
<1>5. CASE /\ in.kind = "request"
           /\ Without({"sp", "lf"}, in.method) /\ in.method # <<>>
           /\ Without({"sp"}, in.uri)
           /\ Without({"lf"}, in.version) /\ in.version # <<>> /\ in.version[1][1] = "version"
  <2>1. /\ in.method \in Texts /\ in.uri \in Texts /\ in.version \in Texts
        /\ Lacks(in.method, Sp) /\ Lacks(in.uri, Sp) /\ Lacks(in.version, Lf)
    BY <1>5, WithoutLacks DEF Texts
  <2>2. StartParts(in) = << in.method \o <<Sp>>, in.uri \o <<Sp>>, in.version \o Crlf >>
    BY <1>5 DEF StartParts
  <2>3. StartParts(in) \in Seq(Texts)
    <3> DEFINE x == in.method \o <<Sp>>  y == in.uri \o <<Sp>>  z == in.version \o Crlf
    <3>1. x \in Texts /\ y \in Texts /\ z \in Texts
      BY <1>4, <2>1
    <3>2. StartParts(in) = <<x, y, z>>
      BY ONLY <2>2
    <3> HIDE DEF x, y, z, Texts
    <3> QED BY ONLY <1>3, <3>1, <3>2
  <2>4. /\ Len(StartParts(in)) = 3
        /\ StartParts(in)[1] = in.method \o <<Sp>>
        /\ StartParts(in)[2] = in.uri \o <<Sp>>
        /\ StartParts(in)[3] = in.version \o Crlf
    <3> DEFINE x == in.method \o <<Sp>>  y == in.uri \o <<Sp>>  z == in.version \o Crlf
    <3>1. StartParts(in) = <<x, y, z>>
      BY ONLY <2>2
    <3> HIDE DEF x, y, z
    <3>2. /\ Len(StartParts(in)) = 3
          /\ StartParts(in)[1] = x /\ StartParts(in)[2] = y /\ StartParts(in)[3] = z
      BY ONLY <1>1, <3>1
    <3> QED BY ONLY <3>2 DEF x, y, z
  <2>5. in.kind = "request" /\ in.kind # "response"
    BY <1>5
  <2> QED BY <1>5, <2>1, <2>3, <2>4, <2>5
<1>6. CASE /\ in.kind = "response"
           /\ Without({"sp"}, in.version) /\ in.version # <<>> /\ in.version[1][1] = "version"
           /\ Without({"lf"}, in.status) /\ in.status # <<>> /\ in.status[1][1] = "code"
           /\ Len(in.status) > 1 => in.status[2] = Sp
  <2>1. /\ in.version \in Texts /\ in.status \in Texts
        /\ Lacks(in.version, Sp) /\ Lacks(in.status, Lf)
    BY <1>6, WithoutLacks DEF Texts
  <2>2. StartParts(in) = << in.version \o <<Sp>>, in.status \o Crlf >>
    BY <1>6 DEF StartParts
  <2>3. StartParts(in) \in Seq(Texts)
    BY <1>3, <1>4, <2>1, <2>2
  <2> QED BY <1>2, <1>6, <2>1, <2>2, <2>3
<1> QED
  BY <1>0, <1>5, <1>6 DEF StartIs

(* Each header with its line end is a part.                                *)
LEMMA HeadersAreLines ==
    ASSUME NEW in \in Straight
    PROVE  /\ Len(in.headers) \in Nat /\ DOMAIN in.headers = 1 .. Len(in.headers)
           /\ \A i \in 1 .. Len(in.headers) :
                in.headers[i] \in Texts /\ Lacks(in.headers[i], Lf) /\ in.headers[i] # <<>>
           /\ HeaderParts(in) \in Seq(Texts) /\ Len(HeaderParts(in)) = Len(in.headers)
           /\ \A i \in 1 .. Len(in.headers) : HeaderParts(in)[i] = in.headers[i] \o Crlf
<1>1. HeadersAre(in)
  BY StraightAre
<1>2. Len(in.headers) \in Nat /\ DOMAIN in.headers = 1 .. Len(in.headers)
  BY <1>1, LenProperties DEF HeadersAre
<1>3. \A i \in 1 .. Len(in.headers) :
        in.headers[i] \in Texts /\ Lacks(in.headers[i], Lf) /\ in.headers[i] # <<>>
  BY <1>1, <1>2, WithoutLacks DEF HeadersAre, Texts
<1>4. \A i \in 1 .. Len(in.headers) : in.headers[i] \o Crlf \in Texts
  BY <1>3, SymbolsAre, Concat DEF Texts
<1> HIDE DEF Texts
<1>5. HeaderParts(in) \in [1 .. Len(in.headers) -> Texts]
  BY <1>2, <1>4 DEF HeaderParts
<1>6. HeaderParts(in) \in Seq(Texts)
  BY <1>2, <1>5, IsASeq
<1>7. Len(HeaderParts(in)) = Len(in.headers)
  BY <1>2, <1>5, <1>6, LenProperties
<1> QED
  BY <1>2, <1>3, <1>6, <1>7 DEF HeaderParts

LEMMA ChunkTextIs ==
    ASSUME NEW in \in Straight, in.framing = "chunked", NEW i \in 1 .. Len(in.ends)
    PROVE  ChunkText(in, i) \in Texts
<1> DEFINE a == SizeLine(Size(in, i))  d == Data(Before(in, i), in.ends[i])
<1>1. a \in Seq(Symbols)
  BY ChunkIs, SizeLineIs DEF Texts
<1>2. d \in Seq(Symbols)
  <2>1. Before(in, i) \in Nat /\ in.ends[i] \in Nat /\ Before(in, i) <= in.ends[i]
    BY ChunkIs
  <2> QED BY <2>1, DataIs
<1>3. Crlf \in Seq(Symbols)
  BY SymbolsAre
<1>4. ChunkText(in, i) = a \o Crlf \o d \o Crlf
  BY DEF ChunkText
<1> HIDE DEF a, d
<1>5. a \o Crlf \o d \o Crlf \in Seq(Symbols)
  BY <1>1, <1>2, <1>3, FourSequences
<1> QED
  BY <1>4, <1>5 DEF Texts

(* The parts of a body, by how it is sent.                                 *)
LEMMA BodyPartsAre ==
    ASSUME NEW in \in Straight
    PROVE  /\ BodyParts(in) \in Seq(Texts)
           /\ in.framing \in {"chunked", "longChunk", "badSize", "length", "eof"}
           /\ in.framing = "chunked" =>
                /\ Len(BodyParts(in)) = Len(in.ends) + 1
                /\ \A i \in 1 .. Len(in.ends) : BodyParts(in)[i] = ChunkText(in, i)
                /\ BodyParts(in)[Len(in.ends) + 1] = SizeLine(0) \o Crlf
           /\ in.framing # "chunked" => Len(BodyParts(in)) = 1
           /\ in.framing = "longChunk" => BodyParts(in)[1] = SizeLine(1) \o Crlf \o Data(0, 3)
           /\ in.framing = "badSize" => BodyParts(in)[1] = BadSizeLine \o Crlf
           /\ in.framing \in {"length", "eof"} => BodyParts(in)[1] = Data(0, BodySize(in))
<1>1. in.framing \in {"chunked", "longChunk", "badSize", "length", "eof"}
  BY StraightAre DEF BodyIs
<1>2. Crlf \in Texts /\ \A n \in Nat : SizeLine(n) \o Crlf \in Texts
  <2>1. Crlf \in Seq(Symbols)
    BY SymbolsAre
  <2>2. ASSUME NEW n \in Nat PROVE SizeLine(n) \o Crlf \in Texts
    BY <2>1, SizeLineIs, Concat DEF Texts
  <2> QED BY <2>1, <2>2 DEF Texts
<1>3. \A S, x : Len(<<x>>) = 1 /\ <<x>>[1] = x /\ (x \in S => <<x>> \in Seq(S))
  OBVIOUS
<1>4. CASE in.framing = "chunked"
  <2> DEFINE p == [i \in DOMAIN in.ends |-> ChunkText(in, i)]
             e == SizeLine(0) \o Crlf
  <2>1. BodyParts(in) = p \o <<e>>
    BY <1>4 DEF BodyParts
  <2>2. DOMAIN in.ends = 1 .. Len(in.ends) /\ Len(in.ends) \in Nat
    BY StraightAre, LenProperties DEF BodyIs
  <2>3. p \in [1 .. Len(in.ends) -> Texts] /\ \A i \in 1 .. Len(in.ends) : p[i] = ChunkText(in, i)
    BY <1>4, <2>2, ChunkTextIs
  <2>4. e \in Texts
    BY <1>2
  <2> HIDE DEF p, e, Texts
  <2>5. p \in Seq(Texts) /\ Len(p) = Len(in.ends)
    <3>1. p \in Seq(Texts)
      BY <2>2, <2>3, IsASeq
    <3> QED BY <2>2, <2>3, <3>1, LenProperties
  <2>6. <<e>> \in Seq(Texts) /\ Len(<<e>>) = 1 /\ <<e>>[1] = e
    BY <1>3, <2>4
  <2> DEFINE u == <<e>>
  <2>7. /\ p \o u \in Seq(Texts) /\ Len(p \o u) = Len(p) + Len(u)
        /\ \A i \in 1 .. Len(p) : (p \o u)[i] = p[i]
        /\ \A i \in 1 .. Len(u) : (p \o u)[Len(p) + i] = u[i]
    <3>1. p \in Seq(Texts) /\ u \in Seq(Texts)
      BY <2>5, <2>6
    <3> HIDE DEF u
    <3> QED BY ONLY <3>1, Concat
  <2>8. Len(u) = 1 /\ u[1] = e /\ BodyParts(in) = p \o u
    BY <2>1, <2>6
  <2> HIDE DEF u
  <2>9. 1 \in 1 .. Len(u)
    BY <2>8
  <2>10. /\ BodyParts(in) \in Seq(Texts) /\ Len(BodyParts(in)) = Len(in.ends) + 1
         /\ \A i \in 1 .. Len(in.ends) : BodyParts(in)[i] = ChunkText(in, i)
         /\ BodyParts(in)[Len(in.ends) + 1] = e
    BY <2>3, <2>5, <2>7, <2>8, <2>9
  <2> QED BY <1>1, <1>4, <2>10 DEF e
<1>5. CASE in.framing = "longChunk"
  <2> DEFINE e == SizeLine(1) \o Crlf \o Data(0, 3)
  <2>1. BodyParts(in) = <<e>>
    BY <1>5 DEF BodyParts
  <2>2. e \in Texts
    <3>1. SizeLine(1) \o Crlf \in Seq(Symbols) /\ Data(0, 3) \in Seq(Symbols)
      BY <1>2, DataFirst DEF Texts
    <3> QED BY <3>1, Concat DEF Texts
  <2> HIDE DEF e, Texts
  <2> QED BY <1>3, <1>5, <2>1, <2>2 DEF e
<1>6. CASE in.framing = "badSize"
  <2> DEFINE e == BadSizeLine \o Crlf
  <2>1. BodyParts(in) = <<e>>
    BY <1>6 DEF BodyParts
  <2>2. e \in Texts
    BY <1>2, BadSizeLineIs, Concat DEF Texts
  <2> HIDE DEF e, Texts
  <2> QED BY <1>3, <1>6, <2>1, <2>2 DEF e
<1>7. CASE in.framing \in {"length", "eof"}
  <2> DEFINE e == Data(0, BodySize(in))
  <2>1. BodyParts(in) = <<e>>
    BY <1>7 DEF BodyParts
  <2>2. e \in Texts
    BY EndsAre, DataFirst DEF Texts
  <2> HIDE DEF e, Texts
  <2> QED BY <1>3, <1>7, <2>1, <2>2 DEF e
<1> QED
  BY <1>1, <1>4, <1>5, <1>6, <1>7

(* The parts of a message, one after the other.                            *)
LEMMA PartsAre ==
    ASSUME NEW in \in Straight
    PROVE  LET m == Len(StartParts(in))
               n == m + Len(in.headers)
           IN  /\ Parts(in) \in Seq(Texts)
               /\ Len(Parts(in)) = n + 1 + Len(BodyParts(in))
               /\ m \in Nat /\ n \in Nat /\ Len(BodyParts(in)) \in Nat \ {0}
               /\ \A i \in 1 .. m : Parts(in)[i] = StartParts(in)[i]
               /\ \A i \in 1 .. Len(in.headers) : Parts(in)[m + i] = in.headers[i] \o Crlf
               /\ Parts(in)[n + 1] = Crlf
               /\ \A i \in 1 .. Len(BodyParts(in)) : Parts(in)[n + 1 + i] = BodyParts(in)[i]
<1> DEFINE a == StartParts(in)  b == HeaderParts(in)  c == <<Crlf>>  d == BodyParts(in)
<1>1. a \in Seq(Texts) /\ Len(a) \in Nat
  <2>1. a \in Seq(Texts)
    BY StartPartsAre
  <2> QED BY <2>1, StartPartsAre
<1>2. /\ b \in Seq(Texts) /\ Len(b) = Len(in.headers) /\ Len(b) \in Nat
      /\ \A i \in 1 .. Len(b) : b[i] = in.headers[i] \o Crlf
  BY HeadersAreLines
<1>3. c \in Seq(Texts) /\ Len(c) = 1 /\ c[1] = Crlf
  <2>1. Crlf \in Texts
    BY SymbolsAre DEF Texts
  <2>2. \A S, x : Len(<<x>>) = 1 /\ <<x>>[1] = x /\ (x \in S => <<x>> \in Seq(S))
    OBVIOUS
  <2> QED BY <2>1, <2>2
<1>4. d \in Seq(Texts) /\ Len(d) \in Nat \ {0}
  <2>1. d \in Seq(Texts) /\ (Len(d) = 1 \/ Len(d) = Len(in.ends) + 1)
    BY BodyPartsAre
  <2>2. Len(in.ends) \in Nat
    BY EndsAre
  <2> DEFINE n == Len(d)
  <2>3. n = 1 \/ n = Len(in.ends) + 1
    BY <2>1
  <2> HIDE DEF n
  <2>4. n \in Nat \ {0}
    BY <2>2, <2>3
  <2> QED BY <2>1, <2>4 DEF n
<1>5. Parts(in) = a \o b \o c \o d
  BY DEF Parts
<1> HIDE DEF a, b, c, d, Texts
<1>6. Parts(in) \in Seq(Texts) /\ Four(a, b, c, d)
  BY <1>1, <1>2, <1>3, <1>4, <1>5, FourSequences
<1> DEFINE p == Parts(in)
<1>7. /\ Len(p) = Len(a) + Len(b) + Len(c) + Len(d)
      /\ \A i \in 1 .. Len(a) : p[i] = a[i]
      /\ \A i \in 1 .. Len(b) : p[Len(a) + i] = b[i]
      /\ \A i \in 1 .. Len(c) : p[Len(a) + Len(b) + i] = c[i]
      /\ \A i \in 1 .. Len(d) : p[Len(a) + Len(b) + Len(c) + i] = d[i]
  BY <1>5, <1>6 DEF Four
<1> HIDE DEF p
<1>8. 1 \in 1 .. Len(c)
  BY <1>3
<1>9. /\ Len(p) = Len(a) + Len(in.headers) + 1 + Len(d)
      /\ \A i \in 1 .. Len(in.headers) : p[Len(a) + i] = in.headers[i] \o Crlf
      /\ p[Len(a) + Len(in.headers) + 1] = Crlf
      /\ \A i \in 1 .. Len(d) : p[Len(a) + Len(in.headers) + 1 + i] = d[i]
      /\ Len(a) + Len(in.headers) \in Nat
  <2>1. Len(p) = Len(a) + Len(in.headers) + 1 + Len(d)
    BY ONLY <1>2, <1>3, <1>7
  <2>2. ASSUME NEW i \in 1 .. Len(in.headers)
        PROVE  p[Len(a) + i] = in.headers[i] \o Crlf
    <3>1. i \in 1 .. Len(b)
      BY ONLY <1>2, i \in 1 .. Len(in.headers)
    <3>2. p[Len(a) + i] = b[i] /\ b[i] = in.headers[i] \o Crlf
      BY ONLY <1>2, <1>7, <3>1
    <3> QED BY ONLY <3>2
  <2>3. p[Len(a) + Len(in.headers) + 1] = Crlf
    <3>1. p[Len(a) + Len(b) + 1] = c[1]
      BY ONLY <1>7, <1>8
    <3> QED BY ONLY <1>2, <1>3, <3>1
  <2>4. ASSUME NEW i \in 1 .. Len(d)
        PROVE  p[Len(a) + Len(in.headers) + 1 + i] = d[i]
    <3>1. p[Len(a) + Len(b) + Len(c) + i] = d[i]
      BY ONLY <1>7, i \in 1 .. Len(d)
    <3> QED BY ONLY <1>2, <1>3, <3>1
  <2>5. Len(a) + Len(in.headers) \in Nat
    BY ONLY <1>1, <1>2
  <2> QED BY ONLY <2>1, <2>2, <2>3, <2>4, <2>5
<1> QED
  BY <1>1, <1>4, <1>6, <1>7, <1>9 DEF a, d, p

-----------------------------------------------------------------------------
(* The inductive invariant: where in the text the parser is, and what it   *)
(* has made of the part before.                                            *)

(* The text that is sent, and what of it the parser has not looked at.     *)
Sent == Text(input)
Position == taken - Len(chars) - Len(lastChar)
Rest == SubSeq(Sent, Position + 1, Len(Sent))

StreamInv ==
    /\ input \in Straight /\ limits \in Limits
    /\ text \in Seq(Symbols) /\ Len(text) <= Len(Sent) /\ text = SubSeq(Sent, 1, Len(text))
    /\ taken \in 0 .. Len(text)
    /\ chars \in Seq(Symbols) /\ Len(chars) + Len(lastChar) <= taken
    /\ chars = SubSeq(text, taken - Len(chars) + 1, taken)
    /\ lastChar = <<>> \/ lastChar = <<text[Position + 1]>>
    /\ finished => closes /\ Position = Len(text)

(* The text from its k-th part on, and whether the parts up to the k-th    *)
(* are right.                                                              *)
From(k) == Joined(Parts(input))[k]

Passed(k) == \A j \in 1 .. k : Verdicts(input)[j] = "ok"

(* The parser is in the k-th part of the text, and has read so much of it. *)
At(k, read) == Passed(k - 1) /\ read \in Seq(Symbols) /\ read \o Rest = From(k)

StartCount == Len(StartParts(input))
HeaderCount == Len(input.headers)
HeaderPart(i) == StartCount + i
BodyPart(i) == StartCount + HeaderCount + 1 + i

RequestStates == <<"Method", "Uri", "Version", "Message">>
ResponseStates == <<"ResponseVersion", "Status", "ResponseMessage">>
StartStates == IF IsRequest THEN RequestStates ELSE ResponseStates

InMessage == startState \in {"Message", "ResponseMessage"}

(* The start line, before there is a parser of the message: none of its    *)
(* state has changed.                                                      *)
MessageUnbegun ==
    /\ pc \in {"start", "waiting"}
    /\ ~hasBody
    /\ state = "HeaderLine" /\ headers = <<>> /\ buffer = <<>>
    /\ contentLength = NoLength /\ ~isChunkBody /\ ~hostSet /\ ~canEof
    /\ decodedBody = <<>>

StartPartInv ==
    /\ At(Len(startLine) + 1, startBuffer)
    /\ Lacks(startBuffer, IF startState \in {"Version", "Status"} THEN Lf ELSE Sp)
    /\ startState = "Uri" => StartFits

StartLineInv ==
    /\ startLine \in Seq(Seq(Symbols)) /\ Len(startLine) \in 0 .. StartCount
    /\ startState = StartStates[Len(startLine) + 1]
    /\ IsRequest /\ Len(startLine) > 0 =>
            startLine[1] = input.method /\ Len(input.method) = 1 /\ input.method[1][1] = "method"
    /\ IsRequest /\ InMessage => startLine[3] = input.version

StartInv ==
    /\ StartLineInv
    /\ ~InMessage => MessageUnbegun /\ StartPartInv
    /\ InMessage => StartFits

(* What the first n headers say.                                           *)
LengthSaid(n) ==
    \/ contentLength = NoLength /\ \A i \in 1 .. n : i \notin Given(input, "length")
    \/ \E i \in 1 .. n :
        /\ i \in Given(input, "length")
        /\ contentLength = input.headers[i][1][2]
        /\ \A j \in i + 1 .. n : j \notin Given(input, "length")

HeadersSaid(n) ==
    /\ n \in 0 .. HeaderCount
    /\ headers = SubSeq(input.headers, 1, n)
    /\ LengthSaid(n)
    /\ isChunkBody <=> \E i \in 1 .. n : i \in Given(input, "chunked")
    /\ hostSet <=> \E i \in 1 .. n : i \in Given(input, "host")

HeaderLineInv ==
    state = "HeaderLine" =>
        /\ HeadersSaid(Len(headers))
        /\ At(HeaderPart(Len(headers) + 1), buffer)
        /\ Lacks(buffer, Lf)
        /\ ~canEof
        /\ decodedBody = <<>>

BodyInv ==
    state = "Body" =>
        /\ input.framing \in {"eof", "length"}
        /\ (canEof <=> input.framing = "eof")
        /\ ~canEof => contentLength = BodySize(input) /\ Len(buffer) < contentLength
        /\ At(BodyPart(1), buffer)
        /\ Len(buffer) <= limits.body

ChunkSizeInv ==
    state = "ChunkedBodySize" =>
        \E i \in 1 .. Len(input.ends) + 1 :
            /\ i = 1 \/ input.framing = "chunked"
            /\ At(BodyPart(i), buffer)
            /\ Lacks(buffer, Lf)
            /\ decodedBody = Data(0, Before(input, i))

(* The i-th chunk: its size and the units before it.                       *)
IsChunk(i, size, before) ==
    \/ /\ input.framing = "chunked" /\ i \in 1 .. Len(input.ends)
       /\ size = Size(input, i) /\ before = Before(input, i)
    \/ input.framing = "longChunk" /\ i = 1 /\ size = 1 /\ before = 0

ChunkDataInv ==
    state = "ChunkedBodyData" =>
        \E i \in 1 .. Len(input.ends) + 1 :
            /\ IsChunk(i, lastChunkSize, Len(decodedBody))
            /\ decodedBody = Data(0, Len(decodedBody))
            /\ buffer \in Seq(Symbols)
            /\ At(BodyPart(i), SizeLine(lastChunkSize) \o Crlf \o buffer)
            /\ Len(buffer) < lastChunkSize + 2
            /\ lastChunkSize > 0
            /\ limits.buffer > 1 /\ Len(decodedBody) + lastChunkSize <= limits.body

AppendInv ==
    state = "AppendToBody" =>
        \E i \in 1 .. Len(input.ends) :
            /\ At(BodyPart(i + 1), <<>>)
            /\ decodedBody = Data(0, Before(input, i))
            /\ buffer = Data(Before(input, i), input.ends[i])
            /\ input.framing = "chunked"

InChunkState == state \in {"ChunkedBodySize", "ChunkedBodyData", "AppendToBody"}

MessageInv ==
    InMessage /\ pc # "built" =>
        /\ state \in {"HeaderLine", "Body", "ChunkedBodySize", "ChunkedBodyData", "AppendToBody"}
        /\ pc = "message" => (hasBody <=> TakesBody(input))
        /\ ~IsRequest /\ state # "HeaderLine" => hasBody
        /\ state # "HeaderLine" => TakesBody(input) /\ HeadersSaid(HeaderCount)
        /\ InChunkState => ~canEof /\ input.framing \in {"chunked", "longChunk", "badSize"}
        /\ HeaderLineInv /\ BodyInv /\ ChunkSizeInv /\ ChunkDataInv /\ AppendInv

BuiltInv ==
    pc = "built" =>
        /\ Passed(Len(Verdicts(input)) - 1)
        /\ HeadersSaid(HeaderCount)
        /\ body = SentBody(input)

RunInv == StreamInv /\ StartInv /\ MessageInv /\ BuiltInv

ParseInv ==
    /\ pc \in {"start", "message", "waiting", "built", "done"}
    /\ pc \in {"message", "built"} => InMessage
    /\ pc # "done" => RunInv
    /\ ParsedAsSent

-----------------------------------------------------------------------------
(* The text, part by part.                                                 *)
LEMMA JoinsParts ==
    ASSUME NEW in \in Straight
    PROVE  /\ Text(in) \in Texts /\ Text(in) = Joined(Parts(in))[1]
           /\ \A k \in 1 .. Len(Parts(in)) + 1 : Joined(Parts(in))[k] \in Texts
           /\ \A k \in 1 .. Len(Parts(in)) :
                Joined(Parts(in))[k] = Parts(in)[k] \o Joined(Parts(in))[k + 1]
           /\ Joined(Parts(in))[Len(Parts(in)) + 1] = <<>>
<1>1. Parts(in) \in Seq(Texts) /\ Len(Parts(in)) \in Nat
  <2>1. Parts(in) \in Seq(Texts)
    BY PartsAre
  <2> HIDE DEF Texts
  <2> QED BY <2>1, LenProperties
<1>2. Parts(in) \in Seq(Seq(Symbols))
  BY <1>1 DEF Texts
<1>3. /\ \A k \in 1 .. Len(Parts(in)) + 1 : Joined(Parts(in))[k] \in Texts
      /\ Joined(Parts(in))[Len(Parts(in)) + 1] = <<>>
      /\ \A k \in 1 .. Len(Parts(in)) :
            Joined(Parts(in))[k] = Parts(in)[k] \o Joined(Parts(in))[k + 1]
  BY <1>2, JoinedIs DEF Texts
<1>4. 1 \in 1 .. Len(Parts(in)) + 1
  BY <1>1
<1> QED
  BY <1>3, <1>4 DEF Text

(* How many parts there are of each sort, and in which order they come.    *)
LEMMA Counts ==
    ASSUME input \in Straight
    PROVE  /\ StartCount = IF IsRequest THEN 3 ELSE 2
           /\ HeaderCount \in Nat /\ DOMAIN input.headers = 1 .. HeaderCount
           /\ Len(BodyParts(input)) \in Nat \ {0}
           /\ Len(Parts(input)) = BodyPart(Len(BodyParts(input)))
           /\ BodyPart(1) = HeaderPart(HeaderCount + 1) + 1
           /\ IsRequest \/ input.kind = "response"
<1>1. StartCount = (IF IsRequest THEN 3 ELSE 2) /\ (IsRequest \/ input.kind = "response")
  BY StartPartsAre DEF StartCount, IsRequest
<1>2. HeaderCount \in Nat /\ DOMAIN input.headers = 1 .. HeaderCount
  BY HeadersAreLines DEF HeaderCount
<1>3. /\ Len(BodyParts(input)) \in Nat \ {0}
      /\ Len(Parts(input)) = StartCount + HeaderCount + 1 + Len(BodyParts(input))
  BY PartsAre DEF StartCount, HeaderCount
<1>4. StartCount \in Nat
  BY <1>1
<1>5. BodyPart(1) = HeaderPart(HeaderCount + 1) + 1
  BY <1>2, <1>4 DEF BodyPart, HeaderPart
<1> QED
  BY <1>1, <1>2, <1>3, <1>5 DEF BodyPart

LEMMA PartRanges ==
    ASSUME input \in Straight
    PROVE  /\ \A i \in 1 .. StartCount : i \in 1 .. Len(Parts(input))
           /\ \A i \in 1 .. HeaderCount + 1 :
                /\ HeaderPart(i) \in 1 .. Len(Parts(input)) /\ HeaderPart(i) + 1 = HeaderPart(i + 1)
           /\ \A i \in 1 .. Len(BodyParts(input)) :
                /\ BodyPart(i) \in 1 .. Len(Parts(input)) /\ BodyPart(i) + 1 = BodyPart(i + 1)
           /\ HeaderPart(1) = StartCount + 1
           /\ \A k \in 1 .. Len(Parts(input)) + 1 : From(k) \in Texts
           /\ \A k \in 1 .. Len(Parts(input)) : From(k) = Parts(input)[k] \o From(k + 1)
           /\ From(Len(Parts(input)) + 1) = <<>>
           /\ Sent \in Texts /\ Sent = From(1)
<1>1. /\ StartCount \in Nat /\ HeaderCount \in Nat /\ Len(BodyParts(input)) \in Nat \ {0}
      /\ Len(Parts(input)) = StartCount + HeaderCount + 1 + Len(BodyParts(input))
  BY Counts DEF BodyPart
<1>2. \A i \in 1 .. StartCount : i \in 1 .. Len(Parts(input))
  BY <1>1
<1>3. ASSUME NEW i \in 1 .. HeaderCount + 1
      PROVE  HeaderPart(i) \in 1 .. Len(Parts(input)) /\ HeaderPart(i) + 1 = HeaderPart(i + 1)
  BY <1>1 DEF HeaderPart
<1>4. ASSUME NEW i \in 1 .. Len(BodyParts(input))
      PROVE  BodyPart(i) \in 1 .. Len(Parts(input)) /\ BodyPart(i) + 1 = BodyPart(i + 1)
  BY <1>1 DEF BodyPart
<1>5. HeaderPart(1) = StartCount + 1
  BY DEF HeaderPart
<1>6. /\ \A k \in 1 .. Len(Parts(input)) + 1 : From(k) \in Texts
      /\ \A k \in 1 .. Len(Parts(input)) : From(k) = Parts(input)[k] \o From(k + 1)
      /\ From(Len(Parts(input)) + 1) = <<>>
      /\ Sent \in Texts /\ Sent = From(1)
  BY JoinsParts DEF From, Sent
<1> QED
  BY <1>2, <1>3, <1>4, <1>5, <1>6

(* The text from its k-th part on is a word without a separator, the       *)
(* separator, and more; the part is nothing but the first two.             *)
Begins(k, w, x, more) ==
    /\ x \in Symbols /\ w \in Texts /\ Lacks(w, x) /\ more \in Texts
    /\ From(k) = (w \o <<x>>) \o more

IsWord(k, x, w) == Begins(k, w, x, From(k + 1))

LEMMA StartWords ==
    ASSUME input \in Straight
    PROVE  /\ IsRequest => /\ IsWord(1, Sp, input.method) /\ IsWord(2, Sp, input.uri)
                           /\ IsWord(3, Lf, Append(input.version, Cr))
           /\ ~IsRequest => /\ IsWord(1, Sp, input.version)
                            /\ IsWord(2, Lf, Append(input.status, Cr))
<1>1. \A i \in 1 .. StartCount : i \in 1 .. Len(Parts(input)) /\ Parts(input)[i] = StartParts(input)[i]
  <2>1. \A i \in 1 .. StartCount : i \in 1 .. Len(Parts(input))
    BY PartRanges
  <2>2. \A i \in 1 .. StartCount : Parts(input)[i] = StartParts(input)[i]
    BY PartsAre DEF StartCount
  <2> QED BY <2>1, <2>2
<1>2. ASSUME NEW i \in 1 .. StartCount
      PROVE  From(i) = StartParts(input)[i] \o From(i + 1) /\ From(i + 1) \in Texts
  <2>1. i \in 1 .. Len(Parts(input)) /\ Len(Parts(input)) \in Nat
    <3>1. Len(Parts(input)) \in Nat
      <4>1. Parts(input) \in Seq(Texts)
        BY PartsAre
      <4> HIDE DEF Texts
      <4> QED BY <4>1, LenProperties
    <3> QED BY <1>1, <3>1
  <2>2. i + 1 \in 1 .. Len(Parts(input)) + 1
    BY <2>1
  <2> QED BY <1>1, <2>1, <2>2, PartRanges
<1>3. Sp \in Symbols /\ Lf \in Symbols
  BY SymbolsAre
<1>4. ASSUME IsRequest
      PROVE  /\ IsWord(1, Sp, input.method) /\ IsWord(2, Sp, input.uri)
             /\ IsWord(3, Lf, Append(input.version, Cr))
  <2>1. StartCount = 3 /\ 1 \in 1 .. StartCount /\ 2 \in 1 .. StartCount /\ 3 \in 1 .. StartCount
    <3>1. StartCount = 3
      BY <1>4, Counts
    <3> QED BY <3>1
  <2>2. /\ From(1) = StartParts(input)[1] \o From(1 + 1) /\ From(1 + 1) \in Texts
        /\ From(2) = StartParts(input)[2] \o From(2 + 1) /\ From(2 + 1) \in Texts
        /\ From(3) = StartParts(input)[3] \o From(3 + 1) /\ From(3 + 1) \in Texts
    BY <1>2, <2>1
  <2>3. /\ input.method \in Texts /\ input.uri \in Texts /\ input.version \in Texts
        /\ Lacks(input.method, Sp) /\ Lacks(input.uri, Sp) /\ Lacks(input.version, Lf)
        /\ StartParts(input)[1] = input.method \o <<Sp>>
        /\ StartParts(input)[2] = input.uri \o <<Sp>>
        /\ StartParts(input)[3] = input.version \o Crlf
    BY <1>4, StartPartsAre DEF IsRequest
  <2>4. /\ Append(input.version, Cr) \in Texts /\ Lacks(Append(input.version, Cr), Lf)
        /\ input.version \o Crlf = Append(input.version, Cr) \o <<Lf>>
    BY <2>3, LineIsWord DEF Texts
  <2>5. IsWord(1, Sp, input.method)
    BY <1>3, <2>2, <2>3 DEF IsWord, Begins
  <2>6. IsWord(2, Sp, input.uri)
    BY <1>3, <2>2, <2>3 DEF IsWord, Begins
  <2>7. IsWord(3, Lf, Append(input.version, Cr))
    BY <1>3, <2>2, <2>3, <2>4 DEF IsWord, Begins
  <2> QED BY <2>5, <2>6, <2>7
<1>5. ASSUME ~IsRequest
      PROVE  IsWord(1, Sp, input.version) /\ IsWord(2, Lf, Append(input.status, Cr))
  <2>1. StartCount = 2 /\ 1 \in 1 .. StartCount /\ 2 \in 1 .. StartCount
    <3>1. StartCount = 2
      BY <1>5, Counts
    <3> QED BY <3>1
  <2>2. /\ From(1) = StartParts(input)[1] \o From(1 + 1) /\ From(1 + 1) \in Texts
        /\ From(2) = StartParts(input)[2] \o From(2 + 1) /\ From(2 + 1) \in Texts
    BY <1>2, <2>1
  <2>3. /\ input.version \in Texts /\ input.status \in Texts
        /\ Lacks(input.version, Sp) /\ Lacks(input.status, Lf)
        /\ StartParts(input)[1] = input.version \o <<Sp>>
        /\ StartParts(input)[2] = input.status \o Crlf
    BY <1>5, StartPartsAre DEF IsRequest
  <2>4. /\ Append(input.status, Cr) \in Texts /\ Lacks(Append(input.status, Cr), Lf)
        /\ input.status \o Crlf = Append(input.status, Cr) \o <<Lf>>
    BY <2>3, LineIsWord DEF Texts
  <2>5. IsWord(1, Sp, input.version)
    BY <1>3, <2>2, <2>3 DEF IsWord, Begins
  <2>6. IsWord(2, Lf, Append(input.status, Cr))
    BY <1>3, <2>2, <2>3, <2>4 DEF IsWord, Begins
  <2> QED BY <2>5, <2>6
<1> QED
  BY <1>4, <1>5

LEMMA HeaderWords ==
    ASSUME input \in Straight
    PROVE  /\ \A i \in 1 .. HeaderCount : IsWord(HeaderPart(i), Lf, Append(input.headers[i], Cr))
           /\ IsWord(HeaderPart(HeaderCount + 1), Lf, <<Cr>>)
<1>0. \A i \in 1 .. HeaderCount + 1 :
        /\ HeaderPart(i) \in 1 .. Len(Parts(input)) /\ HeaderPart(i) + 1 \in 1 .. Len(Parts(input)) + 1
  <2>1. StartCount \in Nat /\ HeaderCount \in Nat /\ Len(Parts(input)) \in Nat
    <3>1. Parts(input) \in Seq(Texts)
      BY PartsAre
    <3>2. Len(Parts(input)) \in Nat
      BY <3>1, LenProperties
    <3> QED BY <3>2, Counts
  <2>2. \A i \in 1 .. HeaderCount + 1 : HeaderPart(i) \in 1 .. Len(Parts(input))
    BY PartRanges
  <2> QED BY <2>1, <2>2
<1>1. ASSUME NEW i \in 1 .. HeaderCount
      PROVE  IsWord(HeaderPart(i), Lf, Append(input.headers[i], Cr))
  <2> DEFINE l == input.headers[i]
  <2>1. l \in Texts /\ Lacks(l, Lf)
    BY HeadersAreLines DEF HeaderCount
  <2>2. Append(l, Cr) \in Texts /\ Lacks(Append(l, Cr), Lf) /\ l \o Crlf = Append(l, Cr) \o <<Lf>>
    <3> HIDE DEF l
    <3> QED BY <2>1, LineIsWord DEF Texts
  <2>3. Parts(input)[HeaderPart(i)] = l \o Crlf
    BY PartsAre DEF HeaderPart, StartCount, HeaderCount
  <2>4. i \in 1 .. HeaderCount + 1
    BY Counts
  <2>5. From(HeaderPart(i)) = (l \o Crlf) \o From(HeaderPart(i) + 1) /\ From(HeaderPart(i) + 1) \in Texts
    BY <1>0, <2>3, <2>4, PartRanges
  <2> QED BY <2>2, <2>5, SymbolsAre DEF IsWord, Begins
<1>2. IsWord(HeaderPart(HeaderCount + 1), Lf, <<Cr>>)
  <2> DEFINE k == HeaderPart(HeaderCount + 1)
  <2>1. Parts(input)[k] = Crlf
    <3>1. StartCount \in Nat /\ HeaderCount \in Nat
      BY Counts
    <3>2. k = StartCount + HeaderCount + 1
      BY <3>1 DEF HeaderPart
    <3> QED BY <3>2, PartsAre DEF StartCount, HeaderCount
  <2>2. HeaderCount + 1 \in 1 .. HeaderCount + 1
    BY Counts
  <2>3. k \in 1 .. Len(Parts(input)) /\ k + 1 \in 1 .. Len(Parts(input)) + 1
    BY <1>0, <2>2
  <2>4. From(k) = Crlf \o From(k + 1) /\ From(k + 1) \in Texts
    BY <2>1, <2>3, PartRanges
  <2>5. /\ <<>> \in Texts /\ Lacks(<<>>, Lf) /\ Append(<<>>, Cr) = <<Cr>> /\ <<>> \o Crlf = Crlf
    <3>1. Append(<<>>, Cr) = <<Cr>> /\ <<>> \in Seq(Symbols)
      OBVIOUS
    <3>2. <<>> \o Crlf = Crlf
      BY SymbolsAre, ConcatEmptySeq
    <3> QED BY <3>1, <3>2 DEF Texts, Lacks
  <2>6. /\ <<Cr>> \in Texts /\ Lacks(<<Cr>>, Lf) /\ Crlf = <<Cr>> \o <<Lf>>
    BY <2>5, LineIsWord DEF Texts
  <2> HIDE DEF k
  <2>7. IsWord(k, Lf, <<Cr>>)
    BY <2>4, <2>6, SymbolsAre DEF IsWord, Begins
  <2> QED BY <2>7 DEF k
<1> QED
  BY <1>1, <1>2

LEMMA BodyWords ==
    ASSUME input \in Straight
    PROVE  /\ input.framing = "chunked" =>
                /\ \A i \in 1 .. Len(input.ends) :
                    LET data == Data(Before(input, i), input.ends[i])
                        more == (data \o Crlf) \o From(BodyPart(i + 1))
                    IN  /\ Begins(BodyPart(i), Append(SizeLine(Size(input, i)), Cr), Lf, more)
                        /\ From(BodyPart(i + 1)) \in Texts
                /\ IsWord(BodyPart(Len(input.ends) + 1), Lf, Append(SizeLine(0), Cr))
           /\ input.framing = "longChunk" =>
                Begins(BodyPart(1), Append(SizeLine(1), Cr), Lf, Data(0, 3))
           /\ input.framing = "badSize" => IsWord(BodyPart(1), Lf, Append(BadSizeLine, Cr))
           /\ input.framing \in {"length", "eof"} => From(BodyPart(1)) = Data(0, BodySize(input))
<1>0. /\ Len(input.ends) \in Nat /\ Len(BodyParts(input)) \in Nat \ {0}
      /\ Len(Parts(input)) = BodyPart(Len(BodyParts(input)))
      /\ Lf \in Symbols /\ Crlf \in Seq(Symbols)
  BY EndsAre, Counts, SymbolsAre
<1>1. ASSUME NEW i \in 1 .. Len(BodyParts(input))
      PROVE  /\ From(BodyPart(i)) = BodyParts(input)[i] \o From(BodyPart(i + 1))
             /\ From(BodyPart(i + 1)) \in Texts
             /\ BodyPart(i) + 1 = BodyPart(i + 1)
             /\ i = Len(BodyParts(input)) => From(BodyPart(i + 1)) = <<>>
  <2>1. BodyPart(i) \in 1 .. Len(Parts(input)) /\ BodyPart(i) + 1 = BodyPart(i + 1)
    BY PartRanges
  <2>2. Len(Parts(input)) \in Nat
    BY Counts, PartsAre DEF BodyPart
  <2>3. BodyPart(i) + 1 \in 1 .. Len(Parts(input)) + 1
    BY <2>1, <2>2
  <2>4. Parts(input)[BodyPart(i)] = BodyParts(input)[i]
    BY PartsAre DEF BodyPart, StartCount, HeaderCount
  <2>5. i = Len(BodyParts(input)) => From(BodyPart(i) + 1) = <<>>
    BY <1>0, PartRanges
  <2> QED BY <2>1, <2>3, <2>4, <2>5, PartRanges
<1>2. ASSUME NEW l \in Texts, Lacks(l, Lf), NEW k, NEW more \in Texts,
             From(k) = (l \o Crlf) \o more
      PROVE  Begins(k, Append(l, Cr), Lf, more)
  <2>1. /\ Append(l, Cr) \in Texts /\ Lacks(Append(l, Cr), Lf)
        /\ l \o Crlf = Append(l, Cr) \o <<Lf>>
    BY <1>2, LineIsWord DEF Texts
  <2> QED BY <1>0, <1>2, <2>1 DEF Begins
<1>3. ASSUME input.framing = "chunked", NEW i \in 1 .. Len(input.ends)
      PROVE  /\ Begins(BodyPart(i), Append(SizeLine(Size(input, i)), Cr), Lf,
                       (Data(Before(input, i), input.ends[i]) \o Crlf) \o From(BodyPart(i + 1)))
             /\ From(BodyPart(i + 1)) \in Texts
  <2> DEFINE s == SizeLine(Size(input, i))
             p == s \o Crlf
             d == Data(Before(input, i), input.ends[i])
             f == From(BodyPart(i + 1))
  <2>1. i \in 1 .. Len(BodyParts(input)) /\ BodyParts(input)[i] = (p \o d) \o Crlf
    <3>1. BodyParts(input)[i] = ChunkText(input, i) /\ Len(BodyParts(input)) = Len(input.ends) + 1
      BY <1>3, BodyPartsAre
    <3>2. i \in 1 .. Len(BodyParts(input))
      BY <1>0, <3>1
    <3> QED BY <3>1, <3>2 DEF ChunkText
  <2>2. f \in Texts /\ From(BodyPart(i)) = ((p \o d) \o Crlf) \o f
    BY <1>1, <2>1
  <2>3. s \in Texts /\ Lacks(s, Lf)
    BY <1>3, ChunkIs, SizeLineIs
  <2>4. d \in Seq(Symbols)
    <3>1. Before(input, i) \in Nat /\ input.ends[i] \in Nat /\ Before(input, i) <= input.ends[i]
      BY <1>3, ChunkIs
    <3> QED BY <3>1, DataIs
  <2> HIDE DEF s, d, f
  <2>5. p \in Seq(Symbols)
    BY <1>0, <2>3, ConcatProperties DEF Texts
  <2> HIDE DEF p
  <2>6. ((p \o d) \o Crlf) \o f = p \o ((d \o Crlf) \o f) /\ (d \o Crlf) \o f \in Texts
    <3>1. p \in Seq(Symbols) /\ d \in Seq(Symbols) /\ Crlf \in Seq(Symbols) /\ f \in Seq(Symbols)
      BY <1>0, <2>2, <2>4, <2>5 DEF Texts
    <3>2. p \o d \in Seq(Symbols) /\ d \o Crlf \in Seq(Symbols)
      BY <3>1, ConcatProperties
    <3>3. (p \o d) \o Crlf = p \o (d \o Crlf)
      BY <3>1, ConcatAssociative
    <3>4. (p \o (d \o Crlf)) \o f = p \o ((d \o Crlf) \o f)
      <4> DEFINE e == d \o Crlf
      <4>1. p \in Seq(Symbols) /\ e \in Seq(Symbols) /\ f \in Seq(Symbols)
        BY <3>1, <3>2
      <4> HIDE DEF e
      <4>2. (p \o e) \o f = p \o (e \o f)
        BY ONLY <4>1, ConcatAssociative
      <4> QED BY <4>2 DEF e
    <3>5. (d \o Crlf) \o f \in Seq(Symbols)
      BY <3>1, <3>2, ConcatProperties
    <3> QED BY <3>3, <3>4, <3>5 DEF Texts
  <2>7. From(BodyPart(i)) = (s \o Crlf) \o ((d \o Crlf) \o f)
    BY <2>2, <2>6 DEF p
  <2>8. Begins(BodyPart(i), Append(s, Cr), Lf, (d \o Crlf) \o f)
    BY <1>2, <2>3, <2>6, <2>7
  <2> QED BY <2>2, <2>8 DEF s, d, f
<1>4. ASSUME NEW l \in Texts, Lacks(l, Lf), NEW i \in 1 .. Len(BodyParts(input)),
             BodyParts(input)[i] = l \o Crlf
      PROVE  IsWord(BodyPart(i), Lf, Append(l, Cr))
  <2>1. From(BodyPart(i)) = (l \o Crlf) \o From(BodyPart(i) + 1) /\ From(BodyPart(i) + 1) \in Texts
    BY <1>1, <1>4
  <2> QED BY <1>2, <1>4, <2>1 DEF IsWord
<1>5. input.framing = "chunked" => IsWord(BodyPart(Len(input.ends) + 1), Lf, Append(SizeLine(0), Cr))
  <2> SUFFICES ASSUME input.framing = "chunked"
               PROVE  IsWord(BodyPart(Len(input.ends) + 1), Lf, Append(SizeLine(0), Cr))
    OBVIOUS
  <2>1. Len(input.ends) + 1 \in 1 .. Len(BodyParts(input))
    BY <1>0, BodyPartsAre
  <2>2. BodyParts(input)[Len(input.ends) + 1] = SizeLine(0) \o Crlf
    BY BodyPartsAre
  <2>3. SizeLine(0) \in Texts /\ Lacks(SizeLine(0), Lf)
    BY SizeLineIs
  <2> QED BY <1>4, <2>1, <2>2, <2>3
<1>6. 1 \in 1 .. Len(BodyParts(input))
  BY <1>0
<1>7. input.framing = "longChunk" => Begins(BodyPart(1), Append(SizeLine(1), Cr), Lf, Data(0, 3))
  <2> SUFFICES ASSUME input.framing = "longChunk"
               PROVE  Begins(BodyPart(1), Append(SizeLine(1), Cr), Lf, Data(0, 3))
    OBVIOUS
  <2> DEFINE p == SizeLine(1) \o Crlf
             d == Data(0, 3)
  <2>1. Len(BodyParts(input)) = 1 /\ BodyParts(input)[1] = p \o d
    BY BodyPartsAre
  <2>2. From(BodyPart(1)) = (p \o d) \o From(BodyPart(1 + 1)) /\ From(BodyPart(1 + 1)) = <<>>
    BY <1>1, <1>6, <2>1
  <2>3. SizeLine(1) \in Texts /\ Lacks(SizeLine(1), Lf)
    BY SizeLineIs
  <2>4. d \in Seq(Symbols)
    BY DataFirst
  <2>5. p \o d \in Seq(Symbols)
    BY <1>0, <2>3, <2>4, ConcatProperties DEF Texts
  <2> HIDE DEF p, d
  <2>6. From(BodyPart(1)) = p \o d
    BY <2>2, <2>5, ConcatEmptySeq
  <2>7. From(BodyPart(1)) = (SizeLine(1) \o Crlf) \o d /\ d \in Texts
    BY <2>4, <2>6 DEF p, Texts
  <2>8. Begins(BodyPart(1), Append(SizeLine(1), Cr), Lf, d)
    BY <1>2, <2>3, <2>7
  <2> QED BY <2>8 DEF d
<1>8. input.framing = "badSize" => IsWord(BodyPart(1), Lf, Append(BadSizeLine, Cr))
  BY <1>4, <1>6, BodyPartsAre, BadSizeLineIs
<1>9. input.framing \in {"length", "eof"} => From(BodyPart(1)) = Data(0, BodySize(input))
  <2> SUFFICES ASSUME input.framing \in {"length", "eof"}
               PROVE  From(BodyPart(1)) = Data(0, BodySize(input))
    OBVIOUS
  <2> DEFINE d == Data(0, BodySize(input))
  <2>1. Len(BodyParts(input)) = 1 /\ BodyParts(input)[1] = d
    BY BodyPartsAre
  <2>2. From(BodyPart(1)) = d \o From(BodyPart(1 + 1)) /\ From(BodyPart(1 + 1)) = <<>>
    BY <1>1, <1>6, <2>1
  <2>3. d \in Seq(Symbols)
    BY EndsAre, DataFirst
  <2> HIDE DEF d
  <2>4. From(BodyPart(1)) = d
    BY <2>2, <2>3, ConcatEmptySeq
  <2> QED BY <2>4 DEF d
<1> QED
  BY <1>3, <1>5, <1>7, <1>8, <1>9, Zenon

(* The verdicts, part by part.                                             *)
VerdictNames ==
    {"ok", "GenericExceededBuffer", "InvalidMethod", "UriExceededBuffer", "UnsupportedVersion",
     "BadStatus", "MalformedMessage", "BadTransferEncoding", "UriError", "BodyExceededLimit"}

LEMMA VerdictsAre ==
    ASSUME input \in Straight
    PROVE  /\ Len(Verdicts(input)) = BodyPart(Len(BodyVerdicts(input))) + 1
           /\ Len(BodyVerdicts(input)) \in Nat
           /\ Verdicts(input) \in Seq(VerdictNames)
           /\ \A i \in 1 .. StartCount : Verdicts(input)[i] = StartVerdicts(input)[i]
           /\ \A i \in 1 .. HeaderCount : Verdicts(input)[HeaderPart(i)] = HeaderVerdict(input, i)
           /\ Verdicts(input)[HeaderPart(HeaderCount + 1)] = LineVerdict(<<>>, FALSE, "ok")
           /\ \A i \in 1 .. Len(BodyVerdicts(input)) :
                Verdicts(input)[BodyPart(i)] = BodyVerdicts(input)[i]
           /\ Verdicts(input)[BodyPart(Len(BodyVerdicts(input))) + 1] = HostVerdict(input)
<1> DEFINE a == StartVerdicts(input)
           b == [i \in DOMAIN input.headers |-> HeaderVerdict(input, i)]
           c == <<LineVerdict(<<>>, FALSE, "ok")>>
           d == BodyVerdicts(input)
           e == <<HostVerdict(input)>>
           f == a \o b \o c \o d
<1>0. /\ StartCount = (IF IsRequest THEN 3 ELSE 2) /\ HeaderCount \in Nat
      /\ DOMAIN input.headers = 1 .. HeaderCount
      /\ IsRequest \/ input.kind = "response"
  BY Counts
<1>1. \A l, w, x : x \in VerdictNames => LineVerdict(l, w, x) \in VerdictNames
  BY DEF LineVerdict, VerdictNames
<1>2. a \in Seq(VerdictNames) /\ Len(a) = StartCount
  <2>1. CASE IsRequest
    <3> DEFINE x == IF Len(input.method) > limits.buffer THEN "GenericExceededBuffer"
                    ELSE IF input.method[1][1] # "method" \/ Len(input.method) > 1
                    THEN "InvalidMethod" ELSE "ok"
               y == IF Len(input.uri) > limits.buffer THEN "UriExceededBuffer"
                    ELSE IF \E k \in DOMAIN input.uri : input.uri[k][1] \in {"junk", "cr", "lf"}
                    THEN "UriError" ELSE "ok"
               z == LineVerdict(input.version, Len(input.version) > 1, "UnsupportedVersion")
    <3>1. x \in VerdictNames /\ y \in VerdictNames
      BY DEF VerdictNames
    <3>2. z \in VerdictNames
      BY <1>1 DEF VerdictNames
    <3>3. a = <<x, y, z>>
      BY <2>1 DEF StartVerdicts, IsRequest
    <3> HIDE DEF x, y, z, a
    <3>4. \A S : \A x1, y1, z1 \in S : <<x1, y1, z1>> \in Seq(S) /\ Len(<<x1, y1, z1>>) = 3
      OBVIOUS
    <3> QED BY ONLY <1>0, <2>1, <3>1, <3>2, <3>3, <3>4
  <2>2. CASE ~IsRequest
    <3> DEFINE x == IF Len(input.version) > limits.buffer THEN "GenericExceededBuffer"
                    ELSE IF Len(input.version) > 1 THEN "UnsupportedVersion" ELSE "ok"
               y == LineVerdict(input.status, Len(input.status) = 1, "BadStatus")
    <3>1. x \in VerdictNames
      BY DEF VerdictNames
    <3>2. y \in VerdictNames
      BY <1>1 DEF VerdictNames
    <3>3. a = <<x, y>>
      BY <2>2 DEF StartVerdicts, IsRequest
    <3> HIDE DEF x, y, a
    <3>4. \A S : \A x1, y1 \in S : <<x1, y1>> \in Seq(S) /\ Len(<<x1, y1>>) = 2
      OBVIOUS
    <3> QED BY ONLY <1>0, <2>2, <3>1, <3>2, <3>3, <3>4
  <2> QED BY <2>1, <2>2
<1>3. /\ b \in Seq(VerdictNames) /\ Len(b) = HeaderCount
      /\ \A i \in 1 .. HeaderCount : b[i] = HeaderVerdict(input, i)
  <2>1. \A i : HeaderVerdict(input, i) \in VerdictNames
    BY <1>1 DEF HeaderVerdict, VerdictNames
  <2>2. b \in [1 .. HeaderCount -> VerdictNames]
    BY <1>0, <2>1
  <2>3. \A i \in 1 .. HeaderCount : b[i] = HeaderVerdict(input, i)
    BY <1>0
  <2> HIDE DEF b
  <2>4. b \in Seq(VerdictNames)
    BY <1>0, <2>2, IsASeq
  <2>5. Len(b) \in Nat /\ DOMAIN b = 1 .. Len(b)
    BY <2>4, LenProperties
  <2>6. Len(b) = HeaderCount
    BY <1>0, <2>2, <2>5
  <2> QED BY <2>3, <2>4, <2>6
<1>4. c \in Seq(VerdictNames) /\ Len(c) = 1 /\ c[1] = LineVerdict(<<>>, FALSE, "ok")
  <2>1. LineVerdict(<<>>, FALSE, "ok") \in VerdictNames
    BY <1>1 DEF VerdictNames
  <2>2. \A S : \A x \in S : <<x>> \in Seq(S) /\ Len(<<x>>) = 1 /\ <<x>>[1] = x
    OBVIOUS
  <2> QED BY <2>1, <2>2, Zenon
<1>5. d \in Seq(VerdictNames)
  <2>0. \A x \in VerdictNames : <<x>> \in Seq(VerdictNames)
    OBVIOUS
  <2>1. \A s, n : ChunkVerdict(s, n) \in VerdictNames
    BY <1>1 DEF ChunkVerdict, VerdictNames
  <2>2. LongChunkVerdict \in VerdictNames
    BY <2>1 DEF LongChunkVerdict, VerdictNames
  <2>3. \A n, m : BufferVerdict(n, m) \in VerdictNames
    BY DEF BufferVerdict, VerdictNames
  <2>4. \A l : LineVerdict(l, FALSE, "ok") \in VerdictNames /\ LineVerdict(l, TRUE, "MalformedMessage") \in VerdictNames
    BY <1>1 DEF VerdictNames
  <2>5. input.framing \in {"chunked", "longChunk", "badSize", "length", "eof"}
    BY BodyPartsAre
  <2>6. CASE ~TakesBody(input)
    <3>1. d = <<>>
      BY <2>6 DEF BodyVerdicts, EndsAtEof, Undetermined
    <3> QED BY <3>1
  <2>7. CASE TakesBody(input) /\ input.framing = "chunked"
    <3> DEFINE g == [i \in DOMAIN input.ends |-> ChunkVerdict(Size(input, i), Before(input, i))]
               h == <<LineVerdict(SizeLine(0), FALSE, "ok")>>
    <3>1. d = g \o h
      BY <2>7 DEF BodyVerdicts, EndsAtEof, Undetermined
    <3>2. DOMAIN input.ends = 1 .. Len(input.ends) /\ Len(input.ends) \in Nat
      BY StraightAre, LenProperties DEF BodyIs
    <3>3. g \in [1 .. Len(input.ends) -> VerdictNames]
      BY <2>1, <3>2
    <3>4. h \in Seq(VerdictNames)
      BY <2>0, <2>4
    <3> HIDE DEF g, h
    <3>5. g \in Seq(VerdictNames)
      BY <3>2, <3>3, IsASeq
    <3> QED BY <3>1, <3>4, <3>5, ConcatProperties
  <2>8. CASE TakesBody(input) /\ input.framing # "chunked"
    <3>1. \/ d = <<LongChunkVerdict>>
          \/ d = <<LineVerdict(BadSizeLine, TRUE, "MalformedMessage")>>
          \/ d = <<BufferVerdict(BodySize(input), limits.buffer + 1)>>
          \/ d = <<BufferVerdict(Received(input), limits.buffer)>>
      BY <2>5, <2>8, StraightAre DEF BodyVerdicts, EndsAtEof, Undetermined
    <3> HIDE DEF d, VerdictNames
    <3> QED BY <2>0, <2>2, <2>3, <2>4, <3>1, Zenon
  <2> QED BY <2>6, <2>7, <2>8
<1>6. e \in Seq(VerdictNames) /\ Len(e) = 1 /\ e[1] = HostVerdict(input)
  <2>1. HostVerdict(input) \in VerdictNames
    BY DEF HostVerdict, VerdictNames
  <2> QED BY <2>1
<1>7. Verdicts(input) = f \o e
  BY DEF Verdicts
<1>8. Len(d) \in Nat
  BY <1>5, LenProperties
<1>9. BodyPart(Len(d)) = StartCount + HeaderCount + 1 + Len(d)
  BY DEF BodyPart
<1> HIDE DEF a, b, c, d, e, f, VerdictNames
<1>10. f \in Seq(VerdictNames) /\ Four(a, b, c, d)
  BY <1>2, <1>3, <1>4, <1>5, FourSequences DEF f
<1>11. /\ Len(f) = StartCount + HeaderCount + 1 + Len(d)
       /\ \A i \in 1 .. StartCount : f[i] = a[i]
       /\ \A i \in 1 .. HeaderCount : f[StartCount + i] = b[i]
       /\ f[StartCount + HeaderCount + 1] = c[1]
       /\ \A i \in 1 .. Len(d) : f[StartCount + HeaderCount + 1 + i] = d[i]
  <2>1. /\ Len(f) = Len(a) + Len(b) + Len(c) + Len(d)
        /\ \A i \in 1 .. Len(a) : f[i] = a[i]
        /\ \A i \in 1 .. Len(b) : f[Len(a) + i] = b[i]
        /\ \A i \in 1 .. Len(c) : f[Len(a) + Len(b) + i] = c[i]
        /\ \A i \in 1 .. Len(d) : f[Len(a) + Len(b) + Len(c) + i] = d[i]
    BY <1>10 DEF Four, f
  <2>2. 1 \in 1 .. Len(c)
    BY <1>4
  <2> QED BY <1>2, <1>3, <1>4, <2>1, <2>2
<1>12. /\ Verdicts(input) \in Seq(VerdictNames)
       /\ Len(Verdicts(input)) = Len(f) + 1
       /\ \A i \in 1 .. Len(f) : Verdicts(input)[i] = f[i]
       /\ Verdicts(input)[Len(f) + 1] = e[1]
  <2>1. f \in Seq(VerdictNames) /\ e \in Seq(VerdictNames)
    BY <1>6, <1>10
  <2>2. /\ f \o e \in Seq(VerdictNames) /\ Len(f \o e) = Len(f) + Len(e)
        /\ \A i \in 1 .. Len(f) : (f \o e)[i] = f[i]
        /\ \A i \in 1 .. Len(e) : (f \o e)[Len(f) + i] = e[i]
    BY ONLY <2>1, Concat
  <2>3. 1 \in 1 .. Len(e)
    BY <1>6
  <2> QED BY <1>6, <1>7, <2>2, <2>3
<1>13. StartCount \in Nat
  BY <1>0
<1>14. \A i \in 1 .. StartCount : Verdicts(input)[i] = a[i]
  BY <1>0, <1>8, <1>11, <1>12, <1>13
<1>15. \A i \in 1 .. HeaderCount : Verdicts(input)[StartCount + i] = b[i]
  <2>1. \A i \in 1 .. HeaderCount : StartCount + i \in 1 .. Len(f)
    BY <1>0, <1>8, <1>11, <1>13
  <2> QED BY <1>11, <1>12, <2>1
<1>16. Verdicts(input)[StartCount + HeaderCount + 1] = c[1]
  <2>1. StartCount + HeaderCount + 1 \in 1 .. Len(f)
    BY <1>0, <1>8, <1>11, <1>13
  <2> QED BY <1>11, <1>12, <2>1
<1>17. \A i \in 1 .. Len(d) : Verdicts(input)[StartCount + HeaderCount + 1 + i] = d[i]
  <2>1. \A i \in 1 .. Len(d) : StartCount + HeaderCount + 1 + i \in 1 .. Len(f)
    BY <1>0, <1>8, <1>11, <1>13
  <2> QED BY <1>11, <1>12, <2>1
<1>18. HeaderPart(HeaderCount + 1) = StartCount + HeaderCount + 1
  BY <1>0, <1>13 DEF HeaderPart
<1>19. /\ Len(Verdicts(input)) = BodyPart(Len(d)) + 1
       /\ Verdicts(input)[BodyPart(Len(d)) + 1] = HostVerdict(input)
  BY <1>6, <1>9, <1>11, <1>12
<1>20. Verdicts(input)[HeaderPart(HeaderCount + 1)] = LineVerdict(<<>>, FALSE, "ok")
  BY <1>4, <1>16, <1>18
<1>21. \A i \in 1 .. HeaderCount : Verdicts(input)[HeaderPart(i)] = HeaderVerdict(input, i)
  BY <1>3, <1>15 DEF HeaderPart
<1>22. \A i \in 1 .. Len(d) : Verdicts(input)[BodyPart(i)] = d[i]
  BY <1>17 DEF BodyPart
<1> QED
  BY <1>8, <1>12, <1>14, <1>19, <1>20, <1>21, <1>22 DEF a, d

(* The verdicts on the parts of a body, by how it is sent.                 *)
LEMMA BodyVerdictsAre ==
    ASSUME input \in Straight
    PROVE  LET v == BodyVerdicts(input)
           IN  /\ ~TakesBody(input) => Len(v) = 0
               /\ TakesBody(input) /\ input.framing = "chunked" =>
                    /\ Len(v) = Len(input.ends) + 1
                    /\ \A i \in 1 .. Len(input.ends) :
                        v[i] = ChunkVerdict(Size(input, i), Before(input, i))
                    /\ v[Len(input.ends) + 1] = LineVerdict(SizeLine(0), FALSE, "ok")
               /\ TakesBody(input) /\ input.framing = "longChunk" => Len(v) = 1 /\ v[1] = LongChunkVerdict
               /\ TakesBody(input) /\ input.framing = "badSize" =>
                    Len(v) = 1 /\ v[1] = LineVerdict(BadSizeLine, TRUE, "MalformedMessage")
               /\ TakesBody(input) /\ input.framing = "length" =>
                    Len(v) = 1 /\ v[1] = BufferVerdict(BodySize(input), limits.buffer + 1)
               /\ EndsAtEof(input) => Len(v) = 1 /\ v[1] = BufferVerdict(Received(input), limits.buffer)
<1> DEFINE v == BodyVerdicts(input)
<1>0. \A x : Len(<<x>>) = 1 /\ <<x>>[1] = x
  OBVIOUS
<1>1. ~TakesBody(input) => Len(v) = 0
  <2>1. ~TakesBody(input) => v = <<>>
    BY DEF BodyVerdicts, EndsAtEof, Undetermined
  <2> QED BY <2>1
<1>2. ASSUME TakesBody(input), input.framing = "chunked"
      PROVE  /\ Len(v) = Len(input.ends) + 1
             /\ \A i \in 1 .. Len(input.ends) : v[i] = ChunkVerdict(Size(input, i), Before(input, i))
             /\ v[Len(input.ends) + 1] = LineVerdict(SizeLine(0), FALSE, "ok")
  <2> DEFINE g == [i \in DOMAIN input.ends |-> ChunkVerdict(Size(input, i), Before(input, i))]
             x == LineVerdict(SizeLine(0), FALSE, "ok")
             T == {g[i] : i \in DOMAIN input.ends} \cup {x}
  <2>1. v = g \o <<x>>
    BY <1>2 DEF BodyVerdicts, EndsAtEof, Undetermined
  <2>2. DOMAIN input.ends = 1 .. Len(input.ends) /\ Len(input.ends) \in Nat
    BY StraightAre, LenProperties DEF BodyIs
  <2>3. \A i \in 1 .. Len(input.ends) : g[i] = ChunkVerdict(Size(input, i), Before(input, i))
    BY <2>2
  <2>4. g \in [1 .. Len(input.ends) -> T]
    BY <2>2
  <2>5. <<x>> \in Seq(T)
    OBVIOUS
  <2> HIDE DEF g, x, T
  <2>6. g \in Seq(T)
    BY <2>2, <2>4, IsASeq
  <2>7. Len(g) = Len(input.ends)
    <3>1. Len(g) \in Nat /\ DOMAIN g = 1 .. Len(g)
      BY <2>6, LenProperties
    <3> QED BY <2>2, <2>4, <3>1
  <2>8. /\ Len(g \o <<x>>) = Len(g) + Len(<<x>>)
        /\ \A i \in 1 .. Len(g) : (g \o <<x>>)[i] = g[i]
        /\ \A i \in 1 .. Len(<<x>>) : (g \o <<x>>)[Len(g) + i] = <<x>>[i]
    BY ONLY <2>5, <2>6, Concat
  <2>9. Len(<<x>>) = 1 /\ <<x>>[1] = x
    BY <1>0
  <2>10. (g \o <<x>>)[Len(g) + 1] = x
    BY <2>8, <2>9
  <2> HIDE DEF v
  <2> QED BY <2>1, <2>2, <2>3, <2>7, <2>8, <2>9, <2>10 DEF x
<1>3. TakesBody(input) /\ input.framing = "longChunk" => v = <<LongChunkVerdict>>
  BY DEF BodyVerdicts, EndsAtEof, Undetermined
<1>4. TakesBody(input) /\ input.framing = "badSize" =>
        v = <<LineVerdict(BadSizeLine, TRUE, "MalformedMessage")>>
  BY DEF BodyVerdicts, EndsAtEof, Undetermined
<1>5. TakesBody(input) /\ input.framing = "length" =>
        v = <<BufferVerdict(BodySize(input), limits.buffer + 1)>>
  BY DEF BodyVerdicts, EndsAtEof, Undetermined
<1>6. EndsAtEof(input) => v = <<BufferVerdict(Received(input), limits.buffer)>>
  BY StraightAre DEF BodyVerdicts, EndsAtEof, Undetermined
<1> HIDE DEF v
<1>7. TakesBody(input) /\ input.framing = "longChunk" => Len(v) = 1 /\ v[1] = LongChunkVerdict
  BY <1>0, <1>3
<1>8. TakesBody(input) /\ input.framing = "badSize" =>
        Len(v) = 1 /\ v[1] = LineVerdict(BadSizeLine, TRUE, "MalformedMessage")
  BY <1>0, <1>4
<1>9. TakesBody(input) /\ input.framing = "length" =>
        Len(v) = 1 /\ v[1] = BufferVerdict(BodySize(input), limits.buffer + 1)
  BY <1>0, <1>5
<1>10. EndsAtEof(input) => Len(v) = 1 /\ v[1] = BufferVerdict(Received(input), limits.buffer)
  BY <1>0, <1>6
<1> QED
  BY <1>1, <1>2, <1>7, <1>8, <1>9, <1>10, Zenon DEF v

(* The first part that is wrong decides.                                   *)
LEMMA WrongPart ==
    ASSUME input \in Straight, NEW k \in 1 .. Len(Verdicts(input)), Passed(k - 1),
           Verdicts(input)[k] # "ok"
    PROVE  Expected(input) = Verdicts(input)[k]
<1> DEFINE V == Verdicts(input)
           wrong == {i \in DOMAIN V : V[i] # "ok"}
<1>1. DOMAIN V = 1 .. Len(V) /\ Len(V) \in Nat
  <2>1. V \in Seq(VerdictNames)
    BY VerdictsAre
  <2> HIDE DEF V, VerdictNames
  <2> QED BY <2>1, LenProperties
<1>2. \A j \in 1 .. k - 1 : V[j] = "ok"
  BY DEF Passed
<1>3. Expected(input) =
        IF wrong = {} THEN "Completed" ELSE V[CHOOSE i \in wrong : \A j \in wrong : i <= j]
  BY DEF Expected
<1>4. k \in wrong /\ wrong \subseteq Nat
  BY <1>1
<1>5. \A i \in wrong : k <= i
  BY <1>1, <1>2
<1> HIDE DEF V, wrong
<1>6. ASSUME NEW i \in wrong, \A j \in wrong : i <= j
      PROVE  i = k
  BY <1>4, <1>5, <1>6
<1>7. (CHOOSE i \in wrong : \A j \in wrong : i <= j) = k
  BY <1>4, <1>5, <1>6
<1> QED
  BY <1>3, <1>4, <1>7 DEF V

(* If no part is wrong, the message is right.                              *)
LEMMA NoWrongPart ==
    ASSUME input \in Straight, Passed(Len(Verdicts(input)))
    PROVE  Expected(input) = "Completed"
<1> DEFINE V == Verdicts(input)
<1>1. DOMAIN V = 1 .. Len(V)
  <2>1. V \in Seq(VerdictNames)
    BY VerdictsAre
  <2> HIDE DEF V, VerdictNames
  <2> QED BY <2>1, LenProperties
<1>2. {i \in DOMAIN V : V[i] # "ok"} = {}
  BY <1>1 DEF Passed
<1> QED
  BY <1>2 DEF Expected

(* What is sent, to whom, and whether more comes after it, stays.          *)
Fixed == UNCHANGED <<input, limits, text, closes>>

LEMMA FixedKeeps ==
    ASSUME Fixed
    PROVE  /\ Verdicts(input)' = Verdicts(input) /\ Expected(input)' = Expected(input)
           /\ SentBody(input)' = SentBody(input) /\ TakesBody(input)' = TakesBody(input)
           /\ IsRequest' = IsRequest /\ EndsAtEof(input)' = EndsAtEof(input) /\ Whole' = Whole
           /\ Sent' = Sent /\ StartCount' = StartCount /\ HeaderCount' = HeaderCount
           /\ StartStates' = StartStates
           /\ \A k : /\ From(k)' = From(k) /\ Passed(k)' = Passed(k)
                     /\ HeaderPart(k)' = HeaderPart(k) /\ BodyPart(k)' = BodyPart(k)
<1> USE DEF Fixed
<1>1. /\ TakesBody(input)' = TakesBody(input) /\ IsRequest' = IsRequest
      /\ EndsAtEof(input)' = EndsAtEof(input) /\ Whole' = Whole
      /\ StartCount' = StartCount /\ HeaderCount' = HeaderCount
  BY DEF IsRequest, Whole, StartCount, HeaderCount
<1>2. Sent' = Sent
  BY DEF Sent
<1>3. Received(input)' = Received(input)
  BY DEF Received
<1>4. StartVerdicts(input)' = StartVerdicts(input)
  BY DEF StartVerdicts, LineVerdict
<1>5. \A i : HeaderVerdict(input, i)' = HeaderVerdict(input, i)
  BY DEF HeaderVerdict, LineVerdict
<1>6. BodyVerdicts(input)' = BodyVerdicts(input)
  BY <1>1, <1>3 DEF BodyVerdicts, LineVerdict, ChunkVerdict, LongChunkVerdict, BufferVerdict
<1>7. LineVerdict(<<>>, FALSE, "ok")' = LineVerdict(<<>>, FALSE, "ok")
  BY DEF LineVerdict
<1>8. [i \in DOMAIN input.headers |-> HeaderVerdict(input, i)]'
        = [i \in DOMAIN input.headers |-> HeaderVerdict(input, i)]
  BY <1>5
<1>9. Verdicts(input)' = Verdicts(input)
  BY <1>4, <1>6, <1>7, <1>8 DEF Verdicts
<1>10. Expected(input)' = Expected(input)
  BY <1>9 DEF Expected
<1>11. SentBody(input)' = SentBody(input)
  BY <1>1, <1>3 DEF SentBody
<1>12. StartStates' = StartStates
  BY <1>1 DEF StartStates
<1>13. \A k : From(k)' = From(k) /\ Passed(k)' = Passed(k)
  BY <1>9 DEF From, Passed
<1>14. \A k : HeaderPart(k)' = HeaderPart(k) /\ BodyPart(k)' = BodyPart(k)
  BY <1>1 DEF HeaderPart, BodyPart
<1> QED
  BY <1>1, <1>2, <1>9, <1>10, <1>11, <1>12, <1>13, <1>14

(* A step that answers with the verdict on a part, all parts before it     *)
(* being right.                                                            *)
LEMMA Answered ==
    ASSUME input \in Straight, Fixed, NEW k \in 1 .. Len(Verdicts(input)), Passed(k - 1),
           Verdicts(input)[k] = outcome', outcome' \in VerdictNames \ {"ok"}
    PROVE  ParsedAsSent'
<1>1. Expected(input) = outcome'
  BY WrongPart
<1>2. outcome' \notin {"UnexpectedEof", "BadOptionalAccess", "Completed"}
  BY DEF VerdictNames
<1> QED
  BY <1>1, <1>2, FixedKeeps DEF ParsedAsSent

-----------------------------------------------------------------------------
(* What of the text the parser has not looked at.                          *)
LEMMA Unread ==
    ASSUME StreamInv
    PROVE  /\ Sent \in Texts /\ Rest \in Texts
           /\ Position \in 0 .. Len(text) /\ Len(text) \in 0 .. Len(Sent) /\ Len(Sent) \in Nat
           /\ Len(Rest) = Len(Sent) - Position
           /\ \A i \in 1 .. Len(Rest) : Rest[i] = Sent[Position + i]
           /\ \A i \in 1 .. Len(text) : text[i] = Sent[i]
           /\ Len(lastChar) \in {0, 1} /\ Len(chars) \in Nat
<1>1. Sent \in Seq(Symbols) /\ Len(Sent) \in Nat /\ Len(text) \in Nat /\ Len(chars) \in Nat
  BY PartRanges, LenProperties DEF StreamInv, Texts
<1>2. Len(lastChar) \in {0, 1}
  <2>1. \A x : Len(<<x>>) = 1
    OBVIOUS
  <2>2. Len(<<>>) = 0
    OBVIOUS
  <2>3. lastChar = <<>> \/ lastChar = <<text[Position + 1]>>
    BY DEF StreamInv
  <2> QED BY <2>1, <2>2, <2>3
<1>3. Position \in 0 .. Len(text) /\ Len(text) \in 0 .. Len(Sent)
  <2>1. taken \in 0 .. Len(text) /\ Len(chars) + Len(lastChar) <= taken /\ Len(text) <= Len(Sent)
    BY DEF StreamInv
  <2>2. Len(lastChar) \in Nat
    BY <1>2
  <2> QED BY <1>1, <2>1, <2>2 DEF Position
<1> DEFINE p == Position
           r == SubSeq(Sent, p + 1, Len(Sent))
<1>4. r \in Seq(Symbols) /\ Len(r) = Len(Sent) - p /\ \A i \in 1 .. Len(r) : r[i] = Sent[p + i]
  <2>1. p \in 0 .. Len(Sent)
    BY <1>1, <1>3
  <2> HIDE DEF p
  <2>2. p + 1 \in 1 .. Len(Sent) + 1 /\ Len(Sent) \in p + 1 - 1 .. Len(Sent)
    BY <1>1, <2>1
  <2>3. /\ r \in Seq(Symbols)
        /\ Len(r) = IF p + 1 <= Len(Sent) THEN Len(Sent) - (p + 1) + 1 ELSE 0
        /\ \A i \in 1 .. Len(Sent) - (p + 1) + 1 : r[i] = Sent[p + 1 + i - 1]
    BY <1>1, <2>1, <2>2, SubSeqProperties
  <2> HIDE DEF r
  <2>4. Len(r) = Len(Sent) - p
    BY <1>1, <2>1, <2>3
  <2>5. \A i \in 1 .. Len(r) : r[i] = Sent[p + i]
    <3> SUFFICES ASSUME NEW i \in 1 .. Len(r) PROVE r[i] = Sent[p + i]
      OBVIOUS
    <3>1. i \in 1 .. Len(Sent) - (p + 1) + 1 /\ p + 1 + i - 1 = p + i
      BY <1>1, <2>1, <2>4
    <3> QED BY <2>3, <3>1
  <2> QED BY <2>3, <2>4, <2>5
<1>5. \A i \in 1 .. Len(text) : text[i] = Sent[i]
  <2>1. text = SubSeq(Sent, 1, Len(text))
    BY DEF StreamInv
  <2>2. \A i \in 1 .. Len(text) : SubSeq(Sent, 1, Len(text))[i] = Sent[i]
    <3> DEFINE n == Len(text)
    <3>1. n \in Nat /\ n <= Len(Sent)
      BY <1>1, <1>3
    <3> HIDE DEF n
    <3>2. \A i \in 1 .. n : SubSeq(Sent, 1, n)[i] = Sent[i]
      BY <1>1, <3>1
    <3> QED BY <3>2 DEF n
  <2> QED BY <2>1, <2>2
<1> QED
  BY <1>1, <1>2, <1>3, <1>4, <1>5 DEF Rest, Texts, p, r

(* What the library says of a part of a sequence, in the form it is cited  *)
(* in.                                                                     *)
LEMMA SubIs ==
    ASSUME NEW s \in Texts, NEW m \in 1 .. Len(s) + 1, NEW n \in m - 1 .. Len(s)
    PROVE  /\ SubSeq(s, m, n) \in Texts /\ Len(SubSeq(s, m, n)) = n - m + 1
           /\ \A i \in 1 .. n - m + 1 : SubSeq(s, m, n)[i] = s[m + i - 1]
<1>1. s \in Seq(Symbols) /\ Len(s) \in Nat
  BY LenProperties DEF Texts
<1>2. /\ SubSeq(s, m, n) \in Seq(Symbols)
      /\ Len(SubSeq(s, m, n)) = IF m <= n THEN n - m + 1 ELSE 0
      /\ \A i \in 1 .. n - m + 1 : SubSeq(s, m, n)[i] = s[m + i - 1]
  BY <1>1, SubSeqProperties
<1>3. m \in Nat /\ n \in Int /\ n >= m - 1
  BY <1>1
<1>4. Len(SubSeq(s, m, n)) = n - m + 1
  BY <1>2, <1>3
<1> QED
  BY <1>2, <1>4 DEF Texts

(* A step that reads a character: it is the next one of the text.          *)
LEMMA Takes ==
    ASSUME StreamInv, HasChar, TakeBuffered \/ TakeRead, UNCHANGED text
    PROVE  /\ Position < Len(text) /\ Char = text[Position + 1]
           /\ chars' \in Seq(Symbols) /\ Len(chars') \in Nat /\ taken' \in 0 .. Len(text)
           /\ taken' - Len(chars') = Position + 1
           /\ chars' = SubSeq(text, taken' - Len(chars') + 1, taken')
<1>1. /\ text \in Texts /\ taken \in 0 .. Len(text) /\ Len(text) \in Nat
      /\ chars \in Seq(Symbols) /\ Len(chars) \in Nat
      /\ Len(chars) + Len(lastChar) <= taken
      /\ chars = SubSeq(text, taken - Len(chars) + 1, taken)
      /\ lastChar = <<>> \/ lastChar = <<text[Position + 1]>>
      /\ Position = taken - Len(chars) - Len(lastChar)
  BY LenProperties, Unread DEF StreamInv, Texts, Position
<1>2. \A x : Len(<<x>>) = 1 /\ Head(<<x>>) = x
  OBVIOUS
<1>3. Len(<<>>) = 0
  OBVIOUS
<1>4. CASE lastChar # <<>>
  <2>1. TakeBuffered /\ chars' = chars /\ taken' = taken /\ Char = Head(lastChar)
    BY <1>4 DEF TakeBuffered, TakeRead, Exhausted, Char
  <2>2. Len(lastChar) = 1 /\ Char = text[Position + 1]
    BY <1>1, <1>2, <1>4, <2>1
  <2> HIDE DEF Position
  <2>3. Position < Len(text) /\ taken - Len(chars) = Position + 1
    BY <1>1, <2>2
  <2> QED BY <1>1, <2>1, <2>2, <2>3
<1>5. CASE lastChar = <<>> /\ chars # <<>>
  <2>1. TakeBuffered /\ chars' = Tail(chars) /\ taken' = taken /\ Char = Head(chars)
    BY <1>5 DEF TakeBuffered, TakeRead, Exhausted, Char
  <2>2. Len(lastChar) = 0
    BY <1>3, <1>5
  <2>3. Tail(chars) \in Seq(Symbols) /\ Len(Tail(chars)) = Len(chars) - 1 /\ Len(chars) > 0
    BY <1>1, <1>5, HeadTailProperties, EmptySeq
  <2> DEFINE p == Position
             t == text
  <2>4. p = taken - Len(chars) /\ p \in Nat /\ p < Len(t) /\ p < taken
    BY <1>1, <2>2, <2>3
  <2>5. chars = SubSeq(t, p + 1, taken)
    BY <1>1, <2>4
  <2> HIDE DEF p, t
  <2>6. p + 1 \in 1 .. Len(t) /\ taken \in p + 1 .. Len(t) /\ t \in Seq(Symbols)
    BY <1>1, <2>4 DEF t, Texts
  <2>7. Head(SubSeq(t, p + 1, taken)) = t[p + 1]
        /\ Tail(SubSeq(t, p + 1, taken)) = SubSeq(t, p + 1 + 1, taken)
    BY <2>6, HeadTailOfSubSeq
  <2>8. Char = t[p + 1] /\ chars' = SubSeq(t, p + 1 + 1, taken)
    BY <2>1, <2>5, <2>7
  <2>9. taken - Len(Tail(chars)) = p + 1
    BY <1>1, <2>3, <2>4
  <2>10. Len(Tail(chars)) \in Nat
    BY <1>1, <2>3
  <2> QED BY <1>1, <2>1, <2>3, <2>4, <2>8, <2>9, <2>10 DEF p, t
<1>6. CASE lastChar = <<>> /\ chars = <<>>
  <2>1. PICK n \in 1 .. ReadSize :
          /\ taken + n <= Len(text)
          /\ chars' = SubSeq(text, taken + 2, taken + n)
          /\ taken' = taken + n
    BY <1>6 DEF TakeBuffered, TakeRead, Exhausted
  <2>2. n \in Nat /\ n >= 1
    BY CharacterStreamAssumption
  <2>3. Char = text[taken + 1]
    BY <1>6 DEF Char
  <2>4. Position = taken
    BY <1>1, <1>3, <1>6
  <2> DEFINE t == text
             m == taken + 2
             k == taken + n
  <2>5. t \in Texts /\ m \in 1 .. Len(t) + 1 /\ k \in m - 1 .. Len(t)
    BY <1>1, <2>1, <2>2
  <2>6. SubSeq(t, m, k) \in Texts /\ Len(SubSeq(t, m, k)) = k - m + 1
    <3> HIDE DEF t, m, k
    <3> QED BY <2>5, SubIs
  <2>7. chars' = SubSeq(t, m, k)
    BY <2>1
  <2>8. chars' \in Seq(Symbols) /\ Len(chars') = n - 1
    <3>1. k - m + 1 = n - 1
      BY <1>1, <2>2
    <3> HIDE DEF t, m, k
    <3> QED BY <2>6, <2>7, <3>1 DEF Texts
  <2>9. taken' - Len(chars') = taken + 1 /\ taken' \in 0 .. Len(text) /\ taken < Len(text)
    BY <1>1, <2>1, <2>2, <2>8
  <2>10. taken' - Len(chars') + 1 = taken + 2
    BY <1>1, <2>9
  <2>11. Len(chars') \in Nat
    BY <2>2, <2>8
  <2> QED BY <2>1, <2>3, <2>4, <2>8, <2>9, <2>10, <2>11
<1> QED
  BY <1>4, <1>5, <1>6

(* What has arrived and was not looked at is where the rest of the text    *)
(* begins.                                                                 *)
LEMMA RestIs ==
    ASSUME StreamInv, Position < Len(text)
    PROVE  /\ text[Position + 1] \in Symbols
           /\ Rest = <<text[Position + 1]>> \o SubSeq(Sent, Position + 2, Len(Sent))
           /\ SubSeq(Sent, Position + 2, Len(Sent)) \in Texts
<1> DEFINE p == Position
           s == Sent
<1>1. /\ s \in Texts /\ p \in 0 .. Len(text) /\ Len(text) \in 0 .. Len(s) /\ Len(s) \in Nat
      /\ \A i \in 1 .. Len(text) : text[i] = s[i]
  BY Unread
<1>2. Rest = SubSeq(s, p + 1, Len(s))
  BY DEF Rest
<1>3. p < Len(text)
  OBVIOUS
<1> HIDE DEF p, s
<1>4. p + 1 \in 1 .. Len(s) /\ Len(s) \in p + 1 .. Len(s) /\ p + 1 \in 1 .. Len(text) /\ p + 1 + 1 = p + 2
  BY <1>1, <1>3
<1>5. s \in Seq(Symbols)
  BY <1>1 DEF Texts
<1>6. SubSeq(s, p + 1, Len(s)) = <<s[p + 1]>> \o SubSeq(s, p + 1 + 1, Len(s))
  BY <1>4, <1>5, SubSeqRecursiveFirst
<1>7. s[p + 1] = text[p + 1] /\ s[p + 1] \in Symbols
  BY <1>1, <1>4, <1>5
<1>8. SubSeq(s, p + 2, Len(s)) \in Texts
  <2>1. p + 2 \in 1 .. Len(s) + 1 /\ Len(s) \in p + 2 - 1 .. Len(s)
    BY <1>1, <1>4
  <2>2. s \in Texts
    BY <1>1
  <2> QED BY ONLY <2>1, <2>2, SubIs
<1> QED
  BY <1>2, <1>4, <1>6, <1>7, <1>8 DEF p, s

(* What a step leaves of the stream, from where it leaves the stream.      *)
LEMMA StreamKept ==
    ASSUME StreamInv, Fixed, taken' \in 0 .. Len(text),
           chars' \in Seq(Symbols), Len(chars') + Len(lastChar') <= taken',
           chars' = SubSeq(text, taken' - Len(chars') + 1, taken'),
           lastChar' = <<>> \/ lastChar' = <<text[Position' + 1]>>,
           finished' => closes /\ Position' = Len(text)
    PROVE  StreamInv'
<1>1. Sent' = Sent
  BY FixedKeeps
<1> QED
  BY <1>1 DEF StreamInv, Fixed

(* A step that takes a character leaves the rest of the text without it.   *)
LEMMA ReadsChar ==
    ASSUME StreamInv, NextChar, Fixed
    PROVE  /\ StreamInv' /\ Char \in Symbols /\ Rest \in Texts /\ Rest' \in Texts
           /\ Rest = <<Char>> \o Rest'
<1>1. /\ HasChar /\ lastChar' = <<>>
      /\ UNCHANGED <<text, closes, finished>> /\ ~finished
  BY DEF NextChar, HasChar
<1>2. /\ Position < Len(text) /\ Char = text[Position + 1]
      /\ chars' \in Seq(Symbols) /\ Len(chars') \in Nat /\ taken' \in 0 .. Len(text)
      /\ taken' - Len(chars') = Position + 1
      /\ chars' = SubSeq(text, taken' - Len(chars') + 1, taken')
  <2>1. TakeBuffered \/ TakeRead
    BY DEF NextChar
  <2> QED BY <1>1, <2>1, Takes
<1>3. Position \in Nat /\ Len(text) \in Nat
  BY Unread
<1>4. Len(lastChar') = 0
  BY <1>1
<1>5. Position' = Position + 1
  <2> DEFINE p == Position
  <2>1. p \in Nat /\ taken' - Len(chars') = p + 1
    BY <1>2, <1>3
  <2> HIDE DEF p
  <2>2. taken' - Len(chars') - Len(lastChar') = p + 1
    BY <1>2, <1>4, <2>1
  <2> QED BY <2>2 DEF p, Position
<1>6. Len(chars') + Len(lastChar') <= taken'
  <2> HIDE DEF Position
  <2> QED BY <1>2, <1>3, <1>4
<1>7. StreamInv'
  BY <1>1, <1>2, <1>6, StreamKept
<1>8. Rest' = SubSeq(Sent, Position + 2, Len(Sent))
  <2>1. Sent' = Sent
    BY FixedKeeps
  <2>2. Rest' = SubSeq(Sent, Position + 1 + 1, Len(Sent))
    BY <1>5, <2>1 DEF Rest
  <2>3. Position + 1 + 1 = Position + 2
    BY <1>3
  <2> QED BY <2>2, <2>3
<1>9. /\ text[Position + 1] \in Symbols
      /\ Rest = <<text[Position + 1]>> \o SubSeq(Sent, Position + 2, Len(Sent))
      /\ SubSeq(Sent, Position + 2, Len(Sent)) \in Texts
  BY <1>2, RestIs
<1>10. Rest \in Texts
  BY Unread
<1> QED
  BY <1>2, <1>7, <1>8, <1>9, <1>10

(* One that takes a character and puts it back leaves the rest as it is.   *)
LEMMA ReadsAndGivesBack ==
    ASSUME StreamInv, NextCharShiftBack, Fixed
    PROVE  StreamInv' /\ Rest' = Rest
<1>1. /\ HasChar /\ lastChar' = <<Char>>
      /\ UNCHANGED <<text, closes, finished>> /\ ~finished
  BY DEF NextCharShiftBack, HasChar
<1>2. /\ Position < Len(text) /\ Char = text[Position + 1]
      /\ chars' \in Seq(Symbols) /\ Len(chars') \in Nat /\ taken' \in 0 .. Len(text)
      /\ taken' - Len(chars') = Position + 1
      /\ chars' = SubSeq(text, taken' - Len(chars') + 1, taken')
  <2>1. TakeBuffered \/ TakeRead
    BY DEF NextCharShiftBack
  <2> QED BY <1>1, <2>1, Takes
<1>3. Position \in Nat /\ Len(text) \in Nat
  BY Unread
<1>4. Len(lastChar') = 1
  <2>1. \A x : Len(<<x>>) = 1
    OBVIOUS
  <2>2. lastChar' = <<Char>>
    BY DEF NextCharShiftBack
  <2> QED BY <2>1, <2>2
<1>5. Position' = Position
  <2> DEFINE p == Position
  <2>1. p \in Nat /\ taken' - Len(chars') = p + 1
    BY <1>2, <1>3
  <2> HIDE DEF p
  <2>2. taken' - Len(chars') - Len(lastChar') = p
    BY <1>2, <1>4, <2>1
  <2> QED BY <2>2 DEF p, Position
<1>6. Len(chars') + Len(lastChar') <= taken'
  <2> DEFINE p == Position
  <2>1. p \in Nat /\ taken' - Len(chars') = p + 1
    BY <1>2, <1>3
  <2> HIDE DEF p
  <2> QED BY <1>2, <1>4, <2>1
<1>7. lastChar' = <<text[Position' + 1]>>
  <2>1. lastChar' = <<Char>>
    BY DEF NextCharShiftBack
  <2> QED BY <1>2, <1>5, <2>1
<1>8. StreamInv'
  BY <1>1, <1>2, <1>6, <1>7, StreamKept
<1>9. Sent' = Sent
  BY FixedKeeps
<1> QED
  BY <1>5, <1>8, <1>9 DEF Rest

(* And so does one that does not come to the stream.                       *)
LEMMA ReadsNothing ==
    ASSUME StreamInv, Fixed, UNCHANGED <<taken, chars, lastChar, finished>>
    PROVE  StreamInv' /\ Rest' = Rest
<1>1. Sent' = Sent
  BY FixedKeeps
<1>2. Position' = Position
  BY DEF Position
<1> QED
  BY <1>1, <1>2 DEF StreamInv, Rest, Fixed

(* The text ends where the stream does.                                    *)
LEMMA ReadsEnd ==
    ASSUME StreamInv, NextFinished, Fixed
    PROVE  /\ StreamInv' /\ Rest' = Rest /\ closes /\ Position = Len(text)
           /\ Whole => Rest = <<>>
<1>1. Sent' = Sent
  BY FixedKeeps
<1>2. Position' = Position
  BY DEF Position, NextFinished
<1>3. closes /\ Position = Len(text)
  <2>1. CASE finished
    BY <2>1 DEF StreamInv
  <2>2. CASE Exhausted /\ readable /\ AllTaken /\ closes
    <3>1. Len(chars) = 0 /\ Len(lastChar) = 0 /\ taken = Len(text) /\ taken \in Nat
      BY <2>2, Unread DEF Exhausted, AllTaken, StreamInv
    <3> QED BY <2>2, <3>1 DEF Position
  <2> QED BY <2>1, <2>2 DEF NextFinished
<1>4. StreamInv'
  BY <1>1, <1>2, <1>3 DEF StreamInv, NextFinished, Fixed
<1>5. Rest' = Rest
  BY <1>1, <1>2 DEF Rest
<1>6. Whole => Rest = <<>>
  <2> SUFFICES ASSUME Whole PROVE Rest = <<>>
    OBVIOUS
  <2>1. Len(text) = Len(Sent)
    BY DEF Whole, Sent
  <2>2. Len(Rest) = Len(Sent) - Position /\ Rest \in Seq(Symbols) /\ Len(Sent) \in Nat
    BY Unread DEF Texts
  <2> DEFINE r == Rest
  <2>3. Len(r) = 0 /\ r \in Seq(Symbols)
    BY <1>3, <2>1, <2>2
  <2> HIDE DEF r
  <2>4. r = <<>>
    BY <2>3, EmptySeq
  <2> QED BY <2>4 DEF r
<1> QED
  BY <1>3, <1>4, <1>5, <1>6

-----------------------------------------------------------------------------
(* The start line.                                                         *)
LEMMA LimitsAre ==
    ASSUME StreamInv
    PROVE  limits.buffer \in Nat /\ limits.body \in Nat /\ input \in Straight
  BY MessageParserAssumption DEF StreamInv

(* The parts up to the next are right if this one is.                      *)
LEMMA PassedNext ==
    ASSUME NEW k \in Nat, Passed(k), Verdicts(input)[k + 1] = "ok"
    PROVE  Passed(k + 1)
  BY DEF Passed

(* One more character of what is read; and none.                           *)
LEMMA AtNext ==
    ASSUME StreamInv, NextChar, Fixed, NEW read \in Texts, NEW k, read \o Rest = From(k)
    PROVE  /\ Append(read, Char) \in Texts /\ Len(Append(read, Char)) = Len(read) + 1
           /\ Append(read, Char) \o Rest' = From(k)
           /\ read \o (<<Char>> \o Rest') = From(k)
           /\ Len(read) \in Nat
<1>1. Char \in Symbols /\ Rest' \in Seq(Symbols) /\ Rest = <<Char>> \o Rest'
  BY ReadsChar DEF Texts
<1>2. read \in Seq(Symbols)
  BY DEF Texts
<1>3. /\ read \o (<<Char>> \o Rest') = Append(read, Char) \o Rest'
      /\ Append(read, Char) \in Seq(Symbols) /\ Len(Append(read, Char)) = Len(read) + 1
  BY ONLY <1>1, <1>2, ReadsOne
<1>4. read \o (<<Char>> \o Rest') = From(k)
  BY <1>1
<1> QED
  BY <1>2, <1>3, <1>4, LenProperties DEF Texts

LEMMA NothingRead ==
    ASSUME NEW r \in Texts
    PROVE  <<>> \in Texts /\ <<>> \o r = r /\ \A x : Lacks(<<>>, x)
  BY ConcatEmptySeq DEF Texts, Lacks

(* Which part of the start line the parser is in.                          *)
LEMMA StartStateIs ==
    ASSUME input \in Straight, StartLineInv
    PROVE  /\ Len(startLine) \in Nat
           /\ \/ IsRequest /\ startState = "Method" /\ Len(startLine) = 0
              \/ IsRequest /\ startState = "Uri" /\ Len(startLine) = 1
              \/ IsRequest /\ startState = "Version" /\ Len(startLine) = 2
              \/ IsRequest /\ startState = "Message" /\ Len(startLine) = 3
              \/ ~IsRequest /\ startState = "ResponseVersion" /\ Len(startLine) = 0
              \/ ~IsRequest /\ startState = "Status" /\ Len(startLine) = 1
              \/ ~IsRequest /\ startState = "ResponseMessage" /\ Len(startLine) = 2
<1>1. StartCount = IF IsRequest THEN 3 ELSE 2
  BY Counts
<1> DEFINE n == Len(startLine)
<1>2. n \in 0 .. StartCount /\ startState = StartStates[n + 1]
  BY DEF StartLineInv
<1> HIDE DEF n
<1>3. CASE IsRequest
  <2>1. n = 0 \/ n = 1 \/ n = 2 \/ n = 3
    BY <1>1, <1>2, <1>3
  <2>2. StartStates[1] = "Method" /\ StartStates[2] = "Uri" /\ StartStates[3] = "Version"
        /\ StartStates[4] = "Message"
    BY <1>3 DEF StartStates, RequestStates
  <2>3. \/ startState = "Method" /\ n = 0
        \/ startState = "Uri" /\ n = 1
        \/ startState = "Version" /\ n = 2
        \/ startState = "Message" /\ n = 3
    BY ONLY <1>2, <2>1, <2>2
  <2>4. n \in Nat
    BY <2>1
  <2> QED BY ONLY <1>3, <2>3, <2>4, Zenon DEF n
<1>4. CASE ~IsRequest
  <2>1. n = 0 \/ n = 1 \/ n = 2
    BY <1>1, <1>2, <1>4
  <2>2. StartStates[1] = "ResponseVersion" /\ StartStates[2] = "Status"
        /\ StartStates[3] = "ResponseMessage"
    BY <1>4 DEF StartStates, ResponseStates
  <2>3. \/ startState = "ResponseVersion" /\ n = 0
        \/ startState = "Status" /\ n = 1
        \/ startState = "ResponseMessage" /\ n = 2
    BY ONLY <1>2, <2>1, <2>2
  <2>4. n \in Nat
    BY <2>1
  <2> QED BY ONLY <1>4, <2>3, <2>4, Zenon DEF n
<1> QED
  BY <1>3, <1>4

(* The word that is being read, and its separator.                         *)
StartWord(k, w, x) ==
    /\ Len(startLine) = k - 1 /\ IsWord(k, x, w)
    /\ Passed(k - 1) /\ startBuffer \in Texts /\ startBuffer \o Rest = From(k)
    /\ Lacks(startBuffer, x) /\ k \in 1 .. StartCount

LEMMA InStartWord ==
    ASSUME RunInv, ~InMessage
    PROVE  /\ pc \in {"start", "waiting"}
           /\ \/ IsRequest /\ startState = "Method" /\ StartWord(1, input.method, Sp)
              \/ IsRequest /\ startState = "Uri" /\ StartWord(2, input.uri, Sp) /\ StartFits
              \/ IsRequest /\ startState = "Version" /\ StartWord(3, Append(input.version, Cr), Lf)
              \/ ~IsRequest /\ startState = "ResponseVersion" /\ StartWord(1, input.version, Sp)
              \/ ~IsRequest /\ startState = "Status" /\ StartWord(2, Append(input.status, Cr), Lf)
<1>0. input \in Straight /\ StartLineInv /\ MessageUnbegun /\ StartPartInv
  BY DEF RunInv, StreamInv, StartInv
<1>1. /\ Passed(Len(startLine) + 1 - 1) /\ startBuffer \in Texts
      /\ startBuffer \o Rest = From(Len(startLine) + 1)
      /\ Lacks(startBuffer, IF startState \in {"Version", "Status"} THEN Lf ELSE Sp)
      /\ startState = "Uri" => StartFits
      /\ pc \in {"start", "waiting"}
  BY <1>0 DEF StartPartInv, MessageUnbegun, At, Texts
<1>2. StartCount = IF IsRequest THEN 3 ELSE 2
  BY <1>0, Counts
<1>3. CASE IsRequest /\ startState = "Method"
  <2>1. Len(startLine) = 0
    BY <1>0, <1>3, StartStateIs
  <2>2. StartWord(1, input.method, Sp)
    BY <1>0, <1>1, <1>2, <1>3, <2>1, StartWords DEF StartWord
  <2> QED BY <1>1, <1>3, <2>2
<1>4. CASE IsRequest /\ startState = "Uri"
  <2>1. Len(startLine) = 1
    BY <1>0, <1>4, StartStateIs
  <2>2. StartWord(2, input.uri, Sp)
    BY <1>0, <1>1, <1>2, <1>4, <2>1, StartWords DEF StartWord
  <2> QED BY <1>1, <1>4, <2>2
<1>5. CASE IsRequest /\ startState = "Version"
  <2>1. Len(startLine) = 2
    BY <1>0, <1>5, StartStateIs
  <2>2. StartWord(3, Append(input.version, Cr), Lf)
    BY <1>0, <1>1, <1>2, <1>5, <2>1, StartWords DEF StartWord
  <2> QED BY <1>1, <1>5, <2>2
<1>6. CASE ~IsRequest /\ startState = "ResponseVersion"
  <2>1. Len(startLine) = 0
    BY <1>0, <1>6, StartStateIs
  <2>2. StartWord(1, input.version, Sp)
    BY <1>0, <1>1, <1>2, <1>6, <2>1, StartWords DEF StartWord
  <2> QED BY <1>1, <1>6, <2>2
<1>7. CASE ~IsRequest /\ startState = "Status"
  <2>1. Len(startLine) = 1
    BY <1>0, <1>7, StartStateIs
  <2>2. StartWord(2, Append(input.status, Cr), Lf)
    BY <1>0, <1>1, <1>2, <1>7, <2>1, StartWords DEF StartWord
  <2> QED BY <1>1, <1>7, <2>2
<1> QED
  BY <1>0, <1>3, <1>4, <1>5, <1>6, <1>7, StartStateIs DEF InMessage

(* What is read of a word is no longer than it, more follows, and at its   *)
(* separator it is the word.                                               *)
LEMMA InWord ==
    ASSUME StreamInv, NEW k, NEW w, NEW x, NEW more, Begins(k, w, x, more),
           NEW read \in Texts, read \o Rest = From(k), Lacks(read, x)
    PROVE  Len(read) <= Len(w) /\ Rest # <<>> /\ Len(w) \in Nat /\ Len(read) \in Nat
<1>1. /\ x \in Symbols /\ w \in Seq(Symbols) /\ more \in Seq(Symbols) /\ Lacks(w, x)
      /\ read \o Rest = (w \o <<x>>) \o more
  BY DEF Begins, Texts
<1>2. Rest \in Seq(Symbols) /\ read \in Seq(Symbols)
  BY Unread DEF Texts
<1>3. Len(read) <= Len(w) /\ Rest # <<>>
  BY ONLY <1>1, <1>2, Lacks(read, x), WordBegins
<1> QED
  BY <1>1, <1>2, <1>3, LenProperties

(* A character of a word is read: it is the separator after the whole      *)
(* word, or one of the word.                                               *)
LEMMA WordStep ==
    ASSUME StreamInv, NextChar, Fixed, NEW k, NEW w, NEW x, NEW more, Begins(k, w, x, more),
           NEW read \in Texts, read \o Rest = From(k), Lacks(read, x)
    PROVE  /\ Char = x => read = w /\ Rest' = more
           /\ Char # x => Len(read) < Len(w) /\ Lacks(Append(read, Char), x)
<1>1. /\ x \in Symbols /\ w \in Seq(Symbols) /\ more \in Seq(Symbols) /\ Lacks(w, x)
      /\ From(k) = (w \o <<x>>) \o more
  BY DEF Begins, Texts
<1>2. Rest' \in Seq(Symbols) /\ read \in Seq(Symbols) /\ Char \in Symbols
  BY ReadsChar DEF Texts
<1>3. read \o (<<Char>> \o Rest') = (w \o <<x>>) \o more
  BY <1>1, AtNext
<1>4. Char = x => read = w /\ Rest' = more
  <2> SUFFICES ASSUME Char = x PROVE read = w /\ Rest' = more
    OBVIOUS
  <2>1. read \o (<<x>> \o Rest') = (w \o <<x>>) \o more
    BY <1>3
  <2> QED BY ONLY <1>1, <1>2, <2>1, Lacks(read, x), WordEnds
<1>5. Char # x => Len(read) < Len(w)
  BY ONLY <1>1, <1>2, <1>3, Lacks(read, x), WordGoesOn
<1>6. Char # x => Lacks(Append(read, Char), x)
  BY <1>1, <1>2, LacksAppend
<1> QED
  BY <1>4, <1>5, <1>6

(* The words of the start line read, one by one.                           *)
LEMMA StartGrow ==
    ASSUME RunInv, pc = "start", ~InMessage, Fixed, NextChar, StartGrows, UNCHANGED messageVars,
           Char # (IF startState \in {"Version", "Status"} THEN Lf ELSE Sp),
           startState = "Uri" => UriFits
    PROVE  ParseInv'
<1>0. StreamInv /\ StartLineInv /\ MessageUnbegun /\ StartPartInv
  BY DEF RunInv, StartInv
<1>1. /\ startBuffer' = Append(startBuffer, Char) /\ UNCHANGED <<startState, startLine, pc>>
      /\ startBuffer \in Texts
  BY <1>0 DEF StartGrows, Running, StartPartInv, At, Texts
<1>2. StreamInv' /\ Char \in Symbols
  BY <1>0, ReadsChar
<1>3. ~InMessage' /\ pc' = "start"
  BY <1>1 DEF InMessage
<1>4. StartLineInv'
  <2>1. StartCount' = StartCount /\ StartStates' = StartStates /\ IsRequest' = IsRequest /\ input' = input
    BY FixedKeeps DEF Fixed
  <2>2. InMessage' = InMessage
    BY <1>1 DEF InMessage
  <2> QED BY <1>0, <1>1, <2>1, <2>2 DEF StartLineInv
<1>5. MessageUnbegun'
  BY <1>0, <1>3 DEF MessageUnbegun, messageVars
<1>6. StartPartInv'
  <2>1. /\ Passed(Len(startLine) + 1 - 1) /\ startBuffer \o Rest = From(Len(startLine) + 1)
        /\ Lacks(startBuffer, IF startState \in {"Version", "Status"} THEN Lf ELSE Sp)
    BY <1>0 DEF StartPartInv, At
  <2>2. startBuffer' \in Texts /\ startBuffer' \o Rest' = From(Len(startLine) + 1)
        /\ Len(startBuffer') = Len(startBuffer) + 1 /\ Len(startBuffer) \in Nat
    BY <1>0, <1>1, <2>1, AtNext
  <2>3. At(Len(startLine) + 1, startBuffer)'
    BY <1>1, <2>1, <2>2, FixedKeeps DEF At, Texts
  <2>4. Lacks(startBuffer', IF startState \in {"Version", "Status"} THEN Lf ELSE Sp)
    BY <1>1, <1>2, <2>1, LacksAppend DEF Texts
  <2>5. startState = "Uri" => StartFits'
    BY <1>0, <2>2, LimitsAre DEF UriFits, StartFits, messageVars
  <2> QED BY <1>1, <2>3, <2>4, <2>5 DEF StartPartInv, Lacks
<1> QED
  BY <1>2, <1>3, <1>4, <1>5, <1>6
  DEF ParseInv, RunInv, StartInv, MessageInv, BuiltInv, ParsedAsSent

LEMMA StartLineNext ==
    ASSUME StartLineInv, input \in Straight, NEW word \in Texts
    PROVE  /\ Append(startLine, word) \in Seq(Texts)
           /\ Len(Append(startLine, word)) = Len(startLine) + 1
           /\ Append(startLine, word)[Len(startLine) + 1] = word
           /\ \A i \in 1 .. Len(startLine) : Append(startLine, word)[i] = startLine[i]
           /\ Len(startLine) \in Nat
<1>1. startLine \in Seq(Texts)
  BY DEF StartLineInv, Texts
<1> HIDE DEF Texts
<1> QED
  BY <1>1, AppendProperties, LenProperties

(* A part of the start line is right, and it is not the last.              *)
LEMMA StartPartNext ==
    ASSUME RunInv, pc = "start", ~InMessage, Fixed, NextChar, UNCHANGED messageVars,
           NEW after \in {"Uri", "Version", "Status"}, StartPart(after),
           NEW k \in 1 .. StartCount - 1, Len(startLine) = k - 1, after = StartStates[k + 1],
           startBuffer \in Texts, Rest' = From(k + 1), Passed(k - 1), Verdicts(input)[k] = "ok",
           IsRequest /\ k = 1 =>
               startBuffer = input.method /\ Len(input.method) = 1 /\ input.method[1][1] = "method"
    PROVE  ParseInv'
<1>0. /\ StreamInv /\ StartLineInv /\ MessageUnbegun /\ input \in Straight
      /\ StartCount \in Nat /\ k \in Nat /\ k <= StartCount - 1
  <2>1. StreamInv /\ StartLineInv /\ MessageUnbegun /\ input \in Straight
    BY DEF RunInv, StartInv, StreamInv
  <2>2. StartCount \in Nat
    BY <2>1, Counts
  <2> QED BY <2>1, <2>2
<1>1. /\ startLine' = Append(startLine, startBuffer) /\ startState' = after /\ startBuffer' = <<>>
      /\ pc' = "start"
  BY DEF StartPart, Running
<1>2. StreamInv' /\ Rest' \in Texts
  BY <1>0, ReadsChar
<1>3. ~InMessage'
  BY <1>1 DEF InMessage
<1>4. /\ StartCount' = StartCount /\ StartStates' = StartStates /\ IsRequest' = IsRequest
      /\ input' = input /\ limits' = limits
  BY FixedKeeps DEF Fixed
<1>5. /\ startLine' \in Seq(Texts) /\ Len(startLine') = k /\ startLine'[k] = startBuffer
      /\ \A i \in 1 .. k - 1 : startLine'[i] = startLine[i]
  <2>1. Len(startLine) + 1 = k
    BY <1>0
  <2> QED BY <1>0, <1>1, <2>1, StartLineNext
<1>6. StartLineInv'
  <2>1. Len(startLine') \in 0 .. StartCount /\ startState' = StartStates[Len(startLine') + 1]
    BY <1>0, <1>1, <1>5
  <2>2. ASSUME IsRequest
        PROVE  startLine'[1] = input.method /\ Len(input.method) = 1 /\ input.method[1][1] = "method"
    <3>1. CASE k = 1
      BY <1>5, <2>2, <3>1
    <3>2. CASE k # 1
      <4>1. 1 \in 1 .. k - 1 /\ Len(startLine) > 0
        BY <1>0, <3>2
      <4> QED BY <1>0, <1>5, <2>2, <4>1 DEF StartLineInv
    <3> QED BY <3>1, <3>2
  <2> QED BY <1>3, <1>4, <1>5, <2>1, <2>2 DEF StartLineInv, Texts
<1>7. MessageUnbegun'
  BY <1>0, <1>1 DEF MessageUnbegun, messageVars
<1>8. StartPartInv'
  <2>1. Passed(k)
    <3>1. k - 1 \in Nat /\ k - 1 + 1 = k
      BY <1>0
    <3> QED BY <3>1, PassedNext
  <2>2. <<>> \in Texts /\ <<>> \o Rest' = Rest' /\ \A x : Lacks(<<>>, x)
    BY <1>2, NothingRead
  <2>3. k + 1 - 1 = k
    BY <1>0
  <2>4. At(k + 1, <<>>)'
    BY <2>1, <2>2, <2>3, FixedKeeps DEF At, Texts
  <2>5. StartFits'
    <3>1. Len(startBuffer') = 0
      BY <1>1
    <3> QED BY <1>0, <1>4, <3>1, LimitsAre DEF StartFits
  <2>6. \A x : Lacks(startBuffer, x)'
    BY <1>1 DEF Lacks
  <2> QED BY <1>1, <1>5, <2>4, <2>5, <2>6 DEF StartPartInv
<1> QED
  BY <1>1, <1>2, <1>3, <1>6, <1>7, <1>8
  DEF ParseInv, RunInv, StartInv, MessageInv, BuiltInv, ParsedAsSent

(* Its last part is right: the message begins.                             *)
LEMMA StartLineRead ==
    ASSUME RunInv, pc = "start", ~InMessage, Fixed, NextChar, UNCHANGED messageVars,
           NEW l \in Texts, startLine' = Append(startLine, l),
           startState' = StartStates[StartCount + 1], Running, StartFits',
           Len(startLine) = StartCount - 1, Passed(StartCount - 1),
           Verdicts(input)[StartCount] = "ok", Rest' = From(StartCount + 1),
           IsRequest => l = input.version
    PROVE  ParseInv'
<1>0. StreamInv /\ StartLineInv /\ MessageUnbegun /\ input \in Straight
  BY DEF RunInv, StartInv, StreamInv
<1>1. StartCount = (IF IsRequest THEN 3 ELSE 2) /\ HeaderCount \in Nat
  BY <1>0, Counts
<1>2. StreamInv' /\ Rest' \in Texts /\ pc' = "start"
  BY <1>0, ReadsChar DEF Running
<1>3. InMessage' /\ startState' = (IF IsRequest THEN "Message" ELSE "ResponseMessage")
  <2>1. startState' = (IF IsRequest THEN "Message" ELSE "ResponseMessage")
    BY <1>1 DEF StartStates, RequestStates, ResponseStates
  <2> QED BY <2>1 DEF InMessage
<1>4. /\ StartCount' = StartCount /\ StartStates' = StartStates /\ IsRequest' = IsRequest
      /\ input' = input /\ limits' = limits /\ HeaderCount' = HeaderCount
  BY FixedKeeps DEF Fixed
<1>5. /\ startLine' \in Seq(Texts) /\ Len(startLine') = StartCount /\ startLine'[StartCount] = l
      /\ startLine'[1] = startLine[1] /\ Len(startLine) > 0
  <2>1. /\ startLine' \in Seq(Texts) /\ Len(startLine') = Len(startLine) + 1
        /\ startLine'[Len(startLine) + 1] = l
        /\ \A i \in 1 .. Len(startLine) : startLine'[i] = startLine[i]
    BY <1>0, StartLineNext
  <2>2. Len(startLine) + 1 = StartCount /\ Len(startLine) > 0 /\ 1 \in 1 .. Len(startLine)
    BY <1>1
  <2> QED BY <2>1, <2>2
<1>6. StartLineInv'
  <2>1. Len(startLine') \in 0 .. StartCount
    BY <1>1, <1>5
  <2>2. IsRequest => startLine'[1] = input.method /\ Len(input.method) = 1
                     /\ input.method[1][1] = "method" /\ startLine'[3] = input.version
    BY <1>0, <1>1, <1>5 DEF StartLineInv
  <2> QED BY <1>4, <1>5, <2>1, <2>2 DEF StartLineInv, Texts
<1>7. StartInv'
  BY <1>3, <1>6 DEF StartInv
<1>8. HeaderLineInv'
  <2>1. /\ headers' = <<>> /\ buffer' = <<>> /\ contentLength' = NoLength /\ isChunkBody' = isChunkBody
        /\ hostSet' = hostSet /\ canEof' = canEof /\ decodedBody' = <<>>
        /\ ~isChunkBody /\ ~hostSet /\ ~canEof
    BY <1>0 DEF MessageUnbegun, messageVars
  <2>2. Len(headers') = 0
    BY <2>1
  <2>3. HeadersSaid(0)'
    <3>1. SubSeq(input.headers, 1, 0) = <<>> /\ 0 \in 0 .. HeaderCount
      BY <1>1
    <3>2. \A i \in 1 .. 0 : FALSE
      OBVIOUS
    <3> QED BY <1>4, <2>1, <3>1, <3>2 DEF HeadersSaid, LengthSaid
  <2>4. /\ 0 + 1 = 1 /\ HeaderPart(1) = StartCount + 1 /\ StartCount + 1 - 1 = StartCount
        /\ StartCount - 1 \in Nat /\ StartCount - 1 + 1 = StartCount
    BY <1>1 DEF HeaderPart
  <2>5. Passed(StartCount)
    BY <2>4, PassedNext
  <2>6. <<>> \in Texts /\ <<>> \o Rest' = Rest' /\ \A x : Lacks(<<>>, x)
    BY <1>2, NothingRead
  <2>7. At(HeaderPart(1), <<>>)'
    BY <2>4, <2>5, <2>6, FixedKeeps DEF At, Texts
  <2>8. Lacks(buffer, Lf)'
    BY <2>1 DEF Lacks
  <2> QED BY <2>1, <2>2, <2>3, <2>4, <2>7, <2>8 DEF HeaderLineInv
<1>9. MessageInv'
  <2>1. state' = "HeaderLine"
    BY <1>0 DEF MessageUnbegun, messageVars
  <2> QED BY <1>2, <1>8, <2>1
          DEF MessageInv, InChunkState, BodyInv, ChunkSizeInv, ChunkDataInv, AppendInv
<1> QED
  BY <1>2, <1>7, <1>9 DEF ParseInv, RunInv, BuiltInv, ParsedAsSent

(* What the verdicts on the parts of the start line are.                   *)
LEMMA StartVerdictsAre ==
    ASSUME input \in Straight
    PROVE  /\ \A i \in 1 .. StartCount : i \in 1 .. Len(Verdicts(input))
           /\ IsRequest =>
                /\ Verdicts(input)[1] =
                    IF Len(input.method) > limits.buffer THEN "GenericExceededBuffer"
                    ELSE IF input.method[1][1] # "method" \/ Len(input.method) > 1
                         THEN "InvalidMethod" ELSE "ok"
                /\ Verdicts(input)[2] =
                    IF Len(input.uri) > limits.buffer THEN "UriExceededBuffer"
                    ELSE IF NotUri(input.uri) THEN "UriError" ELSE "ok"
                /\ Verdicts(input)[3] =
                    LineVerdict(input.version, Len(input.version) > 1, "UnsupportedVersion")
           /\ ~IsRequest =>
                /\ Verdicts(input)[1] =
                    IF Len(input.version) > limits.buffer THEN "GenericExceededBuffer"
                    ELSE IF Len(input.version) > 1 THEN "UnsupportedVersion" ELSE "ok"
                /\ Verdicts(input)[2] = LineVerdict(input.status, Len(input.status) = 1, "BadStatus")
<1>1. StartCount = IF IsRequest THEN 3 ELSE 2
  BY Counts
<1>2. \A i \in 1 .. StartCount : i \in 1 .. Len(Verdicts(input))
  <2>1. Len(Verdicts(input)) = StartCount + HeaderCount + 1 + Len(BodyVerdicts(input)) + 1
        /\ HeaderCount \in Nat /\ Len(BodyVerdicts(input)) \in Nat /\ StartCount \in Nat
    BY <1>1, VerdictsAre, Counts DEF BodyPart
  <2> QED BY <2>1
<1>3. \A i \in 1 .. StartCount : Verdicts(input)[i] = StartVerdicts(input)[i]
  BY VerdictsAre
<1>4. CASE IsRequest
  <2>1. 1 \in 1 .. StartCount /\ 2 \in 1 .. StartCount /\ 3 \in 1 .. StartCount
    BY <1>1, <1>4
  <2>2. NotUri(input.uri) <=>
            \E k \in DOMAIN input.uri : input.uri[k][1] \in {"junk", "cr", "lf"}
    BY DEF NotUri, Has
  <2> QED BY <1>2, <1>3, <1>4, <2>1, <2>2 DEF StartVerdicts, IsRequest
<1>5. CASE ~IsRequest
  <2>1. 1 \in 1 .. StartCount /\ 2 \in 1 .. StartCount
    BY <1>1, <1>5
  <2> QED BY <1>2, <1>3, <1>5, <2>1 DEF StartVerdicts, IsRequest
<1> QED
  BY <1>4, <1>5

(* A part is answered with what is wrong about it.                         *)
LEMMA Throws ==
    ASSUME StreamInv, Fixed, NEW error, Throw(error), NEW k \in 1 .. Len(Verdicts(input)),
           Passed(k - 1), Verdicts(input)[k] = error, error \in VerdictNames \ {"ok"}
    PROVE  ParseInv'
<1>1. pc' = "done" /\ outcome' = error
  BY DEF Throw
<1>2. ParsedAsSent'
  BY <1>1, Answered DEF StreamInv
<1> QED
  BY <1>1, <1>2 DEF ParseInv

(* The text ends in a part that must have more.                            *)
LEMMA ThrowsEof ==
    ASSUME StreamInv, NextFinished, Fixed,
           Throw("UnexpectedEof") \/ Throw("BadOptionalAccess"),
           Rest # <<>>
    PROVE  ParseInv'
<1>1. pc' = "done" /\ outcome' \in {"UnexpectedEof", "BadOptionalAccess"}
  BY DEF Throw
<1>2. closes /\ ~Whole
  BY ReadsEnd
<1>3. ParsedAsSent'
  BY <1>1, <1>2, FixedKeeps DEF ParsedAsSent, Fixed
<1> QED
  BY <1>1, <1>3 DEF ParseInv

(* What the invariant says while a word of the start line is read.         *)
LEMMA StartWordFacts ==
    ASSUME StreamInv, NEW k, NEW w, NEW x, StartWord(k, w, x)
    PROVE  /\ k \in 1 .. StartCount /\ k \in 1 .. Len(Verdicts(input)) /\ Passed(k - 1)
           /\ startBuffer \in Texts /\ Len(startLine) = k - 1
           /\ Len(startBuffer) <= Len(w) /\ Len(w) \in Nat /\ Len(startBuffer) \in Nat
           /\ Rest # <<>>
<1>1. /\ k \in 1 .. StartCount /\ Passed(k - 1) /\ startBuffer \in Texts /\ Len(startLine) = k - 1
      /\ Begins(k, w, x, From(k + 1)) /\ startBuffer \o Rest = From(k) /\ Lacks(startBuffer, x)
  BY DEF StartWord, IsWord
<1>2. Len(startBuffer) <= Len(w) /\ Rest # <<>> /\ Len(w) \in Nat /\ Len(startBuffer) \in Nat
  BY <1>1, InWord
<1> QED
  BY <1>1, <1>2, StartVerdictsAre DEF StreamInv

(* What a character does to it.                                            *)
LEMMA StartWordStep ==
    ASSUME StreamInv, NextChar, Fixed, NEW k, NEW w, NEW x, StartWord(k, w, x)
    PROVE  /\ Char = x => startBuffer = w /\ Rest' = From(k + 1)
           /\ Char # x => Len(startBuffer) < Len(w)
<1>1. Begins(k, w, x, From(k + 1)) /\ startBuffer \o Rest = From(k) /\ Lacks(startBuffer, x)
      /\ startBuffer \in Texts
  BY DEF StartWord, IsWord
<1> QED
  BY <1>1, WordStep

(* A line with its return.                                                 *)
LEMMA WithReturn ==
    ASSUME NEW l \in Texts, Lacks(l, Lf)
    PROVE  /\ Len(Append(l, Cr)) = Len(l) + 1 /\ Len(l) \in Nat
           /\ Front(Append(l, Cr)) = l /\ Last(Append(l, Cr)) = Cr /\ Append(l, Cr) # <<>>
<1>1. /\ Len(Append(l, Cr)) = Len(l) + 1 /\ Len(l) \in Nat
      /\ Front(Append(l, Cr)) = l /\ Last(Append(l, Cr)) = Cr
  BY LineIsWord, LenProperties DEF Texts
<1>2. Append(l, Cr) # <<>>
  BY <1>1
<1> QED
  BY <1>1, <1>2

-----------------------------------------------------------------------------
(* The steps of the start line.                                            *)

(* The actions of the start line, one by one: a word that is longer than   *)
(* the buffer may be.                                                      *)
LEMMA StartExceedsBufferStep ==
    ASSUME RunInv, StartExceedsBuffer, UNCHANGED input
    PROVE  ParseInv'
<1>0. /\ pc = "start" /\ ~StartFits /\ Throw("GenericExceededBuffer") /\ Fixed /\ StreamInv
      /\ input \in Straight
  BY DEF StartExceedsBuffer, RunInv, StreamInv, Fixed, streamVars, messageVars
<1>1. ~InMessage
  BY <1>0 DEF RunInv, StartInv
<1>2. limits.buffer \in Nat /\ \A n \in Nat : n = Len(startBuffer) => n > limits.buffer
  BY <1>0, LimitsAre DEF StartFits
<1>3. ASSUME NEW k, NEW w, NEW x, StartWord(k, w, x),
             Len(w) > limits.buffer => Verdicts(input)[k] = "GenericExceededBuffer"
      PROVE  ParseInv'
  <2>1. Len(w) > limits.buffer
    BY <1>0, <1>2, <1>3, StartWordFacts
  <2> QED BY <1>0, <1>3, <2>1, StartWordFacts, Throws DEF VerdictNames
<1>4. ASSUME NEW l \in Texts, Lacks(l, Lf), NEW wrong, NEW error, Len(Append(l, Cr)) > limits.buffer
      PROVE  LineVerdict(l, wrong, error) = "GenericExceededBuffer"
  BY <1>2, <1>4, WithReturn DEF LineVerdict
<1>5. CASE IsRequest /\ startState = "Method" /\ StartWord(1, input.method, Sp)
  <2>1. Len(input.method) > limits.buffer => Verdicts(input)[1] = "GenericExceededBuffer"
    BY <1>0, <1>5, StartVerdictsAre
  <2> QED BY <1>3, <1>5, <2>1
<1>6. CASE IsRequest /\ startState = "Version" /\ StartWord(3, Append(input.version, Cr), Lf)
  <2>1. input.version \in Texts /\ Lacks(input.version, Lf)
    BY <1>0, <1>6, StartPartsAre DEF IsRequest
  <2>2. Len(Append(input.version, Cr)) > limits.buffer => Verdicts(input)[3] = "GenericExceededBuffer"
    BY <1>0, <1>4, <1>6, <2>1, StartVerdictsAre
  <2> QED BY <1>3, <1>6, <2>2
<1>7. CASE ~IsRequest /\ startState = "ResponseVersion" /\ StartWord(1, input.version, Sp)
  <2>1. Len(input.version) > limits.buffer => Verdicts(input)[1] = "GenericExceededBuffer"
    BY <1>0, <1>7, StartVerdictsAre
  <2> QED BY <1>3, <1>7, <2>1
<1>8. CASE ~IsRequest /\ startState = "Status" /\ StartWord(2, Append(input.status, Cr), Lf)
  <2>1. input.status \in Texts /\ Lacks(input.status, Lf)
    BY <1>0, <1>8, StartPartsAre DEF IsRequest
  <2>2. Len(Append(input.status, Cr)) > limits.buffer => Verdicts(input)[2] = "GenericExceededBuffer"
    BY <1>0, <1>4, <1>8, <2>1, StartVerdictsAre
  <2> QED BY <1>3, <1>8, <2>2
<1> QED
  BY <1>0, <1>1, <1>5, <1>6, <1>7, <1>8, InStartWord

(* The method, and in the same way the target.                             *)
LEMMA RequestMethodStep ==
    ASSUME RunInv, IsRequest, RequestMethod, UNCHANGED input
    PROVE  ParseInv'
<1>0. /\ pc = "start" /\ startState = "Method" /\ StartFits /\ NextChar /\ UNCHANGED messageVars
      /\ Fixed /\ StreamInv /\ input \in Straight /\ ~InMessage
  BY DEF RequestMethod, InStart, RunInv, StreamInv, Fixed, NextChar, messageVars, InMessage
<1>1. StartWord(1, input.method, Sp)
  BY <1>0, InStartWord
<1>2. CASE Char # Sp /\ StartGrows
  <2>1. Char # (IF startState \in {"Version", "Status"} THEN Lf ELSE Sp)
    BY <1>0, <1>2
  <2> QED BY <1>0, <1>2, <2>1, StartGrow
<1>3. CASE Char = Sp /\ Word("method") /\ StartPart("Uri")
  <2>1. startBuffer = input.method /\ Rest' = From(2)
    BY <1>0, <1>1, <1>3, StartWordStep
  <2>2. Len(input.method) = 1 /\ input.method[1][1] = "method" /\ Len(input.method) <= limits.buffer
    BY <1>0, <1>3, <2>1 DEF Word, StartFits
  <2>3. Verdicts(input)[1] = "ok"
    BY <1>0, <2>2, LimitsAre, StartVerdictsAre
  <2>4. StartCount = 3 /\ StartStates[2] = "Uri"
    BY <1>0, Counts DEF StartStates, RequestStates
  <2>5. Len(startLine) = 0 /\ Passed(0) /\ startBuffer \in Texts
    BY <1>0, <1>1, StartWordFacts
  <2> QED BY <1>0, <1>3, <2>1, <2>2, <2>3, <2>4, <2>5, StartPartNext
<1>4. CASE Char = Sp /\ ~Word("method") /\ StartThrows("InvalidMethod")
  <2>1. startBuffer = input.method
    BY <1>0, <1>1, <1>4, StartWordStep
  <2>2. Len(input.method) <= limits.buffer /\ input.method # <<>> /\ input.method \in Texts
    BY <1>0, <2>1, StartPartsAre DEF StartFits, IsRequest
  <2>3. Len(input.method) \in Nat \ {0}
    BY <2>2, LenProperties, EmptySeq DEF Texts
  <2>4. Verdicts(input)[1] = "InvalidMethod"
    <3>a. Len(input.method) # 1 => Len(input.method) > 1
      <4>1. \A n \in Nat \ {0} : n # 1 => n > 1
        OBVIOUS
      <4> QED BY <2>3, <4>1, Zenon
    <3>1. input.method[1][1] # "method" \/ Len(input.method) > 1
      BY <1>4, <2>1, <3>a DEF Word
    <3> QED BY <1>0, <2>2, <2>3, <3>1, LimitsAre, StartVerdictsAre
  <2> QED BY <1>0, <1>1, <1>4, <2>4, StartWordFacts, Throws DEF StartThrows, VerdictNames
<1> QED
  BY <1>2, <1>3, <1>4 DEF RequestMethod

LEMMA RequestUriStep ==
    ASSUME RunInv, IsRequest, RequestUri, UNCHANGED input
    PROVE  ParseInv'
<1>0. /\ pc = "start" /\ startState = "Uri" /\ StartFits /\ NextChar /\ UNCHANGED messageVars
      /\ Fixed /\ StreamInv /\ input \in Straight /\ ~InMessage
  BY DEF RequestUri, InStart, RunInv, StreamInv, Fixed, NextChar, messageVars, InMessage
<1>1. StartWord(2, input.uri, Sp)
  BY <1>0, InStartWord
<1>2. CASE Char # Sp /\ UriFits /\ StartGrows
  <2>1. Char # (IF startState \in {"Version", "Status"} THEN Lf ELSE Sp)
    BY <1>0, <1>2
  <2> QED BY <1>0, <1>2, <2>1, StartGrow
<1>3. CASE Char # Sp /\ ~UriFits /\ StartThrows("UriExceededBuffer")
  <2>1. Len(startBuffer) < Len(input.uri)
    BY <1>0, <1>1, <1>3, StartWordStep
  <2>2. Len(input.uri) > limits.buffer
    BY <1>0, <1>1, <1>3, <2>1, StartWordFacts, LimitsAre DEF UriFits
  <2>3. Verdicts(input)[2] = "UriExceededBuffer"
    BY <1>0, <2>2, StartVerdictsAre
  <2> QED BY <1>0, <1>1, <1>3, <2>3, StartWordFacts, Throws DEF StartThrows, VerdictNames
<1>4. CASE Char = Sp /\ ~NotUri(startBuffer) /\ StartPart("Version")
  <2>1. startBuffer = input.uri /\ Rest' = From(3)
    BY <1>0, <1>1, <1>4, StartWordStep
  <2>2. ~(Len(input.uri) > limits.buffer)
    BY <1>0, <1>1, <2>1, LimitsAre, StartWordFacts DEF StartFits
  <2>3. Verdicts(input)[2] = "ok"
    BY <1>0, <1>4, <2>1, <2>2, StartVerdictsAre
  <2>4. StartCount = 3 /\ StartStates[3] = "Version"
    BY <1>0, Counts DEF StartStates, RequestStates
  <2>5. Len(startLine) = 1 /\ Passed(1) /\ startBuffer \in Texts
    <3>1. 2 - 1 = 1
      OBVIOUS
    <3> QED BY <1>0, <1>1, <3>1, StartWordFacts
  <2>6. 2 \in 1 .. StartCount - 1 /\ 2 - 1 = 1 /\ 2 + 1 = 3 /\ 2 # 1
    BY <2>4
  <2> QED BY <1>0, <1>4, <2>1, <2>3, <2>4, <2>5, <2>6, StartPartNext
<1>5. CASE Char = Sp /\ NotUri(startBuffer) /\ StartThrows("UriError")
  <2>1. startBuffer = input.uri
    BY <1>0, <1>1, <1>5, StartWordStep
  <2>2. ~(Len(input.uri) > limits.buffer)
    BY <1>0, <1>1, <2>1, LimitsAre, StartWordFacts DEF StartFits
  <2>3. Verdicts(input)[2] = "UriError"
    BY <1>0, <1>5, <2>1, <2>2, StartVerdictsAre
  <2> QED BY <1>0, <1>1, <1>5, <2>3, StartWordFacts, Throws DEF StartThrows, VerdictNames
<1> QED
  BY <1>2, <1>3, <1>4, <1>5 DEF RequestUri

(* At a line feed the line is whole, with its return.                      *)
LEMMA StartLineStep ==
    ASSUME StreamInv, NextChar, Fixed, NEW k, NEW l \in Texts, Lacks(l, Lf),
           StartWord(k, Append(l, Cr), Lf)
    PROVE  /\ StartLineEnds <=> Char = Lf
           /\ StartLineEnds => Front(startBuffer) = l /\ Rest' = From(k + 1)
                               /\ Len(startBuffer) = Len(l) + 1 /\ Len(l) \in Nat
<1>1. Char = Lf => startBuffer = Append(l, Cr) /\ Rest' = From(k + 1)
  BY StartWordStep
<1> QED
  BY <1>1, WithReturn DEF StartLineEnds

(* The version ends the start line of a request, and begins that of a      *)
(* response.                                                               *)
LEMMA RequestVersionStep ==
    ASSUME RunInv, IsRequest, RequestVersion, UNCHANGED input
    PROVE  ParseInv'
<1> DEFINE l == input.version
<1>0. /\ pc = "start" /\ startState = "Version" /\ StartFits /\ NextChar /\ UNCHANGED messageVars
      /\ Fixed /\ StreamInv /\ input \in Straight /\ ~InMessage
  BY DEF RequestVersion, InStart, RunInv, StreamInv, Fixed, NextChar, messageVars, InMessage
<1>1. StartWord(3, Append(l, Cr), Lf)
  BY <1>0, InStartWord
<1>2. l \in Texts /\ Lacks(l, Lf) /\ l[1][1] = "version" /\ l # <<>>
  BY <1>0, StartPartsAre DEF IsRequest
<1>3. CASE ~StartLineEnds /\ StartGrows
  <2>1. Char # Lf
    BY <1>0, <1>1, <1>2, <1>3, StartLineStep
  <2>2. Char # (IF startState \in {"Version", "Status"} THEN Lf ELSE Sp)
    BY <1>0, <2>1
  <2> QED BY <1>0, <1>3, <2>2, StartGrow
<1>4. CASE StartLineEnds
  <2>1. Front(startBuffer) = l /\ Rest' = From(4) /\ Len(startBuffer) = Len(l) + 1
        /\ Len(l) \in Nat \ {0}
    <3>1. Front(startBuffer) = l /\ Rest' = From(3 + 1) /\ Len(startBuffer) = Len(l) + 1 /\ Len(l) \in Nat
      BY <1>0, <1>1, <1>2, <1>4, StartLineStep
    <3>2. Len(l) # 0
      BY <1>2, EmptySeq DEF Texts
    <3> QED BY <3>1, <3>2
  <2>2. Len(l) < limits.buffer /\ limits.buffer \in Nat
    BY <1>0, <2>1, LimitsAre DEF StartFits
  <2>3. Verdicts(input)[3] = IF Len(l) > 1 THEN "UnsupportedVersion" ELSE "ok"
    <3>1. Verdicts(input)[3] = LineVerdict(l, Len(l) > 1, "UnsupportedVersion")
      BY <1>0, StartVerdictsAre
    <3>2. ~(Len(l) >= limits.buffer)
      BY <2>1, <2>2
    <3> QED BY <3>1, <3>2 DEF LineVerdict
  <2>4. CASE Len(l) = 1
    <3>1. startLine' = Append(startLine, l) /\ startBuffer' = l /\ startState' = "Message" /\ Running
      BY <1>2, <1>4, <2>1, <2>4 DEF RequestVersion
    <3>2. StartFits'
      <4>1. Len(startBuffer') = Len(l) /\ limits' = limits
        BY <1>0, <3>1 DEF messageVars
      <4> QED BY <2>1, <2>2, <4>1 DEF StartFits
    <3>3. StartCount = 3 /\ StartStates[4] = "Message" /\ 3 - 1 = 2 /\ 3 + 1 = 4
      BY <1>0, Counts DEF StartStates, RequestStates
    <3>4. Len(startLine) = 3 - 1 /\ Passed(3 - 1)
      BY <1>0, <1>1, StartWordFacts
    <3>5. Verdicts(input)[3] = "ok"
      BY <2>3, <2>4
    <3>6. l = input.version
      OBVIOUS
    <3> HIDE DEF l
    <3> QED BY <1>0, <1>2, <2>1, <3>1, <3>2, <3>3, <3>4, <3>5, <3>6, StartLineRead
  <2>5. CASE Len(l) # 1
    <3>1. StartThrows("UnsupportedVersion")
      BY <1>4, <2>1, <2>5 DEF RequestVersion
    <3>2. Len(l) > 1
      <4>1. \A n \in Nat \ {0} : n # 1 => n > 1
        OBVIOUS
      <4> QED BY <2>1, <2>5, <4>1, Zenon
    <3>3. Verdicts(input)[3] = "UnsupportedVersion"
      BY <2>3, <3>2
    <3> HIDE DEF l
    <3> QED BY <1>0, <1>1, <3>1, <3>3, StartWordFacts, Throws DEF StartThrows, VerdictNames
  <2> QED BY <2>4, <2>5
<1> QED
  BY <1>3, <1>4 DEF RequestVersion

LEMMA ResponseVersionStep ==
    ASSUME RunInv, ~IsRequest, ResponseVersion, UNCHANGED input
    PROVE  ParseInv'
<1>0. /\ pc = "start" /\ startState = "ResponseVersion" /\ StartFits /\ NextChar
      /\ UNCHANGED messageVars /\ Fixed /\ StreamInv /\ input \in Straight /\ ~InMessage
  BY DEF ResponseVersion, InStart, RunInv, StreamInv, Fixed, NextChar, messageVars, InMessage
<1>1. StartWord(1, input.version, Sp)
  BY <1>0, InStartWord
<1>2. CASE Char # Sp /\ StartGrows
  <2>1. Char # (IF startState \in {"Version", "Status"} THEN Lf ELSE Sp)
    BY <1>0, <1>2
  <2> QED BY <1>0, <1>2, <2>1, StartGrow
<1>3. CASE Char = Sp
  <2>1. startBuffer = input.version /\ Rest' = From(2)
    BY <1>0, <1>1, <1>3, StartWordStep
  <2>2. /\ Len(input.version) <= limits.buffer /\ input.version # <<>> /\ input.version \in Texts
        /\ input.version[1][1] = "version"
    BY <1>0, <2>1, Counts, StartPartsAre DEF StartFits, IsRequest
  <2>3. Len(input.version) \in Nat \ {0}
    BY <2>2, LenProperties, EmptySeq DEF Texts
  <2>4. Verdicts(input)[1] = IF Len(input.version) > 1 THEN "UnsupportedVersion" ELSE "ok"
    BY <1>0, <2>2, <2>3, LimitsAre, StartVerdictsAre
  <2>5. CASE Word("version")
    <3>1. Len(input.version) = 1
      BY <2>1, <2>5 DEF Word
    <3>2. Verdicts(input)[1] = "ok"
      BY <2>4, <3>1
    <3>3. StartCount = 2 /\ StartStates[2] = "Status"
      BY <1>0, Counts DEF StartStates, ResponseStates
    <3>4. Len(startLine) = 0 /\ Passed(0) /\ startBuffer \in Texts
      BY <1>0, <1>1, StartWordFacts
    <3>5. StartPart("Status")
      BY <1>3, <2>5 DEF ResponseVersion
    <3> QED BY <1>0, <2>1, <3>2, <3>3, <3>4, <3>5, StartPartNext
  <2>6. CASE ~Word("version")
    <3>1. Len(input.version) # 1
      BY <2>1, <2>2, <2>6 DEF Word
    <3>2. Len(input.version) > 1
      <4>1. \A n \in Nat \ {0} : n # 1 => n > 1
        OBVIOUS
      <4> QED BY <2>3, <3>1, <4>1, Zenon
    <3>3. Verdicts(input)[1] = "UnsupportedVersion"
      BY <2>4, <3>2
    <3>4. StartThrows("UnsupportedVersion")
      BY <1>3, <2>6 DEF ResponseVersion
    <3> QED BY <1>0, <1>1, <3>3, <3>4, StartWordFacts, Throws DEF StartThrows, VerdictNames
  <2> QED BY <2>5, <2>6
<1> QED
  BY <1>2, <1>3 DEF ResponseVersion

LEMMA ResponseStatusStep ==
    ASSUME RunInv, ~IsRequest, ResponseStatus, UNCHANGED input
    PROVE  ParseInv'
<1> DEFINE l == input.status
<1>0. /\ pc = "start" /\ startState = "Status" /\ StartFits /\ NextChar /\ UNCHANGED messageVars
      /\ Fixed /\ StreamInv /\ input \in Straight /\ ~InMessage
  BY DEF ResponseStatus, InStart, RunInv, StreamInv, Fixed, NextChar, messageVars, InMessage
<1>1. StartWord(2, Append(l, Cr), Lf)
  BY <1>0, InStartWord
<1>2. /\ l \in Texts /\ Lacks(l, Lf) /\ l[1][1] = "code" /\ l # <<>>
      /\ Len(l) > 1 => l[2] = Sp
  BY <1>0, Counts, StartPartsAre DEF IsRequest
<1>3. CASE ~StartLineEnds /\ StartGrows
  <2>1. Char # Lf
    BY <1>0, <1>1, <1>2, <1>3, StartLineStep
  <2>2. Char # (IF startState \in {"Version", "Status"} THEN Lf ELSE Sp)
    BY <1>0, <2>1
  <2> QED BY <1>0, <1>3, <2>2, StartGrow
<1>4. CASE StartLineEnds
  <2>1. Front(startBuffer) = l /\ Rest' = From(3) /\ Len(startBuffer) = Len(l) + 1
        /\ Len(l) \in Nat \ {0}
    <3>1. Front(startBuffer) = l /\ Rest' = From(2 + 1) /\ Len(startBuffer) = Len(l) + 1 /\ Len(l) \in Nat
      BY <1>0, <1>1, <1>2, <1>4, StartLineStep
    <3>2. Len(l) # 0
      BY <1>2, EmptySeq DEF Texts
    <3> QED BY <3>1, <3>2
  <2>2. Len(l) < limits.buffer /\ limits.buffer \in Nat
    BY <1>0, <2>1, LimitsAre DEF StartFits
  <2>3. Verdicts(input)[2] = IF Len(l) = 1 THEN "BadStatus" ELSE "ok"
    <3>1. Verdicts(input)[2] = LineVerdict(l, Len(l) = 1, "BadStatus")
      BY <1>0, StartVerdictsAre
    <3>2. ~(Len(l) >= limits.buffer)
      BY <2>1, <2>2
    <3> QED BY <3>1, <3>2 DEF LineVerdict
  <2>4. CASE Len(l) # 1
    <3>0. Len(l) > 1
      <4>1. \A n \in Nat \ {0} : n # 1 => n > 1
        OBVIOUS
      <4> QED BY <2>1, <2>4, <4>1, Zenon
    <3>1. startLine' = Append(startLine, l) /\ startBuffer' = <<Lf>> /\ startState' = "ResponseMessage"
          /\ Running
      <4>1. StatusLine(Front(startBuffer))
        BY <1>2, <2>1, <3>0 DEF StatusLine
      <4> QED BY <1>4, <2>1, <4>1 DEF ResponseStatus
    <3>2. StartFits'
      <4>1. Len(startBuffer') = 1 /\ limits' = limits
        BY <1>0, <3>1 DEF messageVars
      <4> QED BY <2>1, <2>2, <4>1 DEF StartFits
    <3>3. StartCount = 2 /\ StartStates[3] = "ResponseMessage" /\ 2 - 1 = 1 /\ 2 + 1 = 3
      BY <1>0, Counts DEF StartStates, ResponseStates
    <3>4. Len(startLine) = 2 - 1 /\ Passed(2 - 1)
      BY <1>0, <1>1, StartWordFacts
    <3>5. Verdicts(input)[2] = "ok"
      BY <2>3, <2>4
    <3> HIDE DEF l
    <3> QED BY <1>0, <1>2, <2>1, <3>1, <3>2, <3>3, <3>4, <3>5, StartLineRead
  <2>5. CASE Len(l) = 1
    <3>1. ~StatusLine(Front(startBuffer))
      BY <2>1, <2>5 DEF StatusLine
    <3>2. StartThrows("BadStatus")
      BY <1>4, <3>1 DEF ResponseStatus
    <3>3. Verdicts(input)[2] = "BadStatus"
      BY <2>3, <2>5
    <3> HIDE DEF l
    <3> QED BY <1>0, <1>1, <3>2, <3>3, StartWordFacts, Throws DEF StartThrows, VerdictNames
  <2> QED BY <2>4, <2>5
<1> QED
  BY <1>3, <1>4 DEF ResponseStatus

(* A step that reads nothing of the text and leaves what is parsed alone.  *)
SameParse ==
    /\ UNCHANGED <<startVars, limits, state, buffer, headers, contentLength, isChunkBody,
                   hostSet, lastChunkSize, decodedBody, canEof>>
    /\ pc' \in {"start", "message", "waiting"}
    /\ pc' = "message" => InMessage /\ (hasBody' <=> TakesBody(input))
    /\ ~IsRequest /\ hasBody => hasBody'
    /\ ~InMessage => hasBody' = hasBody

LEMMA ParseKeeps ==
    ASSUME RunInv, Fixed, StreamInv', Rest' = Rest, SameParse, pc # "built"
    PROVE  ParseInv'
<1>0. /\ UNCHANGED <<startState, startBuffer, startLine, limits, state, buffer, headers,
                     contentLength, isChunkBody, hostSet, lastChunkSize, decodedBody, canEof, input>>
      /\ StartInv /\ MessageInv
  BY DEF SameParse, startVars, RunInv, Fixed
<1>1. /\ pc' \in {"start", "message", "waiting"}
      /\ InMessage' = InMessage
      /\ pc' = "message" => InMessage' /\ (hasBody' <=> TakesBody(input))
  BY <1>0 DEF SameParse, InMessage
<1>2. /\ StartCount' = StartCount /\ HeaderCount' = HeaderCount /\ StartStates' = StartStates
      /\ TakesBody(input)' = TakesBody(input) /\ IsRequest' = IsRequest
  BY FixedKeeps
<1>3. \A k : /\ From(k)' = From(k) /\ Passed(k)' = Passed(k)
             /\ HeaderPart(k)' = HeaderPart(k) /\ BodyPart(k)' = BodyPart(k)
  BY FixedKeeps
<1>4. StartLineInv'
  BY <1>0, <1>1, <1>2 DEF StartInv, StartLineInv
<1>5. ~InMessage' => MessageUnbegun' /\ StartPartInv'
  <2> SUFFICES ASSUME ~InMessage PROVE MessageUnbegun' /\ StartPartInv'
    BY <1>1
  <2>1. MessageUnbegun /\ StartPartInv
    BY <1>0 DEF StartInv
  <2>2. MessageUnbegun'
    BY <1>0, <1>1, <2>1 DEF MessageUnbegun, SameParse
  <2>3. StartFits' = StartFits
    BY <1>0 DEF StartFits
  <2>4. At(Len(startLine) + 1, startBuffer)'
    BY <1>0, <1>3, <2>1 DEF StartPartInv, At
  <2>5. StartPartInv'
    BY <1>0, <2>1, <2>3, <2>4 DEF StartPartInv, Lacks
  <2> QED BY <2>2, <2>5
<1>6. InMessage' => StartFits'
  BY <1>0, <1>1 DEF StartInv, StartFits
<1>7. MessageInv'
  <2> SUFFICES ASSUME InMessage PROVE MessageInv'
    BY <1>1 DEF MessageInv
  <2>1. /\ state \in {"HeaderLine", "Body", "ChunkedBodySize", "ChunkedBodyData", "AppendToBody"}
        /\ ~IsRequest /\ state # "HeaderLine" => hasBody
        /\ state # "HeaderLine" => TakesBody(input) /\ HeadersSaid(HeaderCount)
        /\ InChunkState => ~canEof /\ input.framing \in {"chunked", "longChunk", "badSize"}
        /\ HeaderLineInv /\ BodyInv /\ ChunkSizeInv /\ ChunkDataInv /\ AppendInv
    BY <1>0 DEF MessageInv
  <2>2. \A n : HeadersSaid(n)' <=> HeadersSaid(n)
    BY <1>0, <1>2 DEF HeadersSaid, LengthSaid
  <2>4. HeaderLineInv'
    BY <1>0, <1>3, <2>1, <2>2 DEF HeaderLineInv, At, Lacks
  <2>5. BodyInv'
    BY <1>0, <1>3, <2>1 DEF BodyInv, At
  <2>6. ChunkSizeInv'
    BY <1>0, <1>3, <2>1 DEF ChunkSizeInv, At, Lacks
  <2>7. ChunkDataInv'
    BY <1>0, <1>3, <2>1 DEF ChunkDataInv, At, IsChunk
  <2>8. AppendInv'
    BY <1>0, <1>3, <2>1 DEF AppendInv, At
  <2>9. /\ InChunkState' = InChunkState
        /\ ~IsRequest /\ hasBody => hasBody'
    BY <1>0 DEF InChunkState, SameParse
  <2>10. HeadersSaid(HeaderCount)' <=> HeadersSaid(HeaderCount)
    BY <1>0, <1>2 DEF HeadersSaid, LengthSaid
  <2> QED BY <1>0, <1>1, <1>2, <2>1, <2>4, <2>5, <2>6, <2>7, <2>8, <2>9, <2>10 DEF MessageInv
<1> QED
  BY <1>1, <1>4, <1>5, <1>6, <1>7 DEF ParseInv, RunInv, StartInv, BuiltInv, ParsedAsSent

(* The n-th header line, or the empty one after the last.                  *)
HeaderWord(n) == IF n = HeaderCount THEN <<>> ELSE input.headers[n + 1]

LEMMA HeaderWordIs ==
    ASSUME input \in Straight, NEW n \in 0 .. HeaderCount
    PROVE  /\ HeaderWord(n) \in Texts /\ Lacks(HeaderWord(n), Lf)
           /\ Begins(HeaderPart(n + 1), Append(HeaderWord(n), Cr), Lf, From(HeaderPart(n + 2)))
           /\ HeaderPart(n + 1) \in 1 .. Len(Verdicts(input)) /\ HeaderPart(n + 1) - 1 \in Nat
           /\ HeaderPart(n + 1) + 1 = HeaderPart(n + 2)
           /\ n = HeaderCount => HeaderPart(n + 2) = BodyPart(1)
           /\ n \in Nat
           /\ Verdicts(input)[HeaderPart(n + 1)] =
                IF n = HeaderCount THEN LineVerdict(<<>>, FALSE, "ok") ELSE HeaderVerdict(input, n + 1)
<1>1. /\ StartCount \in Nat \ {0} /\ HeaderCount \in Nat /\ n \in Nat /\ n <= HeaderCount
      /\ Len(BodyVerdicts(input)) \in Nat
      /\ Len(Verdicts(input)) = StartCount + HeaderCount + 1 + Len(BodyVerdicts(input)) + 1
  <2>1. StartCount \in Nat \ {0} /\ HeaderCount \in Nat
    BY Counts
  <2> QED BY <2>1, VerdictsAre DEF BodyPart
<1>2. /\ HeaderPart(n + 1) = StartCount + n + 1 /\ HeaderPart(n + 2) = StartCount + n + 2
      /\ BodyPart(1) = StartCount + HeaderCount + 2
  BY <1>1 DEF HeaderPart, BodyPart
<1>3. /\ HeaderPart(n + 1) \in 1 .. Len(Verdicts(input)) /\ HeaderPart(n + 1) - 1 \in Nat
      /\ HeaderPart(n + 1) + 1 = HeaderPart(n + 2)
      /\ n = HeaderCount => HeaderPart(n + 2) = BodyPart(1)
  BY <1>1, <1>2
<1>4. CASE n = HeaderCount
  <2>1. HeaderWord(n) = <<>>
    BY <1>4 DEF HeaderWord
  <2>2. <<>> \in Texts /\ Lacks(<<>>, Lf) /\ Append(<<>>, Cr) = <<Cr>>
    BY DEF Texts, Lacks
  <2>3. IsWord(HeaderPart(n + 1), Lf, <<Cr>>)
    BY <1>4, HeaderWords
  <2>4. Verdicts(input)[HeaderPart(n + 1)] = LineVerdict(<<>>, FALSE, "ok")
    BY <1>4, VerdictsAre
  <2> QED BY <1>1, <1>3, <1>4, <2>1, <2>2, <2>3, <2>4 DEF IsWord
<1>5. CASE n # HeaderCount
  <2>1. n + 1 \in 1 .. HeaderCount /\ HeaderWord(n) = input.headers[n + 1]
    BY <1>1, <1>5 DEF HeaderWord
  <2>2. input.headers[n + 1] \in Texts /\ Lacks(input.headers[n + 1], Lf)
    BY <2>1, HeadersAreLines DEF HeaderCount
  <2>3. IsWord(HeaderPart(n + 1), Lf, Append(input.headers[n + 1], Cr))
    BY <2>1, HeaderWords
  <2>4. Verdicts(input)[HeaderPart(n + 1)] = HeaderVerdict(input, n + 1)
    BY <2>1, VerdictsAre
  <2> QED BY <1>1, <1>3, <1>5, <2>1, <2>2, <2>3, <2>4 DEF IsWord
<1> QED
  BY <1>4, <1>5

(* The size line of the i-th chunk, and what comes after it.               *)
ChunkLine(i) ==
    IF input.framing = "badSize" THEN BadSizeLine
    ELSE SizeLine(IF input.framing = "longChunk" THEN 1
                  ELSE IF i \in 1 .. Len(input.ends) THEN Size(input, i) ELSE 0)

ChunkMore(i) ==
    IF input.framing = "longChunk" THEN Data(0, 3)
    ELSE IF input.framing = "chunked" /\ i \in 1 .. Len(input.ends)
    THEN (Data(Before(input, i), input.ends[i]) \o Crlf) \o From(BodyPart(i + 1))
    ELSE From(BodyPart(i) + 1)

LEMMA ChunkLineIs ==
    ASSUME input \in Straight, NEW i \in 1 .. Len(input.ends) + 1,
           i = 1 \/ input.framing = "chunked",
           input.framing \in {"chunked", "longChunk", "badSize"}
    PROVE  /\ ChunkLine(i) \in Texts /\ Lacks(ChunkLine(i), Lf)
           /\ Begins(BodyPart(i), Append(ChunkLine(i), Cr), Lf, ChunkMore(i))
<1>1. CASE input.framing = "longChunk"
  <2>1. ChunkLine(i) = SizeLine(1) /\ ChunkMore(i) = Data(0, 3)
    BY <1>1 DEF ChunkLine, ChunkMore
  <2> QED BY <1>1, <2>1, SizeLineIs, BodyWords
<1>2. CASE input.framing = "badSize"
  <2>1. ChunkLine(i) = BadSizeLine /\ ChunkMore(i) = From(BodyPart(1) + 1)
    BY <1>2 DEF ChunkLine, ChunkMore
  <2> QED BY <1>2, <2>1, BadSizeLineIs, BodyWords DEF IsWord
<1>3. CASE input.framing = "chunked" /\ i \in 1 .. Len(input.ends)
  <2>1. /\ ChunkLine(i) = SizeLine(Size(input, i))
        /\ ChunkMore(i) = (Data(Before(input, i), input.ends[i]) \o Crlf) \o From(BodyPart(i + 1))
    BY <1>3 DEF ChunkLine, ChunkMore
  <2>2. Size(input, i) \in Nat
    BY <1>3, ChunkIs
  <2> QED BY <1>3, <2>1, <2>2, SizeLineIs, BodyWords
<1>4. CASE input.framing = "chunked" /\ i \notin 1 .. Len(input.ends)
  <2>1. ChunkLine(i) = SizeLine(0) /\ ChunkMore(i) = From(BodyPart(i) + 1)
    BY <1>4 DEF ChunkLine, ChunkMore
  <2>2. i = Len(input.ends) + 1
    BY <1>4, EndsAre
  <2> QED BY <1>4, <2>1, <2>2, SizeLineIs, BodyWords DEF IsWord
<1> QED
  BY <1>1, <1>2, <1>3, <1>4

(* The units of the i-th chunk with the line end, and what comes after it. *)
ChunkEnd(i) ==
    IF input.framing = "longChunk" THEN Data(0, 3)
    ELSE Data(Before(input, i), input.ends[i]) \o Crlf

ChunkAfter(i) == IF input.framing = "longChunk" THEN <<>> ELSE From(BodyPart(i + 1))

(* The i-th chunk is read up to some symbol, and the rest follows.         *)
ReadsChunk(i, size, before, read, rest) ==
    /\ i \in 1 .. Len(input.ends) + 1 /\ IsChunk(i, size, before)
    /\ read \in Texts /\ rest \in Texts
    /\ ((SizeLine(size) \o Crlf) \o read) \o rest = From(BodyPart(i))

ChunkFollows(i, size, more) ==
    /\ more = ChunkEnd(i) \o ChunkAfter(i)
    /\ ChunkEnd(i) \in Texts /\ ChunkAfter(i) \in Texts /\ Len(ChunkEnd(i)) = size + 2
    /\ size \in Nat

LEMMA ChunkIsThere ==
    ASSUME input \in Straight, NEW i, NEW size, NEW before, NEW read, NEW rest,
           ReadsChunk(i, size, before, read, rest)
    PROVE  ChunkFollows(i, size, read \o rest)
<1>a. /\ i \in 1 .. Len(input.ends) + 1 /\ IsChunk(i, size, before)
      /\ read \in Texts /\ rest \in Texts
      /\ ((SizeLine(size) \o Crlf) \o read) \o rest = From(BodyPart(i))
  BY DEF ReadsChunk
<1> USE <1>a
<1>0. Crlf \in Seq(Symbols) /\ Len(Crlf) = 2
  BY SymbolsAre
<1>1. /\ size \in Nat /\ before \in Nat /\ ChunkLine(i) = SizeLine(size)
      /\ i = 1 \/ input.framing = "chunked"
      /\ input.framing \in {"chunked", "longChunk"}
  <2>1. CASE input.framing = "longChunk"
    BY <2>1 DEF IsChunk, ChunkLine
  <2>2. CASE input.framing # "longChunk"
    <3>1. /\ input.framing = "chunked" /\ i \in 1 .. Len(input.ends)
          /\ size = Size(input, i) /\ before = Before(input, i)
      BY <2>2 DEF IsChunk
    <3>2. size \in Nat /\ before \in Nat
      BY <3>1, ChunkIs
    <3>3. ChunkLine(i) = SizeLine(size)
      BY <3>1 DEF ChunkLine
    <3> QED BY <3>1, <3>2, <3>3
  <2> QED BY <2>1, <2>2
<1>2. /\ ChunkEnd(i) \in Texts /\ ChunkAfter(i) \in Texts /\ Len(ChunkEnd(i)) = size + 2
      /\ ChunkMore(i) = ChunkEnd(i) \o ChunkAfter(i)
  <2>1. CASE input.framing = "longChunk"
    <3> DEFINE d == Data(0, 3)
    <3>1. ChunkEnd(i) = d /\ ChunkAfter(i) = <<>> /\ ChunkMore(i) = d
      BY <2>1 DEF ChunkEnd, ChunkAfter, ChunkMore
    <3>2. size = 1
      BY <2>1 DEF IsChunk
    <3>3. d \in Seq(Symbols) /\ Len(d) = 3
      BY DataFirst
    <3> HIDE DEF d
    <3>4. d \o <<>> = d
      BY <3>3, ConcatEmptySeq
    <3> QED BY <3>1, <3>2, <3>3, <3>4 DEF Texts
  <2>2. CASE input.framing = "chunked"
    <3> DEFINE d == Data(Before(input, i), input.ends[i])
    <3>1. i \in 1 .. Len(input.ends) /\ size = Size(input, i)
      BY <2>2 DEF IsChunk
    <3>2. ChunkEnd(i) = d \o Crlf /\ ChunkAfter(i) = From(BodyPart(i + 1))
          /\ ChunkMore(i) = (d \o Crlf) \o From(BodyPart(i + 1))
      BY <2>2, <3>1 DEF ChunkEnd, ChunkAfter, ChunkMore
    <3>3. From(BodyPart(i + 1)) \in Texts
      BY <2>2, <3>1, BodyWords
    <3>4. d \in Seq(Symbols) /\ Len(d) = size
      <4>1. /\ Before(input, i) \in Nat /\ input.ends[i] \in Nat /\ Before(input, i) <= input.ends[i]
            /\ size = input.ends[i] - Before(input, i)
        BY <2>2, <3>1, ChunkIs DEF Size
      <4> QED BY <4>1, DataIs
    <3> HIDE DEF d
    <3>5. d \o Crlf \in Seq(Symbols) /\ Len(d \o Crlf) = Len(d) + Len(Crlf)
      BY <1>0, <3>4, Concat
    <3> QED BY <1>0, <1>1, <3>2, <3>3, <3>4, <3>5 DEF Texts
  <2> QED BY <1>1, <2>1, <2>2
<1> DEFINE s == SizeLine(size)
           w == Append(s, Cr)
           head == s \o Crlf
<1>3. s \in Seq(Symbols) /\ Lacks(s, Lf)
  BY <1>1, SizeLineIs DEF Texts
<1>4. From(BodyPart(i)) = (w \o <<Lf>>) \o ChunkMore(i)
  BY <1>1, ChunkLineIs DEF Begins
<1> HIDE DEF s
<1>5. head = w \o <<Lf>> /\ head \in Seq(Symbols)
  BY <1>3, LineIsWord
<1>6. (head \o read) \o rest = From(BodyPart(i))
  BY DEF s
<1> HIDE DEF head, w
<1>7. read \in Seq(Symbols) /\ rest \in Seq(Symbols) /\ ChunkMore(i) \in Seq(Symbols)
  <2>1. read \in Seq(Symbols) /\ rest \in Seq(Symbols)
    BY DEF Texts
  <2>2. ChunkMore(i) \in Texts
    BY <1>1, ChunkLineIs DEF Begins
  <2> QED BY <2>1, <2>2 DEF Texts
<1>8. (head \o read) \o rest = head \o (read \o rest)
  <2>1. head \in Seq(Symbols) /\ read \in Seq(Symbols) /\ rest \in Seq(Symbols)
    BY ONLY <1>5, <1>7
  <2> QED BY ONLY <2>1, ConcatAssociative
<1>9. head \o (read \o rest) = head \o ChunkMore(i)
  BY <1>4, <1>5, <1>6, <1>8
<1>10. read \o rest \in Seq(Symbols)
  BY <1>7, ConcatProperties
<1>11. read \o rest = ChunkMore(i)
  <2> DEFINE z == read \o rest
             y == ChunkMore(i)
  <2>1. head \in Seq(Symbols) /\ z \in Seq(Symbols) /\ y \in Seq(Symbols) /\ head \o z = head \o y
    BY ONLY <1>5, <1>7, <1>9, <1>10
  <2> HIDE DEF z, y
  <2>2. z = y
    BY ONLY <2>1, SplitSame
  <2> QED BY <2>2 DEF z, y
<1> QED
  BY <1>1, <1>2, <1>11 DEF ChunkFollows

(* More of the message follows, unless its body ends with the stream.      *)
LEMMA MoreFollows ==
    ASSUME RunInv, InMessage, pc # "built"
    PROVE  Rest # <<>> \/ (state = "Body" /\ canEof /\ EndsAtEof(input))
<1>0. /\ StreamInv /\ input \in Straight
      /\ state \in {"HeaderLine", "Body", "ChunkedBodySize", "ChunkedBodyData", "AppendToBody"}
      /\ state # "HeaderLine" => TakesBody(input)
      /\ InChunkState => input.framing \in {"chunked", "longChunk", "badSize"}
      /\ HeaderLineInv /\ BodyInv /\ ChunkSizeInv /\ ChunkDataInv /\ AppendInv
  BY DEF RunInv, MessageInv, StreamInv
<1>a. Rest \in Texts /\ Len(<<>>) = 0
  BY <1>0, Unread
<1>1. CASE state = "HeaderLine"
  <2> DEFINE n == Len(headers)
  <2>1. n \in 0 .. HeaderCount /\ buffer \in Texts /\ buffer \o Rest = From(HeaderPart(n + 1))
        /\ Lacks(buffer, Lf)
    BY <1>0, <1>1 DEF HeaderLineInv, HeadersSaid, At, Texts
  <2>2. Begins(HeaderPart(n + 1), Append(HeaderWord(n), Cr), Lf, From(HeaderPart(n + 2)))
    <3> HIDE DEF n
    <3> QED BY <1>0, <2>1, HeaderWordIs
  <2> HIDE DEF n
  <2> QED BY <1>0, <2>1, <2>2, InWord
<1>2. CASE state = "Body"
  <2>1. CASE input.framing = "eof"
    BY <1>0, <1>2, <2>1 DEF BodyInv, EndsAtEof
  <2>2. CASE input.framing # "eof"
    <3>1. /\ input.framing = "length" /\ Len(buffer) < BodySize(input)
          /\ buffer \in Seq(Symbols) /\ buffer \o Rest = From(BodyPart(1))
      BY <1>0, <1>2, <2>2 DEF BodyInv, At
    <3>2. From(BodyPart(1)) = Data(0, BodySize(input))
      BY <1>0, <3>1, BodyWords
    <3>3. BodySize(input) \in Nat /\ Rest \in Seq(Symbols)
      BY <1>0, <1>a, EndsAre DEF Texts
    <3>4. Len(Rest) = BodySize(input) - Len(buffer)
      <4> DEFINE m == BodySize(input)
                 r == Rest
      <4>1. m \in Nat /\ buffer \in Seq(Symbols) /\ r \in Seq(Symbols) /\ buffer \o r = Data(0, m)
        BY <3>1, <3>2, <3>3
      <4> HIDE DEF m, r
      <4>2. Len(r) = m - Len(buffer)
        BY ONLY <4>1, DataBegins
      <4> QED BY <4>2 DEF m, r
    <3>5. Len(buffer) \in Nat
      BY <3>1, LenProperties
    <3>6. Len(Rest) # 0
      <4> HIDE DEF Rest
      <4> QED BY <3>1, <3>3, <3>4, <3>5
    <3> QED BY <1>a, <3>6
  <2> QED BY <2>1, <2>2
<1>3. CASE state = "ChunkedBodySize"
  <2>0. input.framing \in {"chunked", "longChunk", "badSize"}
    BY <1>0, <1>3 DEF InChunkState
  <2>1. PICK i \in 1 .. Len(input.ends) + 1 :
          /\ i = 1 \/ input.framing = "chunked"
          /\ At(BodyPart(i), buffer)
          /\ Lacks(buffer, Lf)
    BY <1>0, <1>3 DEF ChunkSizeInv
  <2>2. Begins(BodyPart(i), Append(ChunkLine(i), Cr), Lf, ChunkMore(i))
    BY <1>0, <2>0, <2>1, ChunkLineIs
  <2>3. buffer \in Texts /\ buffer \o Rest = From(BodyPart(i))
    BY <2>1 DEF At, Texts
  <2> QED BY <1>0, <2>1, <2>2, <2>3, InWord
<1>4. CASE state = "ChunkedBodyData"
  <2>1. PICK i \in 1 .. Len(input.ends) + 1 :
          /\ IsChunk(i, lastChunkSize, Len(decodedBody))
          /\ buffer \in Seq(Symbols)
          /\ At(BodyPart(i), SizeLine(lastChunkSize) \o Crlf \o buffer)
          /\ Len(buffer) < lastChunkSize + 2
    BY <1>0, <1>4 DEF ChunkDataInv
  <2>2. ((SizeLine(lastChunkSize) \o Crlf) \o buffer) \o Rest = From(BodyPart(i))
    BY <2>1 DEF At
  <2>3. /\ buffer \o Rest = ChunkEnd(i) \o ChunkAfter(i)
        /\ ChunkEnd(i) \in Texts /\ ChunkAfter(i) \in Texts
        /\ Len(ChunkEnd(i)) = lastChunkSize + 2 /\ lastChunkSize \in Nat
    <3>1. buffer \in Texts
      BY <2>1 DEF Texts
    <3> DEFINE b == Len(decodedBody)
               rest == Rest
    <3>2. /\ IsChunk(i, lastChunkSize, b) /\ rest \in Texts
          /\ ((SizeLine(lastChunkSize) \o Crlf) \o buffer) \o rest = From(BodyPart(i))
      BY <1>a, <2>1, <2>2
    <3> HIDE DEF b, rest
    <3>3. /\ buffer \o rest = ChunkEnd(i) \o ChunkAfter(i)
          /\ ChunkEnd(i) \in Texts /\ ChunkAfter(i) \in Texts
          /\ Len(ChunkEnd(i)) = lastChunkSize + 2 /\ lastChunkSize \in Nat
      <4>1. input \in Straight /\ ReadsChunk(i, lastChunkSize, b, buffer, rest)
        BY <1>0, <2>1, <3>1, <3>2 DEF ReadsChunk
      <4>2. ChunkFollows(i, lastChunkSize, buffer \o rest)
        BY ONLY <4>1, ChunkIsThere
      <4> QED BY ONLY <4>2 DEF ChunkFollows
    <3> QED BY <3>3 DEF rest
  <2> DEFINE r == Rest
             e == ChunkEnd(i)
             f == ChunkAfter(i)
  <2>4. r \in Seq(Symbols) /\ e \in Seq(Symbols) /\ f \in Seq(Symbols) /\ buffer \o r = e \o f
    BY <1>a, <2>3 DEF Texts
  <2>5. Len(e) = lastChunkSize + 2 /\ Len(buffer) < lastChunkSize + 2
    BY <2>1, <2>3
  <2> HIDE DEF r, e, f
  <2>6. Len(buffer \o r) = Len(buffer) + Len(r) /\ Len(buffer) \in Nat /\ Len(r) \in Nat
    BY ONLY <2>1, <2>4, Concat
  <2>7. Len(e \o f) = Len(e) + Len(f) /\ Len(f) \in Nat
    BY ONLY <2>4, Concat
  <2>8. Len(r) # 0
    BY <2>3, <2>4, <2>5, <2>6, <2>7
  <2> QED BY <1>a, <2>8 DEF r
<1>5. CASE state = "AppendToBody"
  <2>1. PICK i \in 1 .. Len(input.ends) : At(BodyPart(i + 1), <<>>) /\ input.framing = "chunked"
    BY <1>0, <1>5 DEF AppendInv
  <2>2. i + 1 \in 1 .. Len(input.ends) + 1
    BY <1>0, EndsAre
  <2>3. Begins(BodyPart(i + 1), Append(ChunkLine(i + 1), Cr), Lf, ChunkMore(i + 1))
    BY <1>0, <2>1, <2>2, ChunkLineIs
  <2>4. <<>> \in Texts /\ <<>> \o Rest = From(BodyPart(i + 1)) /\ Lacks(<<>>, Lf)
    BY <2>1 DEF At, Texts, Lacks
  <2> QED BY <1>0, <2>3, <2>4, InWord
<1> QED
  BY <1>0, <1>1, <1>2, <1>3, <1>4, <1>5

-----------------------------------------------------------------------------
(* The steps that read nothing.                                            *)
LEMMA StartPendingStep ==
    ASSUME RunInv, StartPending, UNCHANGED input
    PROVE  ParseInv'
<1>1. /\ pc = "start" /\ pc' = "waiting" /\ UNCHANGED startVars /\ UNCHANGED messageVars /\ Fixed
      /\ UNCHANGED <<taken, chars, lastChar, finished>> /\ StreamInv
  BY DEF StartPending, NextPending, RunInv, Fixed, messageVars
<1>2. StreamInv' /\ Rest' = Rest
  BY <1>1, ReadsNothing
<1>3. SameParse
  BY <1>1 DEF SameParse, messageVars
<1> QED
  BY <1>1, <1>2, <1>3, ParseKeeps

LEMMA MessagePendingStep ==
    ASSUME RunInv, InMessage, MessagePending, UNCHANGED <<input, startVars>>
    PROVE  ParseInv'
<1>1. /\ pc = "message" /\ pc' = "waiting" /\ UNCHANGED startVars /\ UNCHANGED messageVars /\ Fixed
      /\ UNCHANGED <<taken, chars, lastChar, finished>> /\ StreamInv
  BY DEF MessagePending, NextPending, RunInv, Fixed, messageVars
<1>2. StreamInv' /\ Rest' = Rest
  BY <1>1, ReadsNothing
<1>3. SameParse
  BY <1>1 DEF SameParse, messageVars
<1> QED
  BY <1>1, <1>2, <1>3, ParseKeeps

LEMMA AppendPendingStep ==
    ASSUME RunInv, InMessage, AppendPending, UNCHANGED <<input, startVars>>
    PROVE  ParseInv'
<1>1. /\ pc = "message" /\ pc' = "waiting" /\ UNCHANGED startVars /\ UNCHANGED messageVars /\ Fixed
      /\ NextCharShiftBack /\ StreamInv
  BY DEF AppendPending, InState, NextCharShiftBack, RunInv, Fixed, messageVars
<1>2. StreamInv' /\ Rest' = Rest
  BY <1>1, ReadsAndGivesBack
<1>3. SameParse
  BY <1>1 DEF SameParse, messageVars
<1> QED
  BY <1>1, <1>2, <1>3, ParseKeeps

(* A timer of the connection fires.                                        *)
LEMMA FiresStep ==
    ASSUME RunInv, Fires
    PROVE  ParseInv'
<1>1. /\ pc = "waiting" /\ pc' = "start" /\ Fixed /\ StreamInv
      /\ UNCHANGED <<taken, chars, lastChar, finished>>
  BY DEF Fires, DescriptorFires, streamVars, RunInv, Fixed
<1>2. StreamInv' /\ Rest' = Rest
  BY <1>1, ReadsNothing
<1>3. SameParse
  BY <1>1 DEF SameParse, Fires
<1> QED
  BY <1>1, <1>2, <1>3, ParseKeeps

(* The start line is whole: the parser of the message begins.              *)
LEMMA RequestMessageStep ==
    ASSUME RunInv, IsRequest, RequestMessage, UNCHANGED input
    PROVE  ParseInv'
<1>1. /\ pc = "start" /\ startState = "Message" /\ pc' = "message" /\ hasBody' = MethodHasBody
      /\ NextCharShiftBack /\ StreamInv /\ StartLineInv /\ input \in Straight /\ Fixed
  BY DEF RequestMessage, InStart, NextCharShiftBack, RunInv, StartInv, StreamInv, Fixed
<1>2. StreamInv' /\ Rest' = Rest
  BY <1>1, ReadsAndGivesBack
<1>3. InMessage
  BY <1>1 DEF InMessage
<1>4. MethodHasBody <=> TakesBody(input)
  <2>1. Len(startLine) = 3
    BY <1>1, StartStateIs
  <2>2. startLine[1] = input.method /\ Len(input.method) = 1 /\ input.method[1][1] = "method"
    BY <1>1, <2>1 DEF StartLineInv
  <2>3. input.method[1] \in Kinds \X Nat
    <3>1. input.method \in Seq(Symbols)
      BY <1>1, StartPartsAre DEF IsRequest, Texts
    <3> QED BY <2>2, <3>1 DEF Symbols
  <2>4. PICK n \in Nat : input.method[1] = <<"method", n>>
    BY <2>2, <2>3
  <2>5. <<"method", n>> = <<"method", 1>> <=> n = 1
    OBVIOUS
  <2>6. <<"method", n>>[2] = n
    OBVIOUS
  <2> QED BY <2>2, <2>4, <2>5, <2>6 DEF MethodHasBody, TakesBody, IsRequest
<1>5. SameParse
  BY <1>1, <1>3, <1>4 DEF SameParse, RequestMessage
<1> QED
  BY <1>1, <1>2, <1>5, ParseKeeps

LEMMA ResponseMessageStep ==
    ASSUME RunInv, ~IsRequest, ResponseMessage, UNCHANGED input
    PROVE  ParseInv'
<1>1. /\ pc = "start" /\ startState = "ResponseMessage" /\ pc' = "message" /\ hasBody' = TRUE
      /\ NextCharShiftBack /\ StreamInv /\ input \in Straight /\ Fixed
  BY DEF ResponseMessage, InStart, NextCharShiftBack, RunInv, StreamInv, Fixed
<1>2. StreamInv' /\ Rest' = Rest
  BY <1>1, ReadsAndGivesBack
<1>3. InMessage /\ TakesBody(input)
  BY <1>1, Counts DEF InMessage, TakesBody
<1>4. SameParse
  BY <1>1, <1>3 DEF SameParse, ResponseMessage
<1> QED
  BY <1>1, <1>2, <1>4, ParseKeeps

(* While the start line is read or the message waited for, more of it      *)
(* follows.                                                                *)
LEMMA StartMoreFollows ==
    ASSUME RunInv, pc = "start"
    PROVE  Rest # <<>> \/ (InMessage /\ state = "Body" /\ EndsAtEof(input))
<1>1. StreamInv
  BY DEF RunInv
<1>2. CASE InMessage
  BY <1>2, MoreFollows
<1>3. CASE ~InMessage
  <2>1. PICK k, w, x : StartWord(k, w, x)
    BY <1>3, InStartWord
  <2> QED BY <1>1, <2>1, StartWordFacts
<1> QED
  BY <1>2, <1>3

(* The stream ends while the start line is read.                           *)
LEMMA RequestFinishedStep ==
    ASSUME RunInv, IsRequest, RequestFinished, UNCHANGED input
    PROVE  ParseInv'
<1>1. pc = "start" /\ NextFinished /\ Throw("UnexpectedEof") /\ Fixed /\ StreamInv
  BY DEF RequestFinished, NextFinished, RunInv, Fixed, messageVars
<1>2. ~EndsAtEof(input)
  BY <1>1, StraightAre DEF StreamInv, Undetermined, IsRequest
<1> QED
  BY <1>1, <1>2, StartMoreFollows, ThrowsEof

LEMMA ResponseFinishedStep ==
    ASSUME RunInv, ~IsRequest, ResponseFinished, UNCHANGED input
    PROVE  ParseInv'
<1>1. /\ pc = "start" /\ NextFinished /\ Fixed /\ StreamInv /\ UNCHANGED messageVars
      /\ UNCHANGED startVars /\ StartInv /\ MessageInv /\ input \in Straight
  BY DEF ResponseFinished, NextFinished, RunInv, StreamInv, Fixed, messageVars
<1>2. CASE hasBody /\ pc' = "message"
  <2>1. StreamInv' /\ Rest' = Rest
    BY <1>1, ReadsEnd
  <2>2. InMessage /\ TakesBody(input)
    BY <1>1, <1>2, Counts DEF StartInv, MessageUnbegun, TakesBody
  <2>3. SameParse
    BY <1>1, <1>2, <2>2 DEF SameParse, messageVars
  <2> QED BY <1>1, <2>1, <2>3, ParseKeeps
<1>3. CASE ~hasBody /\ Throw("BadOptionalAccess")
  <2>1. ~InMessage \/ state = "HeaderLine"
    BY <1>1, <1>3 DEF MessageInv
  <2>2. Rest # <<>>
    BY <1>1, <2>1, StartMoreFollows
  <2> QED BY <1>1, <1>3, <2>2, ThrowsEof
<1> QED
  BY <1>2, <1>3 DEF ResponseFinished

(* A message that is built has what was sent, but perhaps not its host.    *)
LEMMA HostVerdictIs ==
    ASSUME RunInv, pc = "built"
    PROVE  LET k == Len(Verdicts(input))
           IN  /\ k \in 1 .. k /\ k - 1 \in Nat /\ Passed(k - 1)
               /\ Verdicts(input)[k] = HostVerdict(input)
               /\ headers = input.headers /\ body = SentBody(input)
               /\ hostSet <=> Given(input, "host") # {}
<1> DEFINE k == Len(Verdicts(input))
<1>1. /\ input \in Straight /\ Passed(k - 1) /\ HeadersSaid(HeaderCount) /\ body = SentBody(input)
  BY DEF RunInv, StreamInv, BuiltInv
<1>2. k = BodyPart(Len(BodyVerdicts(input))) + 1 /\ Verdicts(input)[k] = HostVerdict(input)
  BY <1>1, VerdictsAre
<1>3. k \in Nat \ {0}
  <2>1. StartCount \in Nat /\ HeaderCount \in Nat /\ Len(BodyVerdicts(input)) \in Nat
    <3>1. StartCount \in Nat /\ HeaderCount \in Nat
      BY <1>1, Counts
    <3> QED BY <1>1, <3>1, VerdictsAre
  <2> QED BY <1>2, <2>1 DEF BodyPart
<1>4. headers = input.headers
  <2>1. headers = SubSeq(input.headers, 1, Len(input.headers))
    BY <1>1 DEF HeadersSaid, HeaderCount
  <2>2. input.headers \in Seq({input.headers[i] : i \in DOMAIN input.headers})
    BY <1>1, StraightAre DEF HeadersAre
  <2> DEFINE h == input.headers
             S == {input.headers[i] : i \in DOMAIN input.headers}
  <2>3. h \in Seq(S)
    BY <2>2
  <2> HIDE DEF h, S
  <2>4. SubSeq(h, 1, Len(h)) = h
    <3>1. Len(h) \in Nat
      BY <2>3, LenProperties
    <3>2. \A i \in 1 .. Len(h) : h[i] \in S
      BY <2>3
    <3> DEFINE t == SubSeq(h, 1, Len(h))
    <3>3. t \in Seq(S) /\ Len(t) = (IF 1 <= Len(h) THEN Len(h) - 1 + 1 ELSE 0)
          /\ \A i \in 1 .. Len(h) - 1 + 1 : t[i] = h[1 + i - 1]
      BY <3>1, <3>2, SubSeqProperties
    <3> HIDE DEF t
    <3>4. Len(t) = Len(h)
      BY <3>1, <3>3
    <3>5. \A i \in 1 .. Len(t) : t[i] = h[i]
      <4> SUFFICES ASSUME NEW i \in 1 .. Len(t) PROVE t[i] = h[i]
        OBVIOUS
      <4>1. i \in 1 .. Len(h) - 1 + 1 /\ 1 + i - 1 = i
        BY <3>1, <3>4
      <4> QED BY <3>3, <4>1
    <3>6. t = h
      BY <2>3, <3>3, <3>4, <3>5, SeqEqual
    <3> QED BY <3>6 DEF t
  <2> QED BY <2>1, <2>4 DEF h
<1>5. hostSet <=> Given(input, "host") # {}
  <2>1. Given(input, "host") \subseteq 1 .. HeaderCount
    BY <1>1, Counts DEF Given
  <2> QED BY <1>1, <2>1 DEF HeadersSaid
<1> QED
  BY <1>1, <1>2, <1>3, <1>4, <1>5

LEMMA Completes ==
    ASSUME RunInv, pc = "built", Fixed, UNCHANGED <<headers, body>>, Throw("Completed"),
           HostVerdict(input) = "ok"
    PROVE  ParseInv'
<1>1. pc' = "done" /\ outcome' = "Completed" /\ input \in Straight
  BY DEF Throw, RunInv, StreamInv
<1> DEFINE k == Len(Verdicts(input))
<1>2. /\ k \in 1 .. k /\ k - 1 \in Nat /\ Passed(k - 1) /\ Verdicts(input)[k] = "ok"
      /\ headers = input.headers /\ body = SentBody(input)
  BY HostVerdictIs
<1>3. Passed(k)
  <2>1. k - 1 + 1 = k
    BY <1>2
  <2> HIDE DEF k
  <2> QED BY <1>2, <2>1, PassedNext
<1>4. Expected(input) = "Completed"
  BY <1>1, <1>3, NoWrongPart
<1>5. ParsedAsSent'
  BY <1>1, <1>2, <1>4, FixedKeeps DEF ParsedAsSent, Fixed
<1> QED
  BY <1>1, <1>5 DEF ParseInv

(* The request, and the response, is built of the start line and the       *)
(* message.                                                                *)
LEMMA RequestBuiltStep ==
    ASSUME RunInv, InMessage, IsRequest, RequestBuilt, UNCHANGED input
    PROVE  ParseInv'
<1>1. /\ pc = "built" /\ Throw(IF NeedsHost /\ ~hostSet THEN "MalformedMessage" ELSE "Completed")
      /\ Fixed /\ UNCHANGED <<headers, body>> /\ StreamInv /\ StartLineInv /\ input \in Straight
  BY DEF RequestBuilt, RunInv, StartInv, StreamInv, Fixed, streamVars, messageVars
<1>2. startLine[3] = input.version
  BY <1>1 DEF StartLineInv
<1>3. NeedsHost <=> input.version[1][2] = 1
  <2>1. input.version \in Seq(Symbols) /\ input.version # <<>> /\ input.version[1][1] = "version"
    BY <1>1, StartPartsAre DEF IsRequest, Texts
  <2>2. input.version[1] \in Kinds \X Nat
    <3>1. 1 \in 1 .. Len(input.version)
      BY <2>1, EmptySeq, LenProperties
    <3> QED BY <2>1, <3>1 DEF Symbols
  <2>3. PICK n \in Nat : input.version[1] = <<"version", n>>
    BY <2>1, <2>2
  <2>4. (<<"version", n>> = <<"version", 1>> <=> n = 1) /\ <<"version", n>>[2] = n
    OBVIOUS
  <2> QED BY <1>2, <2>3, <2>4 DEF NeedsHost
<1>4. hostSet <=> Given(input, "host") # {}
  BY <1>1, HostVerdictIs
<1>5. CASE NeedsHost /\ ~hostSet
  <2>1. HostVerdict(input) = "MalformedMessage" /\ Throw("MalformedMessage")
    BY <1>1, <1>3, <1>4, <1>5 DEF HostVerdict, IsRequest
  <2> DEFINE k == Len(Verdicts(input))
  <2>2. k \in 1 .. Len(Verdicts(input)) /\ Passed(k - 1) /\ Verdicts(input)[k] = "MalformedMessage"
    BY <1>1, <2>1, HostVerdictIs
  <2> HIDE DEF k
  <2> QED BY <1>1, <2>1, <2>2, Throws DEF VerdictNames
<1>6. CASE ~(NeedsHost /\ ~hostSet)
  <2>1. HostVerdict(input) = "ok" /\ Throw("Completed")
    BY <1>1, <1>3, <1>4, <1>6 DEF HostVerdict, IsRequest
  <2> QED BY <1>1, <2>1, Completes
<1> QED
  BY <1>5, <1>6

LEMMA ResponseBuiltStep ==
    ASSUME RunInv, ~IsRequest, ResponseBuilt, UNCHANGED input
    PROVE  ParseInv'
<1>1. pc = "built" /\ Throw("Completed") /\ Fixed /\ UNCHANGED <<headers, body>>
  BY DEF ResponseBuilt, Fixed, streamVars, messageVars
<1>2. HostVerdict(input) = "ok"
  BY DEF HostVerdict, IsRequest
<1> QED
  BY <1>1, <1>2, Completes

-----------------------------------------------------------------------------
(* The headers and the body.                                               *)
LEMMA InMessageIs ==
    ASSUME RunInv, InMessage, pc = "message"
    PROVE  /\ StreamInv /\ input \in Straight /\ StartInv
           /\ limits.buffer \in Nat /\ limits.body \in Nat
           /\ state \in {"HeaderLine", "Body", "ChunkedBodySize", "ChunkedBodyData", "AppendToBody"}
           /\ hasBody <=> TakesBody(input)
           /\ state # "HeaderLine" => TakesBody(input) /\ HeadersSaid(HeaderCount)
           /\ InChunkState => ~canEof /\ input.framing \in {"chunked", "longChunk", "badSize"}
           /\ ~IsRequest /\ state # "HeaderLine" => hasBody
           /\ HeaderLineInv /\ BodyInv /\ ChunkSizeInv /\ ChunkDataInv /\ AppendInv
<1>1. StreamInv /\ StartInv /\ MessageInv
  BY DEF RunInv
<1>2. /\ state \in {"HeaderLine", "Body", "ChunkedBodySize", "ChunkedBodyData", "AppendToBody"}
      /\ hasBody <=> TakesBody(input)
      /\ state # "HeaderLine" => TakesBody(input) /\ HeadersSaid(HeaderCount)
      /\ InChunkState => ~canEof /\ input.framing \in {"chunked", "longChunk", "badSize"}
      /\ ~IsRequest /\ state # "HeaderLine" => hasBody
      /\ HeaderLineInv /\ BodyInv /\ ChunkSizeInv /\ ChunkDataInv /\ AppendInv
  BY <1>1 DEF MessageInv
<1> QED
  BY <1>1, <1>2, LimitsAre

LEMMA StartStays ==
    ASSUME StartInv, InMessage, Fixed, UNCHANGED startVars
    PROVE  StartInv' /\ InMessage'
<1>1. /\ UNCHANGED <<startState, startBuffer, startLine>>
      /\ StartCount' = StartCount /\ StartStates' = StartStates /\ IsRequest' = IsRequest
  BY FixedKeeps DEF startVars
<1>2. InMessage' /\ StartLineInv' /\ StartFits'
  BY <1>1 DEF StartInv, StartLineInv, StartFits, InMessage, Fixed
<1> QED
  BY <1>2 DEF StartInv

LEMMA MessageGoesOn ==
    ASSUME RunInv, InMessage, pc = "message", pc' = "message", Fixed, UNCHANGED startVars,
           StreamInv', MessageInv'
    PROVE  ParseInv'
<1>1. StartInv' /\ InMessage'
  BY InMessageIs, StartStays
<1> QED
  BY <1>1 DEF ParseInv, RunInv, BuiltInv, ParsedAsSent

LEMMA HeadersKeep ==
    ASSUME Fixed, UNCHANGED <<headers, contentLength, isChunkBody, hostSet>>
    PROVE  \A n : HeadersSaid(n)' <=> HeadersSaid(n)
  BY DEF HeadersSaid, LengthSaid, HeaderCount, Fixed

(* The message is whole, and all of its parts were right.                  *)
LEMMA MessageCompletes ==
    ASSUME RunInv, InMessage, pc = "message", pc' = "built", Fixed, UNCHANGED startVars,
           StreamInv', Passed(Len(Verdicts(input)) - 1), HeadersSaid(HeaderCount),
           UNCHANGED <<headers, contentLength, isChunkBody, hostSet>>, body' = SentBody(input)
    PROVE  ParseInv'
<1>1. StartInv' /\ InMessage'
  BY InMessageIs, StartStays
<1>2. HeaderCount' = HeaderCount /\ SentBody(input)' = SentBody(input)
      /\ Verdicts(input)' = Verdicts(input)
  BY FixedKeeps
<1>3. HeadersSaid(HeaderCount)'
  BY <1>2 DEF HeadersSaid, LengthSaid, Fixed
<1>4. Passed(Len(Verdicts(input)) - 1)'
  BY <1>2 DEF Passed
<1>5. BuiltInv'
  BY <1>2, <1>3, <1>4 DEF BuiltInv
<1>6. MessageInv'
  BY DEF MessageInv
<1> QED
  BY <1>1, <1>5, <1>6 DEF ParseInv, RunInv, ParsedAsSent

(* Where the verdict on a part of the body is among all of them.           *)
LEMMA BodyVerdictAt ==
    ASSUME input \in Straight, NEW i \in 1 .. Len(BodyVerdicts(input))
    PROVE  /\ BodyPart(i) \in 1 .. Len(Verdicts(input)) /\ BodyPart(i) - 1 \in Nat
           /\ Verdicts(input)[BodyPart(i)] = BodyVerdicts(input)[i]
           /\ BodyPart(i) - 1 + 1 = BodyPart(i) /\ BodyPart(i + 1) - 1 = BodyPart(i)
           /\ i = Len(BodyVerdicts(input)) => BodyPart(i) = Len(Verdicts(input)) - 1
<1>1. StartCount \in Nat /\ HeaderCount \in Nat
  BY Counts
<1>2. /\ Len(Verdicts(input)) = BodyPart(Len(BodyVerdicts(input))) + 1
      /\ Len(BodyVerdicts(input)) \in Nat
      /\ Verdicts(input)[BodyPart(i)] = BodyVerdicts(input)[i]
  BY VerdictsAre
<1> QED
  BY <1>1, <1>2 DEF BodyPart

LEMMA BodyThrows ==
    ASSUME StreamInv, Fixed, NEW error, Throw(error), NEW i \in 1 .. Len(BodyVerdicts(input)),
           Passed(BodyPart(i) - 1), BodyVerdicts(input)[i] = error, error \in VerdictNames \ {"ok"}
    PROVE  ParseInv'
  BY BodyVerdictAt, Throws DEF StreamInv

LEMMA BodyPasses ==
    ASSUME input \in Straight, NEW i \in 1 .. Len(BodyVerdicts(input)),
           Passed(BodyPart(i) - 1), BodyVerdicts(input)[i] = "ok"
    PROVE  /\ Passed(BodyPart(i + 1) - 1)
           /\ i = Len(BodyVerdicts(input)) => Passed(Len(Verdicts(input)) - 1)
<1> DEFINE k == BodyPart(i) - 1
<1>1. /\ k \in Nat /\ k + 1 = BodyPart(i) /\ BodyPart(i + 1) - 1 = BodyPart(i)
      /\ Verdicts(input)[BodyPart(i)] = "ok" /\ Passed(k)
      /\ i = Len(BodyVerdicts(input)) => BodyPart(i) = Len(Verdicts(input)) - 1
  BY BodyVerdictAt
<1> HIDE DEF k
<1>2. Passed(k + 1)
  BY <1>1, PassedNext
<1> QED
  BY <1>1, <1>2

(* A line is read: at its end it is the one that was sent.                 *)
LEMMA LineStep ==
    ASSUME StreamInv, NextChar, Fixed, NEW k, NEW l \in Texts, Lacks(l, Lf), NEW more,
           Begins(k, Append(l, Cr), Lf, more),
           buffer \in Texts, buffer \o Rest = From(k), Lacks(buffer, Lf)
    PROVE  /\ EndsLine => /\ Line = l /\ Rest' = more
                          /\ Len(buffer) = Len(l) + 1 /\ Len(l) \in Nat
           /\ ~EndsLine => /\ Append(buffer, Char) \in Texts /\ Lacks(Append(buffer, Char), Lf)
                           /\ Append(buffer, Char) \o Rest' = From(k)
<1>1. /\ Char = Lf => buffer = Append(l, Cr) /\ Rest' = more
      /\ Char # Lf => Lacks(Append(buffer, Char), Lf)
  BY WordStep
<1>2. /\ Append(buffer, Char) \in Texts /\ Append(buffer, Char) \o Rest' = From(k)
  BY AtNext
<1>3. /\ Len(Append(l, Cr)) = Len(l) + 1 /\ Len(l) \in Nat
      /\ Front(Append(l, Cr)) = l /\ Last(Append(l, Cr)) = Cr /\ Append(l, Cr) # <<>>
  BY WithReturn
<1> QED
  BY <1>1, <1>2, <1>3 DEF EndsLine, Line

(* What the invariant says while a header line is read.                    *)
LEMMA InHeader ==
    ASSUME RunInv, InMessage, pc = "message", state = "HeaderLine", NEW n, n = Len(headers)
    PROVE  /\ n \in 0 .. HeaderCount /\ n \in Nat /\ HeadersSaid(n)
           /\ Passed(HeaderPart(n + 1) - 1)
           /\ buffer \in Texts /\ buffer \o Rest = From(HeaderPart(n + 1)) /\ Lacks(buffer, Lf)
           /\ HeaderWord(n) \in Texts /\ Lacks(HeaderWord(n), Lf)
           /\ Begins(HeaderPart(n + 1), Append(HeaderWord(n), Cr), Lf, From(HeaderPart(n + 2)))
           /\ Len(buffer) <= Len(HeaderWord(n)) + 1 /\ Len(buffer) \in Nat
           /\ Len(HeaderWord(n)) \in Nat
           /\ ~canEof /\ decodedBody = <<>>
<1>1. StreamInv /\ input \in Straight /\ HeaderLineInv
  BY InMessageIs
<1>2. /\ n \in 0 .. HeaderCount /\ HeadersSaid(n)
      /\ Passed(HeaderPart(n + 1) - 1)
      /\ buffer \in Texts /\ buffer \o Rest = From(HeaderPart(n + 1)) /\ Lacks(buffer, Lf)
      /\ ~canEof /\ decodedBody = <<>>
  BY <1>1 DEF HeaderLineInv, HeadersSaid, At, Texts
<1>3. /\ HeaderWord(n) \in Texts /\ Lacks(HeaderWord(n), Lf) /\ n \in Nat
      /\ Begins(HeaderPart(n + 1), Append(HeaderWord(n), Cr), Lf, From(HeaderPart(n + 2)))
  BY <1>1, <1>2, HeaderWordIs
<1>4. Len(Append(HeaderWord(n), Cr)) = Len(HeaderWord(n)) + 1 /\ Len(HeaderWord(n)) \in Nat
  BY <1>3, WithReturn
<1>5. Len(buffer) <= Len(Append(HeaderWord(n), Cr)) /\ Len(buffer) \in Nat
  BY <1>1, <1>2, <1>3, InWord
<1> QED
  BY <1>2, <1>3, <1>4, <1>5

(* A header line is answered with what is wrong about it.                  *)
LEMMA HeaderThrows ==
    ASSUME RunInv, InMessage, pc = "message", state = "HeaderLine", NEW n, n = Len(headers),
           Fixed, NEW error, Throw(error), Verdicts(input)[HeaderPart(n + 1)] = error,
           error \in VerdictNames \ {"ok"}
    PROVE  ParseInv'
<1>1. StreamInv /\ input \in Straight
  BY InMessageIs
<1>2. n \in 0 .. HeaderCount /\ Passed(HeaderPart(n + 1) - 1)
  BY InHeader
<1>3. HeaderPart(n + 1) \in 1 .. Len(Verdicts(input))
  BY <1>1, <1>2, HeaderWordIs
<1> QED
  BY <1>1, <1>2, <1>3, Throws

(* What is wrong with the i-th header line, and what its verdict is.       *)
HeaderFault(i) ==
    LET name == input.headers[i][1][1]
        form == input.headers[i][1][2]
    IN  IF \E k \in DOMAIN input.headers[i] : input.headers[i][k][1] \in {"junk", "cr"}
        THEN "MalformedMessage"
        ELSE IF name = "encoding" THEN "BadTransferEncoding"
        ELSE IF name \in {"host", "referer"} /\ form > 1 THEN "UriError"
        ELSE IF name \in {"host", "referer"} /\ form = 1 THEN "MalformedMessage"
        ELSE IF name = "host" /\ \E j \in Given(input, "host") : j < i THEN "MalformedMessage"
        ELSE "none"

LEMMA HeaderVerdictIs ==
    ASSUME NEW i, input.headers[i][1][2] \in Nat
    PROVE  HeaderVerdict(input, i) =
        IF Len(input.headers[i]) >= limits.buffer THEN "GenericExceededBuffer"
        ELSE IF HeaderFault(i) = "none" THEN "ok" ELSE HeaderFault(i)
<1> DEFINE name == input.headers[i][1][1]
           form == IF name \in {"host", "referer"} THEN input.headers[i][1][2] ELSE 0
           junk == \E k \in DOMAIN input.headers[i] : input.headers[i][k][1] \in {"junk", "cr"}
           again == name = "host" /\ \E j \in Given(input, "host") : j < i
<1>1. HeaderVerdict(input, i) =
        IF Len(input.headers[i]) >= limits.buffer THEN "GenericExceededBuffer"
        ELSE IF junk \/ name = "encoding" \/ form > 0 \/ again
        THEN IF ~junk /\ name = "encoding" THEN "BadTransferEncoding"
             ELSE IF ~junk /\ form > 1 THEN "UriError" ELSE "MalformedMessage"
        ELSE "ok"
  BY DEF HeaderVerdict, LineVerdict
<1>2. HeaderFault(i) =
        IF junk THEN "MalformedMessage"
        ELSE IF name = "encoding" THEN "BadTransferEncoding"
        ELSE IF form > 1 THEN "UriError"
        ELSE IF form = 1 \/ again THEN "MalformedMessage" ELSE "none"
  BY DEF HeaderFault
<1>3. form \in Nat
  OBVIOUS
<1> HIDE DEF form, junk, again
<1>4. form > 0 <=> form = 1 \/ form > 1
  BY <1>3
<1> QED
  BY <1>1, <1>2, <1>4

LEMMA HeaderExceeds ==
    ASSUME RunInv, InMessage, pc = "message", state = "HeaderLine", ~Fits, Fixed,
           Throw("GenericExceededBuffer")
    PROVE  ParseInv'
<1> DEFINE n == Len(headers)
<1>1. limits.buffer \in Nat /\ input \in Straight
  BY InMessageIs
<1>2. n \in 0 .. HeaderCount /\ Len(buffer) <= Len(HeaderWord(n)) + 1 /\ Len(buffer) \in Nat
      /\ Len(HeaderWord(n)) \in Nat
  BY InHeader
<1>3. Len(HeaderWord(n)) >= limits.buffer
  BY <1>1, <1>2 DEF Fits
<1>4. n = Len(headers)
  OBVIOUS
<1> HIDE DEF n
<1>6. Verdicts(input)[HeaderPart(n + 1)] =
        IF n = HeaderCount THEN LineVerdict(<<>>, FALSE, "ok") ELSE HeaderVerdict(input, n + 1)
  BY <1>1, <1>2, HeaderWordIs
<1>7. Verdicts(input)[HeaderPart(n + 1)] = "GenericExceededBuffer"
  <2>1. CASE n = HeaderCount
    <3>1. LineVerdict(<<>>, FALSE, "ok") = "GenericExceededBuffer"
      BY <1>3, <2>1 DEF HeaderWord, LineVerdict
    <3> QED BY <1>6, <2>1, <3>1
  <2>2. CASE n # HeaderCount
    <3>1. Len(input.headers[n + 1]) >= limits.buffer
      BY <1>3, <2>2 DEF HeaderWord
    <3>2. HeaderVerdict(input, n + 1) = "GenericExceededBuffer"
      BY <3>1 DEF HeaderVerdict, LineVerdict
    <3> QED BY <1>6, <2>2, <3>2
  <2> QED BY <2>1, <2>2
<1> QED
  BY <1>4, <1>7, HeaderThrows DEF VerdictNames

(* The actions of the headers: a character of a line.                      *)
LEMMA HeaderGrowsStep ==
    ASSUME RunInv, InMessage, LineGrows("HeaderLine"), UNCHANGED <<input, startVars>>
    PROVE  ParseInv'
<1>0. /\ pc = "message" /\ state = "HeaderLine" /\ NextChar /\ ~EndsLine /\ Fixed
      /\ buffer' = Append(buffer, Char) /\ pc' = pc
      /\ UNCHANGED <<hasBody, state, headers, contentLength, isChunkBody, hostSet,
                     lastChunkSize, decodedBody, canEof, startVars, input>>
  BY DEF LineGrows, InState, NextChar, Running, Fixed
<1> DEFINE n == Len(headers)
<1>1. StreamInv /\ input \in Straight /\ (hasBody <=> TakesBody(input))
  BY <1>0, InMessageIs
<1>2. /\ n \in 0 .. HeaderCount /\ HeadersSaid(n) /\ Passed(HeaderPart(n + 1) - 1)
      /\ buffer \in Texts /\ buffer \o Rest = From(HeaderPart(n + 1)) /\ Lacks(buffer, Lf)
      /\ HeaderWord(n) \in Texts /\ Lacks(HeaderWord(n), Lf)
      /\ Begins(HeaderPart(n + 1), Append(HeaderWord(n), Cr), Lf, From(HeaderPart(n + 2)))
      /\ ~canEof /\ decodedBody = <<>>
  BY <1>0, InHeader
<1>3. /\ Append(buffer, Char) \in Texts /\ Lacks(Append(buffer, Char), Lf)
      /\ Append(buffer, Char) \o Rest' = From(HeaderPart(n + 1))
  <2> HIDE DEF n
  <2> QED BY <1>0, <1>1, <1>2, LineStep
<1>4. StreamInv'
  BY <1>0, <1>1, ReadsChar
<1>5. HeaderLineInv'
  <2>1. n' = n
    BY <1>0
  <2>2. HeadersSaid(n)'
    BY <1>0, <1>2, HeadersKeep
  <2>3. At(HeaderPart(n + 1), buffer)'
    BY <1>0, <1>2, <1>3, FixedKeeps DEF At, Texts
  <2>4. Lacks(buffer, Lf)'
    BY <1>0, <1>3 DEF Lacks
  <2> QED BY <1>0, <1>2, <2>2, <2>3, <2>4 DEF HeaderLineInv
<1>6. MessageInv'
  <2>1. TakesBody(input)' = TakesBody(input)
    BY FixedKeeps, <1>0
  <2> QED BY <1>0, <1>1, <1>5, <2>1
          DEF MessageInv, InChunkState, BodyInv, ChunkSizeInv, ChunkDataInv, AppendInv
<1> QED
  BY <1>0, <1>4, <1>6, MessageGoesOn

(* The next header line, of which Header and Value are the first symbol.   *)
LEMMA HeaderLineIs ==
    ASSUME input \in Straight, NEW n \in Nat, n + 1 \in 1 .. HeaderCount, NEW l,
           l = input.headers[n + 1]
    PROVE  /\ l \in Texts /\ l # <<>> /\ Header(l) = l[1][1] /\ Value(l) = l[1][2]
           /\ n + 1 \in DOMAIN input.headers /\ DOMAIN input.headers = 1 .. HeaderCount
           /\ \A name : n + 1 \in Given(input, name) <=> Header(l) = name
           /\ \A k \in DOMAIN l : l[k][1] # "lf"
<1>1. /\ l \in Texts /\ l # <<>> /\ DOMAIN input.headers = 1 .. HeaderCount
  BY HeadersAreLines DEF HeaderCount
<1>2. Without({"lf"}, l)
  BY <1>1, StraightAre DEF HeadersAre
<1>3. Head(l) = l[1]
  BY <1>1 DEF Texts
<1> QED
  BY <1>1, <1>2, <1>3 DEF Header, Value, Given, Without

(* The header is taken: one more of them was read.                         *)
LEMMA HeadersNext ==
    ASSUME input \in Straight, NEW n \in Nat, n + 1 \in 1 .. HeaderCount, HeadersSaid(n),
           NEW l, l = input.headers[n + 1], Fixed,
           headers' = Append(headers, l),
           contentLength' = (IF Header(l) = "length" THEN Value(l) ELSE contentLength),
           isChunkBody' <=> (isChunkBody \/ Header(l) = "chunked"),
           hostSet' <=> (hostSet \/ Header(l) = "host")
    PROVE  HeadersSaid(n + 1)' /\ Len(headers') = n + 1
<1> DEFINE T == {input.headers[i] : i \in DOMAIN input.headers}
<1>1. input.headers \in Seq(T) /\ HeaderCount \in Nat /\ Len(input.headers) = HeaderCount
  BY StraightAre, Counts DEF HeadersAre, HeaderCount
<1>2. /\ l # <<>> /\ Value(l) = l[1][2]
      /\ \A name : n + 1 \in Given(input, name) <=> Header(l) = name
      /\ l \in T
  BY HeaderLineIs
<1> HIDE DEF T
<1>3. \A i \in 1 .. n + 1 : i \in 1 .. n \/ i = n + 1
  OBVIOUS
<1>4. \A i \in 1 .. n : i \in 1 .. n + 1
  OBVIOUS
<1>5. n + 1 \in 1 .. n + 1
  OBVIOUS
<1>6. SubSeq(input.headers, 1, n + 1) = Append(headers, l) /\ Len(Append(headers, l)) = n + 1
  <2>1. headers = SubSeq(input.headers, 1, n)
    BY DEF HeadersSaid
  <2>2. /\ SubSeq(input.headers, 1, n) \in Seq(T) /\ Len(SubSeq(input.headers, 1, n)) = n
    <3>1. n \in Int /\ 1 \in Int /\ \A i \in 1 .. n : input.headers[i] \in T
      BY <1>1
    <3>2. n = IF 1 <= n THEN n - 1 + 1 ELSE 0
      OBVIOUS
    <3> QED BY <3>1, <3>2, SubSeqProperties
  <2>3. SubSeq(input.headers, 1, n + 1) = SubSeq(input.headers, 1, (n + 1) - 1) \o <<l>>
    <3>1. 1 \in 1 .. Len(input.headers) /\ n + 1 \in 1 .. Len(input.headers)
      BY <1>1
    <3> QED BY <1>1, <3>1, SubSeqRecursiveSecond
  <2>4. (n + 1) - 1 = n
    OBVIOUS
  <2>5. Append(SubSeq(input.headers, 1, n), l) = SubSeq(input.headers, 1, n) \o <<l>>
    BY <1>2, <2>2, AppendIsConcat
  <2>6. Len(Append(SubSeq(input.headers, 1, n), l)) = n + 1
    BY <1>2, <2>2
  <2> QED BY <2>1, <2>3, <2>4, <2>5, <2>6
<1>7. LengthSaid(n + 1)'
  <2>1. CASE Header(l) = "length"
    <3>1. contentLength' = input.headers[n + 1][1][2] /\ n + 1 \in Given(input, "length")
      BY <1>2, <2>1
    <3>2. \A j \in (n + 1) + 1 .. n + 1 : j \notin Given(input, "length")
      OBVIOUS
    <3>3. input' = input /\ Given(input, "length")' = Given(input, "length")
      BY DEF Fixed, Given
    <3> QED BY <1>5, <3>1, <3>2, <3>3, Zenon DEF LengthSaid
  <2>2. CASE Header(l) # "length"
    <3>1. contentLength' = contentLength /\ n + 1 \notin Given(input, "length")
      BY <1>2, <2>2
    <3>3. input' = input /\ Given(input, "length")' = Given(input, "length")
      BY DEF Fixed, Given
    <3>4. LengthSaid(n)
      BY DEF HeadersSaid
    <3>5. CASE contentLength = NoLength /\ \A i \in 1 .. n : i \notin Given(input, "length")
      BY <1>3, <3>1, <3>3, <3>5 DEF LengthSaid, NoLength
    <3>6. CASE \E i \in 1 .. n : /\ i \in Given(input, "length")
                                 /\ contentLength = input.headers[i][1][2]
                                 /\ \A j \in i + 1 .. n : j \notin Given(input, "length")
      <4>1. PICK i \in 1 .. n : /\ i \in Given(input, "length")
                                /\ contentLength = input.headers[i][1][2]
                                /\ \A j \in i + 1 .. n : j \notin Given(input, "length")
        BY <3>6
      <4>2. \A j \in i + 1 .. n + 1 : j \notin Given(input, "length")
        <5>1. \A j \in i + 1 .. n + 1 : j \in i + 1 .. n \/ j = n + 1
          OBVIOUS
        <5> QED BY <3>1, <4>1, <5>1
      <4>3. i \in 1 .. n + 1
        BY <1>4
      <4> QED BY <3>1, <3>3, <4>1, <4>2, <4>3, Zenon DEF LengthSaid
    <3> QED BY <3>4, <3>5, <3>6 DEF LengthSaid
  <2> QED BY <2>1, <2>2
<1>8. isChunkBody' <=> \E i \in 1 .. n + 1 : i \in Given(input, "chunked")
  <2>1. isChunkBody <=> \E i \in 1 .. n : i \in Given(input, "chunked")
    BY DEF HeadersSaid
  <2> QED BY <1>2, <1>3, <1>4, <1>5, <2>1, Zenon
<1>9. hostSet' <=> \E i \in 1 .. n + 1 : i \in Given(input, "host")
  <2>1. hostSet <=> \E i \in 1 .. n : i \in Given(input, "host")
    BY DEF HeadersSaid
  <2> QED BY <1>2, <1>3, <1>4, <1>5, <2>1, Zenon
<1>10. HeadersSaid(n + 1)'
  <2>1. input' = input /\ HeaderCount' = HeaderCount
        /\ \A name : Given(input, name)' = Given(input, name)
    BY DEF Fixed, Given, HeaderCount
  <2>2. n + 1 \in 0 .. HeaderCount
    BY <1>1
  <2>3. headers' = SubSeq(input.headers, 1, n + 1)
    BY <1>6
  <2> QED BY <1>7, <1>8, <1>9, <2>1, <2>2, <2>3 DEF HeadersSaid
<1> QED
  BY <1>6, <1>10

(* The end of a header line that has something in it.                      *)
LEMMA InHeaderLine ==
    ASSUME RunInv, InMessage, HeaderLine, UNCHANGED <<input, startVars>>,
           NEW n, n = Len(headers)
    PROVE  /\ pc = "message" /\ state = "HeaderLine" /\ Fixed /\ StreamInv'
           /\ n \in Nat /\ n + 1 \in 1 .. HeaderCount /\ HeadersSaid(n)
           /\ Passed(HeaderPart(n + 1) - 1)
           /\ Line = input.headers[n + 1] /\ Len(input.headers[n + 1]) < limits.buffer
           /\ Rest' = From(HeaderPart(n + 2)) /\ Rest' \in Texts
<1>0. /\ pc = "message" /\ state = "HeaderLine" /\ NextChar /\ EndsLine /\ Fits
      /\ Line # <<>> /\ Fixed
  BY DEF HeaderLine, InState, NextChar, Fixed
<1>1. StreamInv /\ input \in Straight /\ limits.buffer \in Nat
  BY <1>0, InMessageIs
<1>2. /\ n \in 0 .. HeaderCount /\ n \in Nat /\ HeadersSaid(n) /\ Passed(HeaderPart(n + 1) - 1)
      /\ buffer \in Texts /\ buffer \o Rest = From(HeaderPart(n + 1)) /\ Lacks(buffer, Lf)
      /\ HeaderWord(n) \in Texts /\ Lacks(HeaderWord(n), Lf)
      /\ Begins(HeaderPart(n + 1), Append(HeaderWord(n), Cr), Lf, From(HeaderPart(n + 2)))
  BY <1>0, InHeader
<1>3. /\ Line = HeaderWord(n) /\ Rest' = From(HeaderPart(n + 2))
      /\ Len(buffer) = Len(HeaderWord(n)) + 1 /\ Len(HeaderWord(n)) \in Nat
  BY <1>0, <1>1, <1>2, LineStep
<1>4. n # HeaderCount /\ Line = input.headers[n + 1]
  BY <1>0, <1>3 DEF HeaderWord
<1>5. HeaderCount \in Nat
  BY <1>1, Counts
<1>6. n + 1 \in 1 .. HeaderCount
  BY <1>2, <1>4, <1>5
<1>7. Len(HeaderWord(n)) < limits.buffer
  BY <1>0, <1>1, <1>3 DEF Fits
<1>8. StreamInv'
  BY <1>0, <1>1, ReadsChar
<1>9. Rest' \in Texts
  BY <1>2, <1>3 DEF Begins
<1> QED
  BY <1>0, <1>2, <1>3, <1>4, <1>6, <1>7, <1>8, <1>9

(* The end of a header line: it is taken, or is wrong.                     *)
LEMMA HeaderLineStep ==
    ASSUME RunInv, InMessage, HeaderLine, UNCHANGED <<input, startVars>>
    PROVE  ParseInv'
<1>n. PICK n : n = Len(headers)
  OBVIOUS
<1>l. PICK l : l = input.headers[n + 1]
  OBVIOUS
<1>0. /\ pc = "message" /\ state = "HeaderLine" /\ Fixed /\ StreamInv'
      /\ n \in Nat /\ n + 1 \in 1 .. HeaderCount /\ HeadersSaid(n)
      /\ Passed(HeaderPart(n + 1) - 1)
      /\ Line = l /\ Len(l) < limits.buffer
      /\ Rest' = From(HeaderPart(n + 2)) /\ Rest' \in Texts
  BY <1>n, <1>l, InHeaderLine
<1>1. /\ input \in Straight /\ StreamInv /\ limits.buffer \in Nat
      /\ (hasBody <=> TakesBody(input)) /\ HeaderLineInv
  BY <1>0, InMessageIs
<1>2. /\ l \in Texts /\ l # <<>> /\ Header(l) = l[1][1] /\ Value(l) = l[1][2]
      /\ n + 1 \in DOMAIN input.headers /\ DOMAIN input.headers = 1 .. HeaderCount
      /\ \A name : n + 1 \in Given(input, name) <=> Header(l) = name
      /\ \A k \in DOMAIN l : l[k][1] # "lf"
  BY <1>0, <1>1, <1>l, HeaderLineIs
<1>3. HeaderError(l) = HeaderFault(n + 1)
  <2>1. Has(l, {"junk", "cr", "lf"}) <=> \E k \in DOMAIN l : l[k][1] \in {"junk", "cr"}
    BY <1>2 DEF Has
  <2>2. hostSet <=> \E j \in Given(input, "host") : j < n + 1
    <3>1. hostSet <=> \E i \in 1 .. n : i \in Given(input, "host")
      BY <1>0 DEF HeadersSaid
    <3>2. \A j \in DOMAIN input.headers : j < n + 1 <=> j \in 1 .. n
      BY <1>0, <1>2
    <3>3. Given(input, "host") \subseteq DOMAIN input.headers
      BY DEF Given
    <3> QED BY <3>1, <3>2, <3>3
  <2> QED BY <1>2, <1>l, <2>1, <2>2 DEF HeaderError, HeaderFault, UriHeader
<1>4. Verdicts(input)[HeaderPart(n + 1)] = IF HeaderError(l) = "none" THEN "ok" ELSE HeaderError(l)
  <2>1. n \in 0 .. HeaderCount /\ n # HeaderCount /\ HeaderCount \in Nat
    BY <1>0, <1>1, Counts
  <2>2. Verdicts(input)[HeaderPart(n + 1)] = HeaderVerdict(input, n + 1)
    BY <1>1, <2>1, HeaderWordIs
  <2>3. ~(Len(l) >= limits.buffer)
    <3>1. Len(l) \in Nat
      BY <1>2 DEF Texts
    <3> QED BY <1>0, <1>1, <3>1
  <2>4. input.headers[n + 1][1][2] \in Nat
    <3>1. l \in Seq(Symbols) /\ 1 \in DOMAIN l
      BY <1>2 DEF Texts
    <3>2. l[1] \in Symbols
      <4> HIDE DEF Symbols
      <4> QED BY <3>1
    <3> QED BY <1>l, <3>2 DEF Symbols
  <2> QED BY <1>3, <1>l, <2>2, <2>3, <2>4, HeaderVerdictIs, Zenon
<1>5. CASE HeaderError(l) # "none"
  <2>1. Throw(HeaderError(l))
    BY <1>0, <1>5 DEF HeaderLine
  <2>2. HeaderError(l) \in VerdictNames \ {"ok"}
    BY <1>5 DEF HeaderError, VerdictNames
  <2> QED BY <1>0, <1>4, <1>5, <1>n, <2>1, <2>2, HeaderThrows
<1>7. CASE HeaderError(l) = "none"
  <2>1. /\ pc' = pc /\ headers' = Append(headers, l)
        /\ contentLength' = (IF Header(l) = "length" THEN Value(l) ELSE contentLength)
        /\ isChunkBody' = (isChunkBody \/ Header(l) = "chunked")
        /\ hostSet' = (hostSet \/ Header(l) = "host")
        /\ buffer' = <<>>
        /\ UNCHANGED <<limits, hasBody, state, lastChunkSize, decodedBody, canEof, fileReady, body>>
    BY <1>0, <1>7 DEF HeaderLine, Running
  <2>2. HeadersSaid(n + 1)' /\ Len(headers') = n + 1
    BY <1>0, <1>1, <1>l, <2>1, HeadersNext
  <2>3. /\ Passed(HeaderPart(n + 2) - 1) /\ <<>> \in Texts /\ Lacks(<<>>, Lf)
        /\ <<>> \o Rest' = From(HeaderPart(n + 2))
    <3>0. n \in 0 .. HeaderCount
      BY <1>0, <1>1, Counts
    <3>1. HeaderPart(n + 1) - 1 \in Nat /\ HeaderPart(n + 1) + 1 = HeaderPart(n + 2)
          /\ HeaderPart(n + 1) \in 1 .. Len(Verdicts(input))
      BY <1>1, <3>0, HeaderWordIs
    <3>2. (HeaderPart(n + 1) - 1) + 1 = HeaderPart(n + 1)
          /\ HeaderPart(n + 2) - 1 = HeaderPart(n + 1)
      BY <3>1
    <3>3. Passed(HeaderPart(n + 2) - 1)
      BY <1>0, <1>4, <1>7, <3>1, <3>2, PassedNext
    <3>5. <<>> \in Texts /\ <<>> \o Rest' = Rest' /\ Lacks(<<>>, Lf)
      BY <1>0, NothingRead
    <3> QED BY <1>0, <3>3, <3>5
  <2>4. HeaderLineInv'
    <3>1. HeaderPart(Len(headers) + 1)' = HeaderPart(n + 2)
      <4>1. (Len(headers) + 1)' = n + 2
        BY <1>0, <2>2
      <4>2. StartCount' = StartCount
        BY <1>0, FixedKeeps
      <4> QED BY <4>1, <4>2 DEF HeaderPart
    <3>2. At(HeaderPart(Len(headers) + 1), buffer)'
      BY <1>0, <2>1, <2>3, <3>1, FixedKeeps DEF At, Texts
    <3>3. Lacks(buffer, Lf)'
      BY <2>1, <2>3 DEF Lacks
    <3>4. ~canEof' /\ decodedBody' = <<>>
      BY <1>0, <1>1, <2>1 DEF HeaderLineInv
    <3>5. HeadersSaid(Len(headers))'
      BY <2>2 DEF HeadersSaid
    <3> QED BY <3>2, <3>3, <3>4, <3>5 DEF HeaderLineInv
  <2>5. MessageInv'
    <3>1. TakesBody(input)' = TakesBody(input)
      BY FixedKeeps, <1>0
    <3> QED BY <1>0, <1>1, <2>1, <2>4, <3>1
            DEF MessageInv, InChunkState, BodyInv, ChunkSizeInv, ChunkDataInv, AppendInv
  <2> QED
    BY <1>0, <1>1, <2>1, <2>5, MessageGoesOn
<1> QED
  BY <1>5, <1>7

(* All headers together say how the body is sent.                          *)
LEMMA LengthIs ==
    ASSUME input \in Straight, HeadersSaid(HeaderCount)
    PROVE  /\ contentLength = NoLength /\ isChunkBody <=>
                input.framing \in {"chunked", "longChunk", "badSize"}
           /\ contentLength # NoLength <=> input.framing = "length"
           /\ contentLength # NoLength =>
                contentLength = BodySize(input) /\ contentLength \in Nat
           /\ contentLength = NoLength /\ ~isChunkBody <=> input.framing = "eof"
<1> DEFINE given == Given(input, "length")
<1>1. HeaderCount \in Nat /\ DOMAIN input.headers = 1 .. HeaderCount /\ given \subseteq 1 .. HeaderCount
  BY Counts DEF Given
<1>2. contentLength = Length(input)
  <2>1. CASE contentLength = NoLength /\ \A i \in 1 .. HeaderCount : i \notin given
    <3>1. given = {}
      BY <1>1, <2>1
    <3> QED BY <2>1, <3>1 DEF Length
  <2>2. CASE \E i \in 1 .. HeaderCount :
                /\ i \in given
                /\ contentLength = input.headers[i][1][2]
                /\ \A j \in i + 1 .. HeaderCount : j \notin given
    <3>1. PICK i \in 1 .. HeaderCount :
                /\ i \in given
                /\ contentLength = input.headers[i][1][2]
                /\ \A j \in i + 1 .. HeaderCount : j \notin given
      BY <2>2
    <3> HIDE DEF given
    <3>2. \A j \in given : j <= i
      <4>1. \A h \in Nat : \A m, j \in 1 .. h : j <= m \/ j \in m + 1 .. h
        OBVIOUS
      <4> QED BY <1>1, <3>1, <4>1
    <3> DEFINE c == CHOOSE k \in given : \A j \in given : j <= k
    <3>3. c \in given /\ \A j \in given : j <= c
      BY <3>1, <3>2
    <3> HIDE DEF c
    <3>4. c = i
      BY <1>1, <3>1, <3>2, <3>3
    <3> USE DEF c, given
    <3>5. Length(input) = input.headers[c][1][2]
      BY <3>1 DEF Length
    <3> HIDE DEF c
    <3> QED BY <3>1, <3>4, <3>5
  <2> QED BY <2>1, <2>2 DEF HeadersSaid, LengthSaid
<1>3. isChunkBody <=> Given(input, "chunked") # {}
  <2>1. isChunkBody <=> \E i \in 1 .. HeaderCount : i \in Given(input, "chunked")
    BY DEF HeadersSaid
  <2>2. Given(input, "chunked") \subseteq 1 .. HeaderCount
    BY <1>1 DEF Given
  <2> QED BY <2>1, <2>2
<1>4. BodyIs(input) /\ input.ends \in Seq(Nat) /\ input.framing # "hugeChunk"
  BY StraightAre DEF BodyIs
<1>5. input.ends = <<Length(input)>> => BodySize(input) = Length(input) /\ Length(input) \in Nat
  <2> SUFFICES ASSUME input.ends = <<Length(input)>>
               PROVE  BodySize(input) = Length(input) /\ Length(input) \in Nat
    OBVIOUS
  <2>1. Len(input.ends) = 1 /\ input.ends[1] = Length(input) /\ 1 \in 1 .. Len(input.ends)
    BY <1>4
  <2>2. input.ends[1] \in Nat /\ Before(input, 1 + 1) = input.ends[1]
    BY <2>1, EndsAre
  <2> QED BY <2>1, <2>2 DEF BodySize
<1>6. InChunks(input) <=> contentLength = NoLength /\ isChunkBody
  BY <1>2, <1>3 DEF InChunks
<1>7. \/ input.framing \in {"chunked", "longChunk", "badSize"} /\ InChunks(input)
      \/ input.framing = "length" /\ input.ends = <<Length(input)>> /\ Length(input) # NoLength
      \/ input.framing = "eof" /\ Length(input) = NoLength /\ ~InChunks(input)
  BY <1>4 DEF BodyIs
<1> QED
  BY <1>2, <1>5, <1>6, <1>7

(* The line with nothing in it: the body follows, if there is one.         *)
LEMMA BodyBegins ==
    ASSUME RunInv, InMessage, HeaderTerminator, UNCHANGED <<input, startVars>>
    PROVE  /\ pc = "message" /\ state = "HeaderLine" /\ Fixed /\ StreamInv'
           /\ HeadersSaid(HeaderCount)
           /\ Passed(BodyPart(1) - 1)
           /\ Rest' = From(BodyPart(1)) /\ Rest' \in Texts
           /\ ~canEof /\ decodedBody = <<>>
<1>n. PICK n : n = Len(headers)
  OBVIOUS
<1>0. /\ pc = "message" /\ state = "HeaderLine" /\ NextChar /\ EndsLine /\ Fits
      /\ Line = <<>> /\ Fixed
  BY DEF HeaderTerminator, InState, NextChar, Fixed
<1>1. StreamInv /\ input \in Straight /\ limits.buffer \in Nat
  BY <1>0, InMessageIs
<1>2. /\ n \in 0 .. HeaderCount /\ n \in Nat /\ HeadersSaid(n) /\ Passed(HeaderPart(n + 1) - 1)
      /\ buffer \in Texts /\ buffer \o Rest = From(HeaderPart(n + 1)) /\ Lacks(buffer, Lf)
      /\ HeaderWord(n) \in Texts /\ Lacks(HeaderWord(n), Lf)
      /\ Begins(HeaderPart(n + 1), Append(HeaderWord(n), Cr), Lf, From(HeaderPart(n + 2)))
      /\ ~canEof /\ decodedBody = <<>>
  BY <1>0, <1>n, InHeader
<1>3. /\ Line = HeaderWord(n) /\ Rest' = From(HeaderPart(n + 2))
      /\ Len(buffer) = Len(HeaderWord(n)) + 1 /\ Len(HeaderWord(n)) \in Nat
  BY <1>0, <1>1, <1>2, LineStep
<1>4. HeaderCount \in Nat
  BY <1>1, Counts
<1>5. n = HeaderCount
  <2> SUFFICES ASSUME n # HeaderCount PROVE FALSE
    OBVIOUS
  <2>1. HeaderWord(n) = input.headers[n + 1]
    BY DEF HeaderWord
  <2>2. n + 1 \in 1 .. HeaderCount
    BY <1>2, <1>4
  <2>3. input.headers[n + 1] # <<>>
    BY <1>1, <2>2, HeadersAreLines DEF HeaderCount
  <2> QED BY <1>0, <1>3, <2>1, <2>3
<1>6. Len(<<>>) = 0 /\ limits.buffer >= 1
  BY <1>0, <1>1, <1>3 DEF Fits
<1>7. /\ HeaderPart(n + 1) - 1 \in Nat /\ HeaderPart(n + 1) + 1 = HeaderPart(n + 2)
      /\ HeaderPart(n + 2) = BodyPart(1) /\ HeaderPart(n + 1) \in 1 .. Len(Verdicts(input))
      /\ Verdicts(input)[HeaderPart(n + 1)] = LineVerdict(<<>>, FALSE, "ok")
  BY <1>1, <1>2, <1>5, HeaderWordIs
<1>8. Verdicts(input)[HeaderPart(n + 1)] = "ok"
  <2>1. ~(Len(<<>>) >= limits.buffer)
    BY <1>1, <1>6
  <2> QED BY <1>7, <2>1 DEF LineVerdict
<1>9. (HeaderPart(n + 1) - 1) + 1 = HeaderPart(n + 1) /\ BodyPart(1) - 1 = HeaderPart(n + 1)
  BY <1>7
<1>10. Passed(BodyPart(1) - 1)
  BY <1>2, <1>7, <1>8, <1>9, PassedNext
<1>11. StreamInv' /\ Rest' \in Texts
  BY <1>0, <1>1, ReadsChar
<1> QED
  BY <1>0, <1>2, <1>3, <1>5, <1>7, <1>10, <1>11

LEMMA NoBodyStep ==
    ASSUME RunInv, InMessage, HeaderTerminator, UNCHANGED <<input, startVars>>,
           ~hasBody \/ contentLength = 0
    PROVE  ParseInv'
<1>0. /\ pc = "message" /\ state = "HeaderLine" /\ Fixed /\ StreamInv'
      /\ HeadersSaid(HeaderCount) /\ Passed(BodyPart(1) - 1)
  BY BodyBegins
<1>1. StreamInv /\ input \in Straight /\ (hasBody <=> TakesBody(input))
      /\ limits.buffer \in Nat /\ limits.body \in Nat
  BY <1>0, InMessageIs
<1>2. pc' = "built" /\ body' = <<>> /\ UNCHANGED <<headers, contentLength, isChunkBody, hostSet>>
  BY DEF HeaderTerminator, Complete
<1>3. Data(0, 0) = <<>>
  <2>1. Data(0, 0) \in Seq(Symbols) /\ Len(Data(0, 0)) = 0
    BY DataFirst
  <2> QED BY <2>1
<1>4. CASE ~TakesBody(input)
  <2>1. SentBody(input) = <<>>
    BY <1>4 DEF SentBody
  <2>2. Len(BodyVerdicts(input)) = 0 /\ Len(Verdicts(input)) = BodyPart(Len(BodyVerdicts(input))) + 1
    BY <1>1, <1>4, BodyVerdictsAre, VerdictsAre
  <2>3. HeaderCount \in Nat /\ StartCount \in Nat
    BY <1>1, Counts
  <2>4. Len(Verdicts(input)) - 1 = BodyPart(1) - 1
    BY <2>2, <2>3 DEF BodyPart
  <2> QED BY <1>0, <1>2, <2>1, <2>4, MessageCompletes
<1>5. CASE TakesBody(input)
  <2>1. contentLength = 0 /\ contentLength # NoLength
    BY <1>1, <1>5 DEF NoLength
  <2>2. input.framing = "length" /\ BodySize(input) = 0
    BY <1>0, <1>1, <2>1, LengthIs
  <2>3. SentBody(input) = <<>>
    BY <1>3, <1>5, <2>2 DEF SentBody, EndsAtEof
  <2>4. /\ Len(BodyVerdicts(input)) = 1
        /\ BodyVerdicts(input)[1] = BufferVerdict(0, limits.buffer + 1)
    BY <1>1, <1>5, <2>2, BodyVerdictsAre
  <2>5. BodyVerdicts(input)[1] = "ok" /\ 1 \in 1 .. Len(BodyVerdicts(input))
    BY <1>1, <2>4 DEF BufferVerdict
  <2>6. Passed(Len(Verdicts(input)) - 1)
    BY <1>0, <1>1, <2>4, <2>5, BodyPasses
  <2> QED BY <1>0, <1>2, <2>3, <2>6, MessageCompletes
<1> QED
  BY <1>4, <1>5

LEMMA BodyFollowsStep ==
    ASSUME RunInv, InMessage, HeaderTerminator, UNCHANGED <<input, startVars>>,
           hasBody, contentLength # 0
    PROVE  ParseInv'
<1>0. /\ pc = "message" /\ state = "HeaderLine" /\ Fixed /\ StreamInv'
      /\ HeadersSaid(HeaderCount) /\ Passed(BodyPart(1) - 1)
      /\ Rest' = From(BodyPart(1)) /\ Rest' \in Texts
      /\ ~canEof /\ decodedBody = <<>>
  BY BodyBegins
<1>1. StreamInv /\ input \in Straight /\ TakesBody(input)
      /\ limits.buffer \in Nat /\ limits.body \in Nat
  BY <1>0, InMessageIs
<1>2. /\ pc' = pc /\ buffer' = <<>>
      /\ state' = (IF contentLength = NoLength /\ isChunkBody THEN "ChunkedBodySize" ELSE "Body")
      /\ canEof' = (contentLength = NoLength /\ ~isChunkBody)
      /\ UNCHANGED <<hasBody, headers, contentLength, isChunkBody, hostSet, decodedBody>>
  BY DEF HeaderTerminator, Running
<1>3. /\ contentLength = NoLength /\ isChunkBody <=>
                input.framing \in {"chunked", "longChunk", "badSize"}
      /\ contentLength # NoLength <=> input.framing = "length"
      /\ contentLength # NoLength =>
                contentLength = BodySize(input) /\ contentLength \in Nat
      /\ contentLength = NoLength /\ ~isChunkBody <=> input.framing = "eof"
  BY <1>0, <1>1, LengthIs
<1>4. At(BodyPart(1), buffer)' /\ Lacks(buffer, Lf)' /\ Len(buffer') = 0
  <2>1. <<>> \in Texts /\ <<>> \o Rest' = Rest' /\ Lacks(<<>>, Lf)
    BY <1>0, NothingRead
  <2>2. Lacks(buffer, Lf)'
    BY <1>2, <2>1 DEF Lacks
  <2>3. At(BodyPart(1), buffer)'
    BY <1>0, <1>2, <2>1, FixedKeeps DEF At, Texts
  <2>4. Len(buffer') = 0
    BY <1>2
  <2> QED BY <2>2, <2>3, <2>4
<1>5. /\ TakesBody(input)' = TakesBody(input) /\ HeadersSaid(HeaderCount)'
      /\ input' = input /\ limits' = limits /\ BodySize(input)' = BodySize(input)
  <2>1. HeadersSaid(HeaderCount)'
    <3>1. HeaderCount' = HeaderCount
      BY <1>0, FixedKeeps
    <3>2. \A n : HeadersSaid(n)' <=> HeadersSaid(n)
      BY <1>0, <1>2, HeadersKeep
    <3> QED BY <1>0, <3>1, <3>2
  <2>2. input' = input /\ limits' = limits
    BY <1>0 DEF Fixed
  <2>3. TakesBody(input)' = TakesBody(input)
    BY <1>0, FixedKeeps
  <2>4. BodySize(input)' = BodySize(input)
    BY <2>2
  <2> QED BY <2>1, <2>2, <2>3, <2>4
<1>6. BodyInv'
  <2> SUFFICES ASSUME state' = "Body" PROVE BodyInv'
    BY DEF BodyInv
  <2>1. ~(contentLength = NoLength /\ isChunkBody)
    BY <1>2
  <2>2. /\ input.framing \in {"eof", "length"} /\ (canEof' <=> input.framing = "eof")
        /\ ~canEof' => contentLength = BodySize(input) /\ 0 < contentLength
    <3>1. contentLength \in Nat => 0 < contentLength
      OBVIOUS
    <3>2. canEof' <=> contentLength = NoLength /\ ~isChunkBody
      BY <1>2
    <3>3. contentLength # NoLength \/ ~isChunkBody
      BY <2>1
    <3>4. CASE contentLength = NoLength
      BY <1>3, <3>2, <3>3, <3>4
    <3>5. CASE contentLength # NoLength
      <4>1. ~canEof' /\ input.framing = "length"
        BY <1>3, <3>2, <3>5
      <4> QED BY <1>3, <3>1, <3>5, <4>1
    <3> QED BY <3>4, <3>5
  <2>3. 0 <= limits.body
    BY <1>1
  <2> QED BY <1>2, <1>4, <1>5, <2>2, <2>3 DEF BodyInv
<1>7. ChunkSizeInv'
  <2>1. Data(0, 0) = <<>>
    <3>1. Data(0, 0) \in Seq(Symbols) /\ Len(Data(0, 0)) = 0
      BY DataFirst
    <3> QED BY <3>1
  <2>2. Before(input, 1)' = 0 /\ Before(input, 1) = 0 /\ Len(input.ends) \in Nat
    BY <1>1, <1>5, EndsAre
  <2>3. 1 \in 1 .. Len(input.ends) + 1
    BY <2>2
  <2>4. decodedBody' = Data(0, Before(input, 1))'
    BY <1>0, <1>2, <2>1, <2>2 DEF Data
  <2> QED BY <1>4, <1>5, <2>3, <2>4 DEF ChunkSizeInv
<1>8. MessageInv'
  <2>1. state' \in {"Body", "ChunkedBodySize"} /\ hasBody'
    BY <1>2
  <2>2. state' = "ChunkedBodySize" => ~canEof' /\ input'.framing \in {"chunked", "longChunk", "badSize"}
    BY <1>2, <1>3, <1>5
  <2> QED BY <1>1, <1>5, <1>6, <1>7, <2>1, <2>2
          DEF MessageInv, InChunkState, HeaderLineInv, ChunkDataInv, AppendInv
<1> QED
  BY <1>0, <1>2, <1>8, MessageGoesOn

(* A body that is collected in the buffer: how much of it has arrived.     *)
LEMMA HasReceived ==
    ASSUME StreamInv, input \in Straight, NEW read \in Texts,
           read \o Rest = Data(0, BodySize(input))
    PROVE  /\ Len(read) \in Nat /\ BodySize(input) \in Nat /\ Received(input) \in Nat
           /\ Len(read) <= BodySize(input) /\ read = Data(0, Len(read))
           /\ Len(read) <= Received(input)
           /\ Position < Len(text) => Len(read) < Received(input)
           /\ Position = Len(text) => Len(read) = Received(input)
<1>1. BodySize(input) \in Nat
  BY EndsAre
<1>2. /\ Rest \in Texts /\ Position \in 0 .. Len(text) /\ Len(text) \in 0 .. Len(Sent)
      /\ Len(Sent) \in Nat /\ Len(Rest) = Len(Sent) - Position
  BY Unread
<1>3. Len(read) <= BodySize(input) /\ read = Data(0, Len(read)) /\ Len(Rest) = BodySize(input) - Len(read)
  BY <1>1, <1>2, DataBegins DEF Texts
<1>4. Len(read) \in Nat
  BY DEF Texts
<1>5. HeadSize(input) = Len(Sent) - BodySize(input)
  BY DEF HeadSize, Sent
<1>6. Position = HeadSize(input) + Len(read) /\ HeadSize(input) \in Int
  <2> DEFINE p == Position  r == Len(Rest)  s == Len(Sent)  b == BodySize(input)  m == Len(read)
  <2>1. p \in Int /\ s \in Nat /\ b \in Nat /\ m \in Nat /\ r = s - p /\ r = b - m
    <3>1. p \in Int
      BY <1>2
    <3>2. s \in Nat /\ b \in Nat /\ m \in Nat
      BY <1>1, <1>2, <1>4
    <3>3. r = s - p /\ r = b - m
      BY <1>2, <1>3, Zenon
    <3> QED BY <3>1, <3>2, <3>3
  <2> HIDE DEF p, r, s, b, m
  <2>2. p = (s - b) + m /\ s - b \in Int
    BY <2>1
  <2> QED BY <1>5, <2>2 DEF p, s, b, m
<1> HIDE DEF Position
<1>a. Len(text) \in Nat /\ Position \in 0 .. Len(text)
  BY <1>2
<1>b. \A t \in Nat : \A p \in 0 .. t : \A h \in Int : \A r \in Nat :
        p = h + r => /\ ~(t < h) /\ t - h \in Nat /\ r <= t - h
                     /\ p < t => r < t - h
                     /\ p = t => r = t - h
  OBVIOUS
<1>7. /\ ~(Len(text) < HeadSize(input))
      /\ Len(text) - HeadSize(input) \in Nat /\ Len(read) <= Len(text) - HeadSize(input)
      /\ Position < Len(text) => Len(read) < Len(text) - HeadSize(input)
      /\ Position = Len(text) => Len(read) = Len(text) - HeadSize(input)
  BY ONLY <1>4, <1>6, <1>a, <1>b
<1>8. Received(input) = Len(text) - HeadSize(input)
  BY <1>7 DEF Received
<1>9. /\ Received(input) \in Nat /\ Len(read) <= Received(input)
      /\ Position < Len(text) => Len(read) < Received(input)
      /\ Position = Len(text) => Len(read) = Received(input)
  BY ONLY <1>7, <1>8
<1> QED
  BY <1>1, <1>3, <1>4, <1>9

(* What the invariant says while a body of a known length is read.         *)
LEMMA InBody ==
    ASSUME RunInv, InMessage, pc = "message", state = "Body"
    PROVE  /\ buffer \in Texts /\ Len(buffer) \in Nat /\ Len(buffer) <= limits.body
           /\ buffer \o Rest = Data(0, BodySize(input)) /\ From(BodyPart(1)) = Data(0, BodySize(input))
           /\ Passed(BodyPart(1) - 1)
           /\ input.framing \in {"eof", "length"} /\ (canEof <=> input.framing = "eof")
           /\ ~canEof => contentLength = BodySize(input) /\ Len(buffer) < contentLength
           /\ Len(BodyVerdicts(input)) = 1
           /\ canEof => /\ SentBody(input) = Data(0, Received(input))
                        /\ BodyVerdicts(input)[1] = BufferVerdict(Received(input), limits.buffer)
           /\ ~canEof => /\ SentBody(input) = Data(0, BodySize(input))
                         /\ BodyVerdicts(input)[1] = BufferVerdict(BodySize(input), limits.buffer + 1)
<1>1. StreamInv /\ input \in Straight /\ TakesBody(input) /\ BodyInv
  BY InMessageIs
<1>2. /\ input.framing \in {"eof", "length"} /\ (canEof <=> input.framing = "eof")
      /\ ~canEof => contentLength = BodySize(input) /\ Len(buffer) < contentLength
      /\ Passed(BodyPart(1) - 1) /\ buffer \in Texts /\ buffer \o Rest = From(BodyPart(1))
      /\ Len(buffer) <= limits.body
  BY <1>1 DEF BodyInv, At, Texts
<1>3. From(BodyPart(1)) = Data(0, BodySize(input))
  BY <1>1, <1>2, BodyWords
<1>4. EndsAtEof(input) <=> canEof
  BY <1>1, <1>2 DEF EndsAtEof
<1>5. CASE canEof
  <2>1. Len(BodyVerdicts(input)) = 1
        /\ BodyVerdicts(input)[1] = BufferVerdict(Received(input), limits.buffer)
    BY <1>1, <1>4, <1>5, BodyVerdictsAre
  <2>2. SentBody(input) = Data(0, Received(input))
    BY <1>1, <1>4, <1>5 DEF SentBody
  <2> QED BY <1>2, <1>3, <1>5, <2>1, <2>2 DEF Texts
<1>6. CASE ~canEof
  <2>1. Len(BodyVerdicts(input)) = 1
        /\ BodyVerdicts(input)[1] = BufferVerdict(BodySize(input), limits.buffer + 1)
    BY <1>1, <1>2, <1>6, BodyVerdictsAre
  <2>2. SentBody(input) = Data(0, BodySize(input))
    BY <1>1, <1>4, <1>6 DEF SentBody
  <2> QED BY <1>2, <1>3, <1>6, <2>1, <2>2 DEF Texts
<1> QED
  BY <1>5, <1>6

(* The body, or what was read of it, is longer than the buffer may be.     *)
LEMMA BodyExceeds ==
    ASSUME RunInv, InMessage, pc = "message", state = "Body", ~Fits, Fixed,
           Throw("GenericExceededBuffer")
    PROVE  ParseInv'
<1>1. /\ StreamInv /\ input \in Straight /\ limits.buffer \in Nat /\ limits.body \in Nat
  BY InMessageIs
<1>2. /\ buffer \in Texts /\ Len(buffer) \in Nat /\ Len(buffer) <= limits.body
      /\ buffer \o Rest = Data(0, BodySize(input)) /\ Passed(BodyPart(1) - 1)
      /\ ~canEof => contentLength = BodySize(input) /\ Len(buffer) < contentLength
      /\ Len(BodyVerdicts(input)) = 1
      /\ canEof => BodyVerdicts(input)[1] = BufferVerdict(Received(input), limits.buffer)
      /\ ~canEof => BodyVerdicts(input)[1] = BufferVerdict(BodySize(input), limits.buffer + 1)
  BY InBody
<1>3. /\ BodySize(input) \in Nat /\ Received(input) \in Nat /\ Len(buffer) <= Received(input)
  BY <1>1, <1>2, HasReceived
<1>4. Len(buffer) > limits.buffer
  BY <1>1, <1>2 DEF Fits
<1>5. BodyVerdicts(input)[1] = "GenericExceededBuffer"
  <2>1. CASE canEof
    <3>1. Received(input) > limits.buffer /\ ~(limits.body <= limits.buffer)
      BY <1>1, <1>2, <1>3, <1>4
    <3> QED BY <1>2, <2>1, <3>1 DEF BufferVerdict
  <2>2. CASE ~canEof
    <3>1. BodySize(input) > limits.buffer + 1 /\ ~(limits.body <= limits.buffer)
      BY <1>1, <1>2, <1>3, <1>4, <2>2
    <3> QED BY <1>2, <2>2, <3>1 DEF BufferVerdict
  <2> QED BY <2>1, <2>2
<1> QED
  BY <1>1, <1>2, <1>5, BodyThrows DEF VerdictNames

(* The stream ends, and with it the body.                                  *)
LEMMA MessageFinishedStep ==
    ASSUME RunInv, InMessage, MessageFinished, UNCHANGED <<input, startVars>>
    PROVE  ParseInv'
<1>0. /\ pc = "message" /\ Fits /\ NextFinished /\ Fixed
      /\ UNCHANGED <<headers, contentLength, isChunkBody, hostSet>>
  BY DEF MessageFinished, NextFinished, Fixed
<1>1. /\ StreamInv /\ input \in Straight /\ limits.buffer \in Nat /\ limits.body \in Nat
      /\ state \in {"HeaderLine", "Body", "ChunkedBodySize", "ChunkedBodyData", "AppendToBody"}
      /\ state # "HeaderLine" => HeadersSaid(HeaderCount)
      /\ HeaderLineInv /\ (InChunkState => ~canEof)
  BY <1>0, InMessageIs
<1>2. StreamInv' /\ Position = Len(text)
  BY <1>0, <1>1, ReadsEnd
<1>3. CASE canEof
  <2>1. pc' = "built" /\ body' = buffer
    BY <1>3 DEF MessageFinished, Complete
  <2>2. state = "Body"
    BY <1>1, <1>3 DEF HeaderLineInv, InChunkState
  <2>3. /\ buffer \in Texts /\ Len(buffer) \in Nat /\ Len(buffer) <= limits.body
        /\ buffer \o Rest = Data(0, BodySize(input)) /\ Passed(BodyPart(1) - 1)
        /\ Len(BodyVerdicts(input)) = 1 /\ SentBody(input) = Data(0, Received(input))
        /\ BodyVerdicts(input)[1] = BufferVerdict(Received(input), limits.buffer)
    BY <1>0, <1>3, <2>2, InBody
  <2>4. buffer = Data(0, Len(buffer)) /\ Len(buffer) = Received(input)
    BY <1>1, <1>2, <2>3, HasReceived
  <2>5. BodyVerdicts(input)[1] = "ok" /\ 1 \in 1 .. Len(BodyVerdicts(input))
    <3>1. ~(Received(input) > limits.body) /\ ~(Received(input) > limits.buffer)
      BY <1>0, <1>1, <2>3, <2>4 DEF Fits
    <3> QED BY <2>3, <3>1 DEF BufferVerdict
  <2>6. Passed(Len(Verdicts(input)) - 1)
    BY <1>1, <2>3, <2>5, BodyPasses
  <2>7. body' = SentBody(input)
    BY <2>1, <2>3, <2>4
  <2> QED BY <1>0, <1>1, <1>2, <2>1, <2>2, <2>6, <2>7, MessageCompletes
<1>4. CASE ~canEof
  <2>1. Throw("UnexpectedEof")
    BY <1>4 DEF MessageFinished
  <2>2. Rest # <<>>
    BY <1>0, <1>4, MoreFollows
  <2> QED BY <1>0, <1>1, <2>1, <2>2, ThrowsEof
<1> QED
  BY <1>3, <1>4

(* A unit of the body is read.                                             *)
LEMMA BodyStep ==
    ASSUME RunInv, InMessage, Body, UNCHANGED <<input, startVars>>
    PROVE  ParseInv'
<1> DEFINE size == Len(buffer) + 1
<1>0. /\ pc = "message" /\ state = "Body" /\ Fits /\ NextChar /\ Fixed
      /\ buffer' = Append(buffer, Char)
      /\ UNCHANGED <<hasBody, state, headers, contentLength, isChunkBody, hostSet, canEof>>
  BY DEF Body, InState, NextChar, Fixed
<1>1. /\ StreamInv /\ input \in Straight /\ limits.buffer \in Nat /\ limits.body \in Nat
      /\ hasBody /\ TakesBody(input) /\ HeadersSaid(HeaderCount)
  BY <1>0, InMessageIs
<1>2. /\ buffer \in Texts /\ Len(buffer) \in Nat /\ Len(buffer) <= limits.body
      /\ buffer \o Rest = Data(0, BodySize(input)) /\ From(BodyPart(1)) = Data(0, BodySize(input))
      /\ Passed(BodyPart(1) - 1)
      /\ input.framing \in {"eof", "length"} /\ (canEof <=> input.framing = "eof")
      /\ ~canEof => contentLength = BodySize(input) /\ Len(buffer) < contentLength
      /\ Len(BodyVerdicts(input)) = 1
      /\ canEof => BodyVerdicts(input)[1] = BufferVerdict(Received(input), limits.buffer)
      /\ ~canEof => /\ SentBody(input) = Data(0, BodySize(input))
                    /\ BodyVerdicts(input)[1] = BufferVerdict(BodySize(input), limits.buffer + 1)
  BY <1>0, InBody
<1>3. StreamInv' /\ Rest' \in Texts
  BY <1>0, <1>1, ReadsChar
<1>4. /\ Append(buffer, Char) \in Texts /\ Len(Append(buffer, Char)) = size
      /\ Append(buffer, Char) \o Rest' = From(BodyPart(1))
  <2>1. buffer \o Rest = From(BodyPart(1))
    BY <1>2
  <2> QED BY <1>0, <1>1, <1>2, <2>1, AtNext
<1>5. /\ BodySize(input) \in Nat /\ Received(input) \in Nat /\ Len(buffer) < Received(input)
  <2>1. Position < Len(text)
    <3>1. HasChar /\ (TakeBuffered \/ TakeRead) /\ UNCHANGED text
      BY <1>0 DEF NextChar
    <3> QED BY <1>1, <3>1, Takes
  <2> QED BY <1>1, <1>2, <2>1, HasReceived
<1>6. size <= BodySize(input) /\ Append(buffer, Char) = Data(0, size)
  <2>1. Append(buffer, Char) \o Rest' = Data(0, BodySize(input))
    BY <1>2, <1>4
  <2> QED BY <1>3, <1>4, <1>5, <2>1, DataBegins DEF Texts
<1>7. size \in Nat /\ size <= Received(input) /\ Len(buffer') = size
  BY <1>0, <1>2, <1>4, <1>5
<1>8. IF size > limits.body THEN Throw("BodyExceededLimit")
      ELSE IF ~canEof /\ size = contentLength THEN pc' = "built" /\ body' = buffer'
      ELSE pc' = pc
  BY <1>7 DEF Body, ExceedsBody, HasLength, Complete, Running
<1>s. size = Len(buffer) + 1
  OBVIOUS
<1> HIDE DEF size
<1>9. CASE size > limits.body
  <2>1. limits.body <= limits.buffer
    BY <1>0, <1>1, <1>2, <1>9, <1>s DEF Fits
  <2>2. Received(input) > limits.body /\ BodySize(input) > limits.body
    BY <1>1, <1>5, <1>6, <1>7, <1>9
  <2>3. BodyVerdicts(input)[1] = "BodyExceededLimit" /\ 1 \in 1 .. Len(BodyVerdicts(input))
    BY <1>2, <2>1, <2>2 DEF BufferVerdict
  <2> QED BY <1>0, <1>1, <1>2, <1>8, <1>9, <2>3, BodyThrows DEF VerdictNames
<1>10. CASE ~(size > limits.body) /\ ~canEof /\ size = contentLength
  <2>1. ~(BodySize(input) > limits.body) /\ ~(BodySize(input) > limits.buffer + 1)
    BY <1>0, <1>1, <1>2, <1>10, <1>s DEF Fits
  <2>2. BodyVerdicts(input)[1] = "ok" /\ 1 \in 1 .. Len(BodyVerdicts(input))
    BY <1>2, <1>10, <2>1 DEF BufferVerdict
  <2>3. Passed(Len(Verdicts(input)) - 1)
    BY <1>1, <1>2, <2>2, BodyPasses
  <2>4. pc' = "built" /\ body' = SentBody(input)
    BY <1>0, <1>2, <1>6, <1>8, <1>10
  <2> QED BY <1>0, <1>1, <1>3, <2>3, <2>4, MessageCompletes
<1>11. CASE ~(size > limits.body) /\ ~(~canEof /\ size = contentLength)
  <2>1. pc' = pc
    BY <1>8, <1>11
  <2>2. /\ input' = input /\ limits' = limits /\ BodySize(input)' = BodySize(input)
        /\ TakesBody(input)' = TakesBody(input)
    BY <1>0, FixedKeeps DEF Fixed
  <2>3. At(BodyPart(1), buffer)'
    BY <1>0, <1>2, <1>4, FixedKeeps DEF At, Texts
  <2>4. ~canEof => size < contentLength
    <3>1. size <= BodySize(input) /\ size # BodySize(input) => size < BodySize(input)
      BY <1>5, <1>7
    <3> QED BY <1>2, <1>6, <1>11, <3>1
  <2>5. size <= limits.body
    BY <1>1, <1>7, <1>11
  <2>6. BodyInv'
    BY <1>0, <1>2, <1>7, <2>2, <2>3, <2>4, <2>5 DEF BodyInv
  <2>7. HeadersSaid(HeaderCount)'
    <3>1. HeaderCount' = HeaderCount
      BY <1>0, FixedKeeps
    <3>2. \A n : HeadersSaid(n)' <=> HeadersSaid(n)
      BY <1>0, HeadersKeep
    <3> QED BY <1>1, <3>1, <3>2
  <2>8. MessageInv'
    BY <1>0, <1>1, <2>2, <2>6, <2>7
       DEF MessageInv, InChunkState, HeaderLineInv, ChunkSizeInv, ChunkDataInv, AppendInv
  <2> QED BY <1>0, <1>3, <2>1, <2>8, MessageGoesOn
<1> QED
  BY <1>9, <1>10, <1>11

(* The number in the line before the i-th chunk, and the verdict on the    *)
(* chunk.                                                                  *)
SentSize(i) ==
    IF input.framing = "longChunk" THEN 1
    ELSE IF i \in 1 .. Len(input.ends) THEN Size(input, i) ELSE 0

ChunkAt(i) ==
    /\ i \in 1 .. Len(input.ends) + 1 /\ (i = 1 \/ input.framing = "chunked")
    /\ input.framing \in {"chunked", "longChunk", "badSize"}

LEMMA ChunkSizeIs ==
    ASSUME input \in Straight, NEW i, ChunkAt(i), input.framing # "badSize"
    PROVE  /\ ChunkLine(i) = SizeLine(SentSize(i)) /\ SentSize(i) \in Nat
           /\ SentSize(i) = 0 => input.framing = "chunked" /\ i = Len(input.ends) + 1
           /\ SentSize(i) # 0 => IsChunk(i, SentSize(i), Before(input, i))
           /\ Len(ChunkLine(i)) = 1 /\ ChunkLine(i)[1] = <<"size", SentSize(i)>>
           /\ ChunkLine(i) \in Texts
<1>1. Len(input.ends) \in Nat /\ i \in 1 .. Len(input.ends) + 1 /\ Before(input, 1) = 0
  BY EndsAre DEF ChunkAt
<1>2. ChunkLine(i) = SizeLine(SentSize(i))
  BY DEF ChunkLine, SentSize
<1>3. CASE input.framing = "longChunk"
  <2>1. SentSize(i) = 1 /\ i = 1
    BY <1>3 DEF SentSize, ChunkAt
  <2>2. IsChunk(i, SentSize(i), Before(input, i))
    BY <1>1, <1>3, <2>1 DEF IsChunk
  <2> QED BY <1>2, <2>1, <2>2, SizeLineIs
<1>4. CASE input.framing = "chunked"
  <2>1. CASE i \in 1 .. Len(input.ends)
    <3>1. SentSize(i) = Size(input, i) /\ Size(input, i) \in Nat \ {0}
      BY <1>4, <2>1, ChunkIs DEF SentSize
    <3>2. IsChunk(i, SentSize(i), Before(input, i))
      BY <1>4, <2>1, <3>1 DEF IsChunk
    <3> QED BY <1>2, <3>1, <3>2, SizeLineIs
  <2>2. CASE i \notin 1 .. Len(input.ends)
    <3>1. SentSize(i) = 0 /\ i = Len(input.ends) + 1
      BY <1>1, <1>4, <2>2 DEF SentSize
    <3> QED BY <1>2, <1>4, <3>1, SizeLineIs
  <2> QED BY <2>1, <2>2
<1> QED
  BY <1>3, <1>4 DEF ChunkAt

LEMMA ChunkVerdictIs ==
    ASSUME input \in Straight, TakesBody(input), NEW i, ChunkAt(i)
    PROVE  /\ i \in 1 .. Len(BodyVerdicts(input))
           /\ Len(ChunkLine(i)) >= limits.buffer =>
                BodyVerdicts(input)[i] = "GenericExceededBuffer"
           /\ input.framing = "badSize" /\ ~(Len(ChunkLine(i)) >= limits.buffer) =>
                BodyVerdicts(input)[i] = "MalformedMessage"
           /\ input.framing = "chunked" /\ i = Len(input.ends) + 1 =>
                /\ i = Len(BodyVerdicts(input))
                /\ ~(Len(ChunkLine(i)) >= limits.buffer) => BodyVerdicts(input)[i] = "ok"
           /\ input.framing # "badSize" /\ SentSize(i) # 0 /\ ~(Len(ChunkLine(i)) >= limits.buffer) =>
                BodyVerdicts(input)[i] =
                    IF Before(input, i) + SentSize(i) > limits.body THEN "BodyExceededLimit"
                    ELSE IF SentSize(i) + 1 > limits.buffer THEN "GenericExceededBuffer"
                    ELSE IF input.framing = "longChunk" THEN "MalformedMessage" ELSE "ok"
<1>1. Len(input.ends) \in Nat /\ i \in 1 .. Len(input.ends) + 1 /\ Before(input, 1) = 0
      /\ input.framing \in {"chunked", "longChunk", "badSize"}
      /\ (i = 1 \/ input.framing = "chunked")
  BY EndsAre DEF ChunkAt
<1>2. CASE input.framing = "badSize"
  <2>1. Len(BodyVerdicts(input)) = 1
        /\ BodyVerdicts(input)[1] = LineVerdict(BadSizeLine, TRUE, "MalformedMessage")
    BY <1>2, BodyVerdictsAre
  <2>2. i = 1 /\ ChunkLine(i) = BadSizeLine
    BY <1>1, <1>2 DEF ChunkLine
  <2> QED BY <1>2, <2>1, <2>2 DEF LineVerdict
<1>3. CASE input.framing = "longChunk"
  <2>1. Len(BodyVerdicts(input)) = 1 /\ BodyVerdicts(input)[1] = LongChunkVerdict
    BY <1>3, BodyVerdictsAre
  <2>2. i = 1 /\ SentSize(i) = 1 /\ ChunkLine(i) = SizeLine(1)
    BY <1>1, <1>3, ChunkSizeIs DEF SentSize
  <2>3. LongChunkVerdict =
            IF Len(ChunkLine(i)) >= limits.buffer THEN "GenericExceededBuffer"
            ELSE IF Before(input, i) + SentSize(i) > limits.body THEN "BodyExceededLimit"
            ELSE IF SentSize(i) + 1 > limits.buffer THEN "GenericExceededBuffer"
            ELSE "MalformedMessage"
    BY <1>1, <2>2 DEF LongChunkVerdict, ChunkVerdict, LineVerdict
  <2>4. i \in 1 .. Len(BodyVerdicts(input))
    BY <2>1, <2>2
  <2> QED BY <1>3, <2>1, <2>2, <2>3, <2>4, Zenon
<1>4. CASE input.framing = "chunked" /\ i = Len(input.ends) + 1
  <2>1. /\ Len(BodyVerdicts(input)) = Len(input.ends) + 1
        /\ BodyVerdicts(input)[Len(input.ends) + 1] = LineVerdict(SizeLine(0), FALSE, "ok")
    BY <1>4, BodyVerdictsAre
  <2>2. ~(Len(input.ends) + 1 \in 1 .. Len(input.ends))
    BY <1>1
  <2>3. SentSize(i) = 0 /\ ChunkLine(i) = SizeLine(0)
    BY <1>4, <2>2, ChunkSizeIs DEF SentSize
  <2>4. i \in 1 .. Len(BodyVerdicts(input))
    BY <1>1, <1>4, <2>1
  <2> QED BY <1>4, <2>1, <2>3, <2>4 DEF LineVerdict
<1>5. CASE input.framing = "chunked" /\ i # Len(input.ends) + 1
  <2>0. i \in 1 .. Len(input.ends)
    BY <1>1, <1>5
  <2>1. /\ Len(BodyVerdicts(input)) = Len(input.ends) + 1
        /\ BodyVerdicts(input)[i] = ChunkVerdict(Size(input, i), Before(input, i))
    BY <1>5, <2>0, BodyVerdictsAre
  <2>2. SentSize(i) = Size(input, i) /\ ChunkLine(i) = SizeLine(Size(input, i))
    BY <1>5, <2>0, ChunkSizeIs DEF SentSize
  <2>3. ChunkVerdict(Size(input, i), Before(input, i)) =
            IF Len(ChunkLine(i)) >= limits.buffer THEN "GenericExceededBuffer"
            ELSE IF Before(input, i) + SentSize(i) > limits.body THEN "BodyExceededLimit"
            ELSE IF SentSize(i) + 1 > limits.buffer THEN "GenericExceededBuffer"
            ELSE "ok"
    BY <2>2 DEF ChunkVerdict, LineVerdict
  <2>4. i \in 1 .. Len(BodyVerdicts(input))
    BY <1>1, <2>0, <2>1
  <2> QED BY <1>5, <2>1, <2>2, <2>3, <2>4, Zenon
<1> QED
  BY <1>1, <1>2, <1>3, <1>4, <1>5

(* The parser is in the line before the i-th chunk.                        *)
InChunkLine(i) ==
    /\ ChunkAt(i) /\ Passed(BodyPart(i) - 1)
    /\ buffer \in Texts /\ buffer \o Rest = From(BodyPart(i)) /\ Lacks(buffer, Lf)
    /\ decodedBody = Data(0, Before(input, i))

LEMMA SomeChunkLine ==
    ASSUME RunInv, InMessage, pc = "message", state = "ChunkedBodySize"
    PROVE  \E i : InChunkLine(i)
<1>1. ChunkSizeInv /\ input.framing \in {"chunked", "longChunk", "badSize"}
  BY InMessageIs DEF InChunkState
<1> QED
  BY <1>1 DEF ChunkSizeInv, InChunkLine, ChunkAt, At, Texts

(* What the invariant says of it.                                          *)
LEMMA ChunkLineFacts ==
    ASSUME StreamInv, input \in Straight, NEW i, InChunkLine(i)
    PROVE  /\ ChunkLine(i) \in Texts /\ Lacks(ChunkLine(i), Lf)
           /\ Begins(BodyPart(i), Append(ChunkLine(i), Cr), Lf, ChunkMore(i))
           /\ Len(buffer) <= Len(ChunkLine(i)) + 1 /\ Len(buffer) \in Nat
           /\ Len(ChunkLine(i)) \in Nat
<1>1. /\ ChunkLine(i) \in Texts /\ Lacks(ChunkLine(i), Lf)
      /\ Begins(BodyPart(i), Append(ChunkLine(i), Cr), Lf, ChunkMore(i))
  BY ChunkLineIs DEF InChunkLine, ChunkAt
<1>2. Len(Append(ChunkLine(i), Cr)) = Len(ChunkLine(i)) + 1 /\ Len(ChunkLine(i)) \in Nat
  BY <1>1, WithReturn
<1>3. Len(buffer) <= Len(Append(ChunkLine(i), Cr)) /\ Len(buffer) \in Nat
  BY <1>1, InWord DEF InChunkLine
<1> QED
  BY <1>1, <1>2, <1>3

(* A line before a chunk that is longer than the buffer may be.            *)
LEMMA ChunkSizeExceeds ==
    ASSUME RunInv, InMessage, pc = "message", state = "ChunkedBodySize", ~Fits, Fixed,
           Throw("GenericExceededBuffer")
    PROVE  ParseInv'
<1>1. StreamInv /\ input \in Straight /\ limits.buffer \in Nat /\ TakesBody(input)
  BY InMessageIs
<1>2. PICK i : InChunkLine(i)
  BY SomeChunkLine
<1>3. /\ Len(buffer) <= Len(ChunkLine(i)) + 1 /\ Len(buffer) \in Nat
      /\ Len(ChunkLine(i)) \in Nat
  BY <1>1, <1>2, ChunkLineFacts
<1>4. Len(ChunkLine(i)) >= limits.buffer
  BY <1>1, <1>3 DEF Fits
<1>5. i \in 1 .. Len(BodyVerdicts(input)) /\ BodyVerdicts(input)[i] = "GenericExceededBuffer"
  BY <1>1, <1>2, <1>4, ChunkVerdictIs DEF InChunkLine
<1>6. Passed(BodyPart(i) - 1)
  BY <1>2 DEF InChunkLine
<1> QED
  BY <1>1, <1>5, <1>6, BodyThrows DEF VerdictNames

(* The actions of the line before a chunk: a character of it.              *)
LEMMA ChunkSizeGrowsStep ==
    ASSUME RunInv, InMessage, LineGrows("ChunkedBodySize"), UNCHANGED <<input, startVars>>
    PROVE  ParseInv'
<1>0. /\ pc = "message" /\ state = "ChunkedBodySize" /\ NextChar /\ ~EndsLine /\ Fixed
      /\ buffer' = Append(buffer, Char) /\ pc' = pc
      /\ UNCHANGED <<hasBody, state, headers, contentLength, isChunkBody, hostSet,
                     lastChunkSize, decodedBody, canEof, startVars, input>>
  BY DEF LineGrows, InState, NextChar, Running, Fixed
<1>1. /\ StreamInv /\ input \in Straight /\ hasBody /\ TakesBody(input)
      /\ HeadersSaid(HeaderCount) /\ ~canEof
      /\ input.framing \in {"chunked", "longChunk", "badSize"}
  BY <1>0, InMessageIs DEF InChunkState
<1>2. PICK i : InChunkLine(i)
  BY <1>0, SomeChunkLine
<1>3. /\ Append(buffer, Char) \in Texts /\ Lacks(Append(buffer, Char), Lf)
      /\ Append(buffer, Char) \o Rest' = From(BodyPart(i))
  <2>1. /\ ChunkLine(i) \in Texts /\ Lacks(ChunkLine(i), Lf)
        /\ Begins(BodyPart(i), Append(ChunkLine(i), Cr), Lf, ChunkMore(i))
    BY <1>1, <1>2, ChunkLineFacts
  <2>2. buffer \in Texts /\ buffer \o Rest = From(BodyPart(i)) /\ Lacks(buffer, Lf)
    BY <1>2 DEF InChunkLine
  <2> QED BY <1>0, <1>1, <2>1, <2>2, LineStep
<1>4. StreamInv'
  BY <1>0, <1>1, ReadsChar
<1>5. /\ input' = input /\ TakesBody(input)' = TakesBody(input) /\ HeadersSaid(HeaderCount)'
  <2>1. HeaderCount' = HeaderCount /\ TakesBody(input)' = TakesBody(input)
    BY <1>0, FixedKeeps
  <2>2. \A n : HeadersSaid(n)' <=> HeadersSaid(n)
    BY <1>0, HeadersKeep
  <2> QED BY <1>0, <1>1, <2>1, <2>2
<1>6. ChunkSizeInv'
  <2>1. At(BodyPart(i), buffer)'
    BY <1>0, <1>2, <1>3, FixedKeeps DEF At, Texts, InChunkLine
  <2>2. Lacks(buffer, Lf)'
    BY <1>0, <1>3 DEF Lacks
  <2>3. decodedBody' = Data(0, Before(input, i))' /\ ChunkAt(i)'
    BY <1>0, <1>2, <1>5 DEF InChunkLine, ChunkAt
  <2> QED BY <2>1, <2>2, <2>3 DEF ChunkSizeInv, ChunkAt
<1>7. MessageInv'
  BY <1>0, <1>1, <1>5, <1>6
     DEF MessageInv, InChunkState, HeaderLineInv, BodyInv, ChunkDataInv, AppendInv
<1> QED
  BY <1>0, <1>4, <1>7, MessageGoesOn

(* What the headers said stays while the body is read.                     *)
LEMMA HeadersStay ==
    ASSUME Fixed, UNCHANGED <<headers, contentLength, isChunkBody, hostSet>>,
           HeadersSaid(HeaderCount)
    PROVE  /\ input' = input /\ limits' = limits /\ TakesBody(input)' = TakesBody(input)
           /\ HeadersSaid(HeaderCount)'
<1>1. HeaderCount' = HeaderCount /\ TakesBody(input)' = TakesBody(input)
  BY FixedKeeps
<1>2. \A n : HeadersSaid(n)' <=> HeadersSaid(n)
  BY HeadersKeep
<1> QED
  BY <1>1, <1>2 DEF Fixed

(* No sum of a chunk that is sent wraps.                                   *)
LEMMA ChunkFits ==
    ASSUME input \in Straight, NEW i, NEW size, NEW before, IsChunk(i, size, before)
    PROVE  Wrapped(before + size) = before + size /\ Wrapped(size + 2) = size + 2
<1>1. CASE /\ input.framing = "chunked" /\ i \in 1 .. Len(input.ends)
           /\ size = Size(input, i) /\ before = Before(input, i)
  BY <1>1, ChunkIs
<1>2. CASE size = 1 /\ before = 0
  <2>1. 0 + 1 < SizeModulus /\ 1 + 2 < SizeModulus
    BY MessageParserAssumption
  <2>2. 0 + 1 \in Nat /\ 1 + 2 \in Nat
    OBVIOUS
  <2>3. Wrapped(0 + 1) = 0 + 1 /\ Wrapped(1 + 2) = 1 + 2
    BY <2>1, <2>2, SumFits
  <2> QED BY <1>2, <2>3
<1> QED
  BY <1>1, <1>2 DEF IsChunk

(* The end of the line before a chunk.                                     *)
LEMMA ChunkBegins ==
    ASSUME RunInv, InMessage, ChunkedBodySize, UNCHANGED <<input, startVars>>
    PROVE  /\ pc = "message" /\ state = "ChunkedBodySize" /\ Fixed /\ StreamInv'
           /\ UNCHANGED <<headers, contentLength, isChunkBody, hostSet, hasBody, decodedBody, canEof>>
           /\ buffer' = <<>>
           /\ \E i : /\ ChunkAt(i) /\ Passed(BodyPart(i) - 1)
                     /\ decodedBody = Data(0, Before(input, i))
                     /\ Line = ChunkLine(i) /\ Rest' = ChunkMore(i) /\ Rest' \in Texts
                     /\ From(BodyPart(i)) = (ChunkLine(i) \o Crlf) \o Rest'
                     /\ ~(Len(ChunkLine(i)) >= limits.buffer)
<1>0. /\ pc = "message" /\ state = "ChunkedBodySize" /\ NextChar /\ EndsLine /\ Fits /\ Fixed
      /\ buffer' = <<>>
      /\ UNCHANGED <<headers, contentLength, isChunkBody, hostSet, hasBody, decodedBody, canEof>>
  BY DEF ChunkedBodySize, InState, NextChar, Fixed
<1>1. StreamInv /\ input \in Straight /\ limits.buffer \in Nat
  BY <1>0, InMessageIs
<1>2. PICK i : InChunkLine(i)
  BY <1>0, SomeChunkLine
<1>3. /\ ChunkLine(i) \in Texts /\ Lacks(ChunkLine(i), Lf)
      /\ Begins(BodyPart(i), Append(ChunkLine(i), Cr), Lf, ChunkMore(i))
  BY <1>1, <1>2, ChunkLineFacts
<1>4. /\ Line = ChunkLine(i) /\ Rest' = ChunkMore(i)
      /\ Len(buffer) = Len(ChunkLine(i)) + 1 /\ Len(ChunkLine(i)) \in Nat
  <2>1. buffer \in Texts /\ buffer \o Rest = From(BodyPart(i)) /\ Lacks(buffer, Lf)
    BY <1>2 DEF InChunkLine
  <2> QED BY <1>0, <1>1, <1>3, <2>1, LineStep
<1>5. StreamInv' /\ Rest' \in Texts
  BY <1>0, <1>1, ReadsChar
<1>6. From(BodyPart(i)) = (ChunkLine(i) \o Crlf) \o Rest'
  <2>1. From(BodyPart(i)) = (Append(ChunkLine(i), Cr) \o <<Lf>>) \o ChunkMore(i)
    BY <1>3 DEF Begins
  <2>2. ChunkLine(i) \o Crlf = Append(ChunkLine(i), Cr) \o <<Lf>>
    BY <1>3, LineIsWord DEF Texts
  <2> QED BY <1>4, <2>1, <2>2
<1>7. ~(Len(ChunkLine(i)) >= limits.buffer)
  BY <1>0, <1>1, <1>4 DEF Fits
<1>8. ChunkAt(i) /\ Passed(BodyPart(i) - 1) /\ decodedBody = Data(0, Before(input, i))
  BY <1>2 DEF InChunkLine
<1> QED
  BY <1>0, <1>4, <1>5, <1>6, <1>7, <1>8

LEMMA ChunkedBodySizeStep ==
    ASSUME RunInv, InMessage, ChunkedBodySize, UNCHANGED <<input, startVars>>
    PROVE  ParseInv'
<1>0. /\ pc = "message" /\ state = "ChunkedBodySize" /\ Fixed /\ StreamInv'
      /\ UNCHANGED <<headers, contentLength, isChunkBody, hostSet, hasBody, decodedBody, canEof>>
      /\ buffer' = <<>>
  BY ChunkBegins
<1>1. /\ StreamInv /\ input \in Straight /\ hasBody /\ TakesBody(input)
      /\ limits.buffer \in Nat /\ limits.body \in Nat
      /\ HeadersSaid(HeaderCount) /\ ~canEof
      /\ input.framing \in {"chunked", "longChunk", "badSize"}
  BY <1>0, InMessageIs DEF InChunkState
<1>2. PICK i : /\ ChunkAt(i) /\ Passed(BodyPart(i) - 1)
               /\ decodedBody = Data(0, Before(input, i))
               /\ Line = ChunkLine(i) /\ Rest' = ChunkMore(i) /\ Rest' \in Texts
               /\ From(BodyPart(i)) = (ChunkLine(i) \o Crlf) \o Rest'
               /\ ~(Len(ChunkLine(i)) >= limits.buffer)
  BY ChunkBegins
<1>3. i \in 1 .. Len(BodyVerdicts(input))
  BY <1>1, <1>2, ChunkVerdictIs
<1>4. CASE input.framing = "badSize"
  <2>1. Line = BadSizeLine /\ 2 \in DOMAIN BadSizeLine /\ BadSizeLine[2][1] = "junk"
    BY <1>2, <1>4, BadSizeLineIs DEF ChunkLine, Texts
  <2>2. Has(Line, {"junk", "cr", "lf"})
    BY <2>1 DEF Has
  <2>3. Throw("MalformedMessage")
    BY <2>2 DEF ChunkedBodySize
  <2>4. BodyVerdicts(input)[i] = "MalformedMessage"
    BY <1>1, <1>2, <1>4, ChunkVerdictIs
  <2> QED BY <1>0, <1>1, <1>2, <1>3, <2>3, <2>4, BodyThrows DEF VerdictNames
<1> DEFINE n == SentSize(i)
<1>5. CASE input.framing # "badSize"
  <2>1. /\ Line = SizeLine(n) /\ n \in Nat
        /\ n = 0 => input.framing = "chunked" /\ i = Len(input.ends) + 1
        /\ n # 0 => IsChunk(i, n, Before(input, i))
        /\ Len(Line) = 1 /\ Line[1] = <<"size", n>> /\ Line \in Texts
        /\ ChunkLine(i) = SizeLine(n)
    BY <1>1, <1>2, <1>5, ChunkSizeIs
  <2> HIDE DEF n
  <2>2. /\ Line # <<>> /\ Header(Line) = "size" /\ Value(Line) = n
        /\ ~Has(Line, {"junk", "cr", "lf"})
    <3>1. Line # <<>> /\ Head(Line) = Line[1] /\ DOMAIN Line = 1 .. 1
      <4>1. \A l \in Texts : Len(l) = 1 => l # <<>> /\ Head(l) = l[1] /\ DOMAIN l = 1 .. 1
        BY DEF Texts
      <4> QED BY <2>1, <4>1, Zenon
    <3>2. Line[1][1] = "size" /\ Line[1][2] = n
      BY <2>1
    <3>3. \A k \in DOMAIN Line : Line[k][1] = "size"
      BY <3>1, <3>2
    <3>4. ~Has(Line, {"junk", "cr", "lf"})
      BY <3>3 DEF Has
    <3> QED BY <3>1, <3>2, <3>4 DEF Header, Value
  <2>3. /\ lastChunkSize' = n
        /\ IF n = 0 THEN Complete(decodedBody) /\ UNCHANGED state
           ELSE IF ExceedsBody(Wrapped(Len(decodedBody) + n))
           THEN Throw("BodyExceededLimit") /\ UNCHANGED <<state, body>>
           ELSE Running /\ state' = "ChunkedBodyData" /\ UNCHANGED body
    BY <2>2 DEF ChunkedBodySize
  <2>4. Before(input, i) \in Nat /\ Len(decodedBody) = Before(input, i)
    <3>1. Before(input, i) \in Nat
      BY <1>1, <1>2, EndsAre DEF ChunkAt
    <3> QED BY <1>2, <3>1, DataFirst
  <2>5. CASE n = 0
    <3>1. pc' = "built" /\ body' = decodedBody
      BY <2>3, <2>5 DEF Complete
    <3>2. input.framing = "chunked" /\ i = Len(input.ends) + 1
      BY <2>1, <2>5
    <3>3. i = Len(BodyVerdicts(input)) /\ BodyVerdicts(input)[i] = "ok"
      BY <1>1, <1>2, <3>2, ChunkVerdictIs
    <3>4. Passed(Len(Verdicts(input)) - 1)
      BY <1>1, <1>2, <1>3, <3>3, BodyPasses
    <3>5. SentBody(input) = decodedBody
      BY <1>1, <1>2, <3>2 DEF SentBody, EndsAtEof, BodySize
    <3> QED BY <1>0, <1>1, <3>1, <3>4, <3>5, MessageCompletes
  <2>6. CASE n # 0 /\ Before(input, i) + n > limits.body
    <3>1. Throw("BodyExceededLimit")
      <4>1. Wrapped(Len(decodedBody) + n) = Len(decodedBody) + n
        BY <1>1, <2>1, <2>4, <2>6, ChunkFits
      <4> QED BY <2>3, <2>4, <2>6, <4>1 DEF ExceedsBody
    <3>2. BodyVerdicts(input)[i] = "BodyExceededLimit"
      BY <1>1, <1>2, <1>5, <2>6, ChunkVerdictIs DEF n
    <3> QED BY <1>0, <1>1, <1>2, <1>3, <3>1, <3>2, BodyThrows DEF VerdictNames
  <2>7. CASE n # 0 /\ ~(Before(input, i) + n > limits.body)
    <3>1. pc' = pc /\ state' = "ChunkedBodyData"
      <4>1. Wrapped(Len(decodedBody) + n) = Len(decodedBody) + n
        BY <1>1, <2>1, <2>4, <2>7, ChunkFits
      <4> QED BY <2>3, <2>4, <2>7, <4>1 DEF ExceedsBody, Running
    <3>2. IsChunk(i, n, Len(decodedBody)) /\ n > 0 /\ Len(decodedBody) + n <= limits.body
      BY <1>1, <2>1, <2>4, <2>7
    <3>3. limits.buffer > 1
      BY <1>1, <1>2, <2>1
    <3>4. /\ <<>> \in Seq(Symbols) /\ Len(<<>>) = 0 /\ (SizeLine(n) \o Crlf) \o <<>> = SizeLine(n) \o Crlf
          /\ SizeLine(n) \o Crlf \in Seq(Symbols)
      BY <2>1, SizeLineIs, LineIsWord DEF Texts
    <3>5. (SizeLine(n) \o Crlf \o <<>>) \o Rest' = From(BodyPart(i))
      BY <1>2, <2>1, <3>4
    <3>6. /\ input' = input /\ limits' = limits /\ TakesBody(input)' = TakesBody(input)
          /\ HeadersSaid(HeaderCount)'
      BY <1>0, <1>1, HeadersStay
    <3>7. At(BodyPart(i), SizeLine(lastChunkSize) \o Crlf \o buffer)'
      <4>1. Passed(BodyPart(i) - 1)' /\ From(BodyPart(i))' = From(BodyPart(i))
        BY <1>0, <1>2, FixedKeeps
      <4> QED BY <1>0, <2>3, <3>4, <3>5, <4>1 DEF At, SizeLine
    <3>8. ChunkDataInv'
      <4>1. IsChunk(i, lastChunkSize, Len(decodedBody))'
        BY <1>0, <2>3, <3>2, <3>6 DEF IsChunk, Size, Before
      <4>2. i \in 1 .. Len(input'.ends) + 1
        BY <1>2, <3>6 DEF ChunkAt
      <4>3. decodedBody' = Data(0, Len(decodedBody'))
        BY <1>0, <1>2, <2>4
      <4>4. Len(buffer') < lastChunkSize' + 2 /\ lastChunkSize' > 0 /\ buffer' \in Seq(Symbols)
        BY <1>0, <2>1, <2>3, <3>2, <3>4
      <4>5. limits'.buffer > 1 /\ Len(decodedBody') + lastChunkSize' <= limits'.body
        BY <1>0, <2>3, <3>2, <3>3, <3>6
      <4> QED BY <3>7, <4>1, <4>2, <4>3, <4>4, <4>5 DEF ChunkDataInv, Data
    <3>9. MessageInv'
      BY <1>0, <1>1, <3>1, <3>6, <3>8
         DEF MessageInv, InChunkState, HeaderLineInv, BodyInv, ChunkSizeInv, AppendInv
    <3> QED BY <1>0, <3>1, <3>9, MessageGoesOn
  <2> QED BY <2>5, <2>6, <2>7
<1> QED
  BY <1>4, <1>5

(* The data of a chunk and what follows it, taken apart.                   *)
LEMMA ChunkSplit ==
    ASSUME NEW d \in Texts, NEW n \in Nat \ {0}, Len(d) = n
    PROVE  /\ SubSeq(d \o Crlf, n + 1, n + 2) = <<Cr, Lf>>
           /\ SubSeq(d \o Crlf, 1, n) = d
<1>1. d \in Seq(Symbols)
  BY DEF Texts
<1>2. Crlf \in Seq(Symbols) /\ Len(Crlf) = 2
  BY SymbolsAre
<1>3. SubSeq(d \o Crlf, 1, n) = SubSeq(d, 1, n)
  <2>1. 1 \in 1 .. Len(d) /\ n \in 1 .. Len(d)
    OBVIOUS
  <2> QED BY <1>1, <1>2, <2>1, SubSeqOfConcat1
<1>4. SubSeq(d, 1, n) = d
  <2>1. SubSeq(d, 1, Len(d)) = d
    BY <1>1, SubSeqFull
  <2> QED BY <2>1
<1>5. SubSeq(d \o Crlf, n + 1, n + 2) = SubSeq(Crlf, 1, 2)
  <2>1. /\ n + 1 \in Len(d) + 1 .. Len(d) + Len(Crlf) /\ n + 2 \in Len(d) + 1 .. Len(d) + Len(Crlf)
        /\ (n + 1) - Len(d) = 1 /\ (n + 2) - Len(d) = 2
    BY <1>2
  <2>2. SubSeq(d \o Crlf, n + 1, n + 2) = SubSeq(Crlf, (n + 1) - Len(d), (n + 2) - Len(d))
    <3> DEFINE c == Crlf  from == n + 1  to == n + 2
    <3>1. /\ d \in Seq(Symbols) /\ c \in Seq(Symbols)
          /\ from \in Len(d) + 1 .. Len(d) + Len(c) /\ to \in Len(d) + 1 .. Len(d) + Len(c)
      BY <1>1, <1>2, <2>1
    <3> HIDE DEF c, from, to
    <3>2. SubSeq(d \o c, from, to) = SubSeq(c, from - Len(d), to - Len(d))
      BY ONLY <3>1, SubSeqOfConcat2
    <3> QED BY <3>2 DEF c, from, to
  <2> QED BY <2>1, <2>2
<1>6. SubSeq(Crlf, 1, 2) = Crlf
  <2>1. SubSeq(Crlf, 1, Len(Crlf)) = Crlf
    BY <1>2, SubSeqFull
  <2> QED BY <1>2, <2>1
<1> QED
  BY <1>3, <1>4, <1>5, <1>6 DEF Crlf

(* A chunk that is longer than it says has no line end where it should.    *)
LEMMA LongChunkEnds == SubSeq(Data(0, 3), 2, 3) # <<Cr, Lf>>
<1> DEFINE d == Data(0, 3)
<1>1. d \in Texts /\ Len(d) = 3 /\ d[2] = <<"data", 2>>
  <2>1. Data(0, 3) \in Seq(Symbols) /\ Len(Data(0, 3)) = 3
        /\ \A k \in 1 .. 3 : Data(0, 3)[k] = <<"data", k>>
    BY DataFirst
  <2> QED BY <2>1 DEF Texts
<1> HIDE DEF d
<1>2. SubSeq(d, 2, 3)[1] = d[2 + 1 - 1]
  <2>1. 2 \in 1 .. Len(d) + 1 /\ 3 \in 2 - 1 .. Len(d) /\ 1 \in 1 .. 3 - 2 + 1
    BY <1>1
  <2>2. \A i \in 1 .. 3 - 2 + 1 : SubSeq(d, 2, 3)[i] = d[2 + i - 1]
    BY <1>1, <2>1, SubIs
  <2> QED BY <2>1, <2>2
<1>3. 2 + 1 - 1 = 2
  OBVIOUS
<1>4. SubSeq(d, 2, 3)[1] # Cr
  BY <1>1, <1>2, <1>3 DEF Cr
<1>5. <<Cr, Lf>>[1] = Cr
  OBVIOUS
<1>6. SubSeq(d, 2, 3) # <<Cr, Lf>>
  BY <1>4, <1>5, Zenon
<1> QED
  BY <1>6 DEF d

(* The parser is in the data of the i-th chunk.                            *)
InChunkData(i) ==
    /\ ChunkAt(i) /\ Passed(BodyPart(i) - 1) /\ input.framing # "badSize"
    /\ SentSize(i) = lastChunkSize /\ Before(input, i) = Len(decodedBody)
    /\ IsChunk(i, lastChunkSize, Len(decodedBody))
    /\ lastChunkSize \in Nat \ {0} /\ Len(decodedBody) \in Nat
    /\ decodedBody = Data(0, Len(decodedBody))
    /\ buffer \in Texts /\ Len(buffer) \in Nat /\ Len(buffer) < lastChunkSize + 2
    /\ ((SizeLine(lastChunkSize) \o Crlf) \o buffer) \o Rest = From(BodyPart(i))
    /\ (SizeLine(lastChunkSize) \o Crlf) \o buffer \in Texts
    /\ SizeLine(lastChunkSize) \o Crlf \in Texts
    /\ ~(Len(ChunkLine(i)) >= limits.buffer)
    /\ limits.buffer > 1 /\ Len(decodedBody) + lastChunkSize <= limits.body

LEMMA SomeChunkData ==
    ASSUME RunInv, InMessage, pc = "message", state = "ChunkedBodyData"
    PROVE  \E i : InChunkData(i)
<1>1. /\ ChunkDataInv /\ input \in Straight
      /\ limits.buffer \in Nat
  BY InMessageIs
<1>2. PICK i \in 1 .. Len(input.ends) + 1 :
            /\ IsChunk(i, lastChunkSize, Len(decodedBody))
            /\ decodedBody = Data(0, Len(decodedBody))
            /\ buffer \in Seq(Symbols)
            /\ At(BodyPart(i), SizeLine(lastChunkSize) \o Crlf \o buffer)
            /\ Len(buffer) < lastChunkSize + 2
            /\ lastChunkSize > 0
            /\ limits.buffer > 1 /\ Len(decodedBody) + lastChunkSize <= limits.body
  BY <1>1 DEF ChunkDataInv
<1>3. /\ ChunkAt(i) /\ SentSize(i) = lastChunkSize /\ Before(input, i) = Len(decodedBody)
      /\ lastChunkSize \in Nat /\ Len(decodedBody) \in Nat /\ input.framing # "badSize"
  <2>1. CASE input.framing = "longChunk"
    <3>1. i = 1 /\ lastChunkSize = 1 /\ Len(decodedBody) = 0
      BY <1>2, <2>1 DEF IsChunk
    <3>2. Before(input, 1) = 0
      BY <1>1, EndsAre
    <3> QED BY <1>2, <2>1, <3>1, <3>2 DEF ChunkAt, SentSize
  <2>2. CASE input.framing # "longChunk"
    <3>1. /\ input.framing = "chunked" /\ i \in 1 .. Len(input.ends)
          /\ lastChunkSize = Size(input, i) /\ Len(decodedBody) = Before(input, i)
      BY <1>2, <2>2 DEF IsChunk
    <3> QED BY <1>1, <1>2, <3>1, ChunkIs DEF ChunkAt, SentSize
  <2> QED BY <2>1, <2>2
<1>4. Len(ChunkLine(i)) = 1
  BY <1>1, <1>3, ChunkSizeIs
<1>5. SizeLine(lastChunkSize) \o Crlf \in Texts
  <2>1. SizeLine(lastChunkSize) \in Seq(Symbols) /\ Lacks(SizeLine(lastChunkSize), Lf)
    BY <1>3, SizeLineIs DEF Texts
  <2> QED BY <2>1, LineIsWord DEF Texts
<1>6. /\ Passed(BodyPart(i) - 1)
      /\ (SizeLine(lastChunkSize) \o Crlf) \o buffer \in Texts
      /\ ((SizeLine(lastChunkSize) \o Crlf) \o buffer) \o Rest = From(BodyPart(i))
  BY <1>2 DEF At, Texts
<1>7. ~(Len(ChunkLine(i)) >= limits.buffer) /\ lastChunkSize \in Nat \ {0}
  BY <1>1, <1>2, <1>3, <1>4
<1>8. buffer \in Texts /\ Len(buffer) \in Nat
  BY <1>2 DEF Texts
<1>9. InChunkData(i)
  BY <1>2, <1>3, <1>5, <1>6, <1>7, <1>8 DEF InChunkData
<1> QED
  BY <1>9

(* The units of a chunk are more than the buffer may hold.                 *)
LEMMA ChunkDataExceeds ==
    ASSUME RunInv, InMessage, pc = "message", state = "ChunkedBodyData", ~Fits, Fixed,
           Throw("GenericExceededBuffer")
    PROVE  ParseInv'
<1>1. StreamInv /\ input \in Straight /\ limits.buffer \in Nat /\ limits.body \in Nat /\ TakesBody(input)
  BY InMessageIs
<1>2. PICK i : InChunkData(i)
  BY SomeChunkData
<1>3. /\ ~(Before(input, i) + SentSize(i) > limits.body)
      /\ SentSize(i) + 1 > limits.buffer /\ SentSize(i) # 0
  <2>1. ~(Len(decodedBody) + lastChunkSize > limits.body) /\ lastChunkSize # 0
    BY <1>1, <1>2 DEF InChunkData
  <2>2. lastChunkSize + 1 > limits.buffer
    BY <1>1, <1>2 DEF Fits, InChunkData
  <2> QED BY <1>2, <2>1, <2>2 DEF InChunkData
<1>4. i \in 1 .. Len(BodyVerdicts(input)) /\ BodyVerdicts(input)[i] = "GenericExceededBuffer"
  BY <1>1, <1>2, <1>3, ChunkVerdictIs DEF InChunkData
<1>5. Passed(BodyPart(i) - 1)
  BY <1>2 DEF InChunkData
<1> QED
  BY <1>1, <1>4, <1>5, BodyThrows DEF VerdictNames

(* One more symbol of a chunk's data.                                      *)
LEMMA ChunkDataReads ==
    ASSUME RunInv, InMessage, ChunkedBodyData, UNCHANGED <<input, startVars>>
    PROVE  /\ pc = "message" /\ state = "ChunkedBodyData" /\ Fixed /\ StreamInv' /\ Fits
           /\ UNCHANGED <<headers, contentLength, isChunkBody, hostSet, hasBody, lastChunkSize,
                          decodedBody, canEof>>
           /\ Append(buffer, Char) \in Texts /\ Len(Append(buffer, Char)) = Len(buffer) + 1
           /\ Rest' \in Texts
           /\ \E i : /\ InChunkData(i)
                     /\ ((SizeLine(lastChunkSize) \o Crlf) \o Append(buffer, Char)) \o Rest'
                            = From(BodyPart(i))
                     /\ Append(buffer, Char) \o Rest' = ChunkEnd(i) \o ChunkAfter(i)
                     /\ ChunkEnd(i) \in Texts /\ ChunkAfter(i) \in Texts
                     /\ Len(ChunkEnd(i)) = lastChunkSize + 2
<1>0. /\ pc = "message" /\ state = "ChunkedBodyData" /\ NextChar /\ Fits /\ Fixed
      /\ UNCHANGED <<headers, contentLength, isChunkBody, hostSet, hasBody, lastChunkSize,
                     decodedBody, canEof>>
  BY DEF ChunkedBodyData, InState, NextChar, Fixed
<1>1. StreamInv /\ input \in Straight
  BY <1>0, InMessageIs
<1>2. PICK i : InChunkData(i)
  BY <1>0, SomeChunkData
<1>3. StreamInv' /\ Rest' \in Texts /\ Char \in Symbols
  BY <1>0, <1>1, ReadsChar
<1> DEFINE p == SizeLine(lastChunkSize) \o Crlf
           a == p \o buffer
<1>4. /\ p \in Texts /\ a \in Texts /\ buffer \in Texts /\ a \o Rest = From(BodyPart(i))
  BY <1>2 DEF InChunkData
<1> HIDE DEF p
<1>5. Append(a, Char) \o Rest' = From(BodyPart(i))
  <2> HIDE DEF a
  <2> QED BY <1>0, <1>1, <1>4, AtNext
<1>6. Append(buffer, Char) \in Texts /\ Len(Append(buffer, Char)) = Len(buffer) + 1
  BY <1>3, <1>4, ReadsOne DEF Texts
<1>7. Append(a, Char) = p \o Append(buffer, Char)
  <2>1. Append(a, Char) = a \o <<Char>>
    <3> HIDE DEF a
    <3> QED BY <1>3, <1>4, ReadsOne DEF Texts
  <2>2. Append(buffer, Char) = buffer \o <<Char>>
    BY <1>3, <1>4, ReadsOne DEF Texts
  <2>3. <<Char>> \in Seq(Symbols) /\ p \in Seq(Symbols) /\ buffer \in Seq(Symbols)
    BY <1>3, <1>4 DEF Texts
  <2>4. (p \o buffer) \o <<Char>> = p \o (buffer \o <<Char>>)
    BY <2>3, ConcatAssociative
  <2> QED BY <2>1, <2>2, <2>4
<1>8. (p \o Append(buffer, Char)) \o Rest' = From(BodyPart(i))
  BY <1>5, <1>7
<1>9. /\ Append(buffer, Char) \o Rest' = ChunkEnd(i) \o ChunkAfter(i)
      /\ ChunkEnd(i) \in Texts /\ ChunkAfter(i) \in Texts
      /\ Len(ChunkEnd(i)) = lastChunkSize + 2
  <2>1. i \in 1 .. Len(input.ends) + 1 /\ IsChunk(i, lastChunkSize, Len(decodedBody))
    BY <1>2 DEF InChunkData, ChunkAt
  <2>2. ((SizeLine(lastChunkSize) \o Crlf) \o Append(buffer, Char)) \o Rest' = From(BodyPart(i))
    BY <1>8 DEF p
  <2> DEFINE read == Append(buffer, Char)
             rest == Rest'
             before == Len(decodedBody)
  <2>3. input \in Straight /\ ReadsChunk(i, lastChunkSize, before, read, rest)
    BY <1>1, <1>3, <1>6, <2>1, <2>2 DEF ReadsChunk
  <2> HIDE DEF read, rest, before
  <2>4. ChunkFollows(i, lastChunkSize, read \o rest)
    BY ONLY <2>3, ChunkIsThere
  <2> QED BY ONLY <2>4 DEF ChunkFollows, read, rest
<1> QED
  BY <1>0, <1>2, <1>3, <1>6, <1>8, <1>9 DEF p

(* Whatever is read of a chunk: a unit, or its line end, or another symbol *)
(* in its place.                                                           *)
LEMMA ChunkedBodyDataStep ==
    ASSUME RunInv, InMessage, ChunkedBodyData, UNCHANGED <<input, startVars>>
    PROVE  ParseInv'
<1> DEFINE data == Append(buffer, Char)
           n == lastChunkSize
<1>0. /\ pc = "message" /\ state = "ChunkedBodyData" /\ Fixed /\ StreamInv' /\ Fits
      /\ UNCHANGED <<headers, contentLength, isChunkBody, hostSet, hasBody, lastChunkSize,
                     decodedBody, canEof>>
      /\ data \in Texts /\ Len(data) = Len(buffer) + 1 /\ Rest' \in Texts
  BY ChunkDataReads
<1>1. /\ StreamInv /\ input \in Straight /\ hasBody /\ TakesBody(input)
      /\ limits.buffer \in Nat /\ limits.body \in Nat
      /\ HeadersSaid(HeaderCount) /\ ~canEof
      /\ input.framing \in {"chunked", "longChunk", "badSize"}
  BY <1>0, InMessageIs DEF InChunkState
<1>2. PICK i : /\ InChunkData(i)
               /\ ((SizeLine(n) \o Crlf) \o data) \o Rest' = From(BodyPart(i))
               /\ data \o Rest' = ChunkEnd(i) \o ChunkAfter(i)
               /\ ChunkEnd(i) \in Texts /\ ChunkAfter(i) \in Texts
               /\ Len(ChunkEnd(i)) = n + 2
  BY ChunkDataReads
<1>3. /\ ChunkAt(i) /\ Passed(BodyPart(i) - 1) /\ input.framing # "badSize"
      /\ SentSize(i) = n /\ Before(input, i) = Len(decodedBody)
      /\ IsChunk(i, n, Len(decodedBody))
      /\ n \in Nat \ {0} /\ Len(decodedBody) \in Nat
      /\ decodedBody = Data(0, Len(decodedBody))
      /\ buffer \in Texts /\ Len(buffer) \in Nat /\ Len(buffer) < n + 2
      /\ SizeLine(n) \o Crlf \in Texts
      /\ ~(Len(ChunkLine(i)) >= limits.buffer)
      /\ limits.buffer > 1 /\ Len(decodedBody) + n <= limits.body
  BY <1>2 DEF InChunkData
<1>4. IF Len(data) - 2 # n THEN Running /\ buffer' = data /\ UNCHANGED state
      ELSE IF SubSeq(data, n + 1, n + 2) # <<Cr, Lf>>
      THEN Throw("MalformedMessage") /\ buffer' = data /\ UNCHANGED state
      ELSE Running /\ buffer' = SubSeq(data, 1, n) /\ state' = "AppendToBody"
  <2>1. IF Len(data) # Wrapped(n + 2)
        THEN Running /\ buffer' = data /\ UNCHANGED state
        ELSE IF data = <<Lf>>
        THEN /\ \E error \in {"MalformedMessage", "GenericExceededBuffer"} : Throw(error)
             /\ buffer' = <<>> /\ UNCHANGED state
        ELSE IF Len(data) - 2 < 0 \/ SubSeq(data, (Len(data) - 2) + 1, (Len(data) - 2) + 2) # <<Cr, Lf>>
        THEN Throw("MalformedMessage") /\ buffer' = data /\ UNCHANGED state
        ELSE Running /\ buffer' = SubSeq(data, 1, Len(data) - 2) /\ state' = "AppendToBody"
    BY DEF ChunkedBodyData
  <2>2. Wrapped(n + 2) = n + 2
    BY <1>1, <1>3, ChunkFits
  <2>3. Len(data) \in Nat /\ n \in Nat \ {0}
    BY <1>0, <1>3
  <2>4. Len(data) = n + 2 => Len(data) # 1 /\ Len(data) - 2 = n /\ ~(Len(data) - 2 < 0)
    BY <2>3
  <2>5. Len(data) - 2 # n <=> Len(data) # n + 2
    BY <2>3
  <2>6. Len(<<Lf>>) = 1
    OBVIOUS
  <2> HIDE DEF data
  <2> QED BY ONLY <2>1, <2>2, <2>4, <2>5, <2>6
<1>5. /\ input' = input /\ limits' = limits /\ TakesBody(input)' = TakesBody(input)
      /\ HeadersSaid(HeaderCount)'
  BY <1>0, <1>1, HeadersStay
<1>p. n' = n
  BY <1>0
<1> HIDE DEF data
<1>6. CASE Len(data) - 2 # n
  <2>1. pc' = pc /\ buffer' = data /\ state' = state
    BY <1>4, <1>6 DEF Running
  <2>2. Len(data) < n + 2
    BY <1>0, <1>3, <1>6
  <2>3. At(BodyPart(i), SizeLine(lastChunkSize) \o Crlf \o buffer)'
    <3>1. Passed(BodyPart(i) - 1)' /\ From(BodyPart(i))' = From(BodyPart(i))
      BY <1>0, <1>3, FixedKeeps
    <3>2. (SizeLine(n) \o Crlf) \o data \in Seq(Symbols)
      <4>1. SizeLine(n) \o Crlf \in Seq(Symbols) /\ data \in Seq(Symbols)
        BY <1>0, <1>3 DEF Texts
      <4> QED BY <4>1, ConcatProperties
    <3> QED BY <1>0, <1>2, <2>1, <3>1, <3>2 DEF At, SizeLine
  <2>4. ChunkDataInv'
    <3>1. IsChunk(i, lastChunkSize, Len(decodedBody))'
      BY <1>0, <1>3, <1>5 DEF IsChunk, Size, Before
    <3>2. i \in 1 .. Len(input'.ends) + 1
      BY <1>3, <1>5 DEF ChunkAt
    <3>3. decodedBody' = Data(0, Len(decodedBody'))
      BY <1>0, <1>3
    <3>4. Len(buffer') < lastChunkSize' + 2 /\ lastChunkSize' > 0 /\ buffer' \in Seq(Symbols)
      BY <1>0, <1>3, <2>1, <2>2 DEF Texts
    <3>5. limits'.buffer > 1 /\ Len(decodedBody') + lastChunkSize' <= limits'.body
      BY <1>0, <1>3, <1>5
    <3> QED BY <2>3, <3>1, <3>2, <3>3, <3>4, <3>5 DEF ChunkDataInv, Data
  <2>5. MessageInv'
    BY <1>0, <1>1, <1>5, <2>1, <2>4
       DEF MessageInv, InChunkState, HeaderLineInv, BodyInv, ChunkSizeInv, AppendInv
  <2> QED BY <1>0, <2>1, <2>5, MessageGoesOn
<1>7. CASE Len(data) - 2 = n
  <2>0. Len(data) = Len(ChunkEnd(i))
    BY <1>0, <1>2, <1>3, <1>7
  <2>1. data = ChunkEnd(i) /\ Rest' = ChunkAfter(i)
    <3>1. data \in Seq(Symbols) /\ Rest' \in Seq(Symbols)
          /\ ChunkEnd(i) \in Seq(Symbols) /\ ChunkAfter(i) \in Seq(Symbols)
      BY <1>0, <1>2 DEF Texts
    <3>2. data \o Rest' = ChunkEnd(i) \o ChunkAfter(i)
      BY <1>2
    <3> HIDE DEF n
    <3> QED BY ONLY <2>0, <3>1, <3>2, SplitSame
  <2>2. ~(SentSize(i) + 1 > limits.buffer) /\ ~(Before(input, i) + SentSize(i) > limits.body)
        /\ SentSize(i) # 0
    <3>1. ~(n + 1 > limits.buffer) /\ ~(Len(decodedBody) + n > limits.body) /\ n # 0
      BY <1>0, <1>1, <1>3, <1>7 DEF Fits
    <3> QED BY <1>3, <3>1
  <2>3. /\ i \in 1 .. Len(BodyVerdicts(input))
        /\ BodyVerdicts(input)[i] =
                IF input.framing = "longChunk" THEN "MalformedMessage" ELSE "ok"
    BY <1>1, <1>3, <2>2, ChunkVerdictIs
  <2>4. CASE input.framing = "longChunk"
    <3>1. n = 1 /\ data = Data(0, 3)
      BY <1>3, <2>1, <2>4 DEF IsChunk, ChunkEnd
    <3>2. SubSeq(data, n + 1, n + 2) # <<Cr, Lf>>
      <4>1. n + 1 = 2 /\ n + 2 = 3
        BY <3>1
      <4> QED BY <3>1, <4>1, LongChunkEnds
    <3>3. Throw("MalformedMessage")
      BY <1>4, <1>7, <3>2
    <3> QED BY <1>0, <1>1, <1>3, <2>3, <2>4, <3>3, BodyThrows DEF VerdictNames
  <2>5. CASE input.framing = "chunked"
    <3> DEFINE d == Data(Before(input, i), input.ends[i])
    <3>1. i \in 1 .. Len(input.ends) /\ n = Size(input, i)
      BY <1>3, <2>5 DEF IsChunk
    <3>2. d \in Texts /\ Len(d) = n
      <4>1. /\ Before(input, i) \in Nat /\ input.ends[i] \in Nat /\ Before(input, i) <= input.ends[i]
            /\ n = input.ends[i] - Before(input, i)
        BY <1>1, <2>5, <3>1, ChunkIs DEF Size
      <4> QED BY <4>1, DataIs DEF Texts
    <3>3. data = d \o Crlf /\ Rest' = From(BodyPart(i + 1))
      BY <2>1, <2>5 DEF ChunkEnd, ChunkAfter
    <3>4. SubSeq(data, n + 1, n + 2) = <<Cr, Lf>> /\ SubSeq(data, 1, n) = d
      <4> HIDE DEF d, n
      <4> QED BY <1>3, <3>2, <3>3, ChunkSplit
    <3>5. pc' = pc /\ buffer' = d /\ state' = "AppendToBody"
      BY <1>4, <1>7, <3>4 DEF Running
    <3>6. Passed(BodyPart(i + 1) - 1)
      <4>1. BodyVerdicts(input)[i] = "ok"
        BY <2>3, <2>5
      <4> QED BY <1>1, <1>3, <2>3, <4>1, BodyPasses
    <3>7. AppendInv'
      <4>1. At(BodyPart(i + 1), <<>>)'
        <5>1. Passed(BodyPart(i + 1) - 1)' /\ From(BodyPart(i + 1))' = From(BodyPart(i + 1))
          BY <1>0, <3>6, FixedKeeps
        <5>2. <<>> \in Texts /\ <<>> \o Rest' = Rest'
          BY <1>0, NothingRead
        <5> QED BY <3>3, <5>1, <5>2 DEF At, Texts
      <4>2. decodedBody' = Data(0, Before(input, i))'
        BY <1>0, <1>3, <1>5
      <4>3. buffer' = Data(Before(input, i), input.ends[i])'
        BY <1>5, <3>5
      <4>4. i \in 1 .. Len(input'.ends) /\ input'.framing = "chunked"
        BY <1>5, <2>5, <3>1
      <4> QED BY <4>1, <4>2, <4>3, <4>4 DEF AppendInv
    <3>8. MessageInv'
      BY <1>0, <1>1, <1>5, <3>5, <3>7
         DEF MessageInv, InChunkState, HeaderLineInv, BodyInv, ChunkSizeInv, ChunkDataInv
    <3> QED BY <1>0, <3>5, <3>8, MessageGoesOn
  <2> QED BY <1>1, <1>3, <2>4, <2>5
<1> QED
  BY <1>6, <1>7

(* A chunk that was read is in the body's place: it keeps to the limit.    *)
LEMMA InAppend ==
    ASSUME RunInv, InMessage, pc = "message", state = "AppendToBody"
    PROVE  \E i \in 1 .. Len(input.ends) :
                /\ input.framing = "chunked" /\ Passed(BodyPart(i + 1) - 1)
                /\ Rest = From(BodyPart(i + 1)) /\ Rest \in Texts
                /\ decodedBody = Data(0, Before(input, i))
                /\ buffer = Data(Before(input, i), input.ends[i])
                /\ Fits
<1>1. StreamInv /\ input \in Straight /\ limits.buffer \in Nat /\ TakesBody(input) /\ AppendInv
  BY InMessageIs
<1>2. PICK i \in 1 .. Len(input.ends) :
            /\ At(BodyPart(i + 1), <<>>)
            /\ decodedBody = Data(0, Before(input, i))
            /\ buffer = Data(Before(input, i), input.ends[i])
            /\ input.framing = "chunked"
  BY <1>1 DEF AppendInv
<1>3. Rest \in Texts
  BY <1>1, Unread
<1>4. Passed(BodyPart(i + 1) - 1) /\ Rest = From(BodyPart(i + 1))
  <2>1. <<>> \o Rest = Rest
    BY <1>3, NothingRead
  <2> QED BY <1>2, <2>1 DEF At
<1>5. ChunkAt(i) /\ SentSize(i) = Size(input, i)
  BY <1>1, <1>2, EndsAre DEF ChunkAt, SentSize
<1>6. /\ Before(input, i) \in Nat /\ input.ends[i] \in Nat /\ Before(input, i) <= input.ends[i]
      /\ Size(input, i) = input.ends[i] - Before(input, i) /\ Size(input, i) \in Nat \ {0}
  BY <1>1, <1>2, ChunkIs DEF Size
<1>7. Len(buffer) = Size(input, i)
  <2>1. Len(Data(Before(input, i), input.ends[i])) = input.ends[i] - Before(input, i)
    BY <1>6, DataIs
  <2> QED BY <1>2, <1>6, <2>1
<1>8. i \in 1 .. Len(BodyVerdicts(input))
  BY <1>1, <1>5, ChunkVerdictIs
<1>9. BodyVerdicts(input)[i] = "ok"
  <2>1. /\ BodyPart(i) \in 1 .. Len(Verdicts(input)) /\ BodyPart(i + 1) - 1 = BodyPart(i)
        /\ Verdicts(input)[BodyPart(i)] = BodyVerdicts(input)[i]
    BY <1>1, <1>8, BodyVerdictAt
  <2>2. BodyPart(i) \in 1 .. BodyPart(i + 1) - 1
    BY <2>1
  <2> QED BY <1>4, <2>1, <2>2 DEF Passed
<1>10. ~(SentSize(i) + 1 > limits.buffer)
  <2>1. SentSize(i) # 0
    BY <1>5, <1>6
  <2>2. /\ BodyVerdicts(input)[i] # "GenericExceededBuffer" /\ input.framing = "chunked"
        /\ BodyVerdicts(input)[i] # "BodyExceededLimit"
    BY <1>2, <1>9
  <2>3. ~(Len(ChunkLine(i)) >= limits.buffer)
    BY <1>1, <1>5, <2>2, ChunkVerdictIs
  <2>4. BodyVerdicts(input)[i] =
            IF Before(input, i) + SentSize(i) > limits.body THEN "BodyExceededLimit"
            ELSE IF SentSize(i) + 1 > limits.buffer THEN "GenericExceededBuffer"
            ELSE IF input.framing = "longChunk" THEN "MalformedMessage" ELSE "ok"
    BY <1>1, <1>5, <2>1, <2>2, <2>3, ChunkVerdictIs
  <2> QED BY ONLY <2>2, <2>4
<1>11. Fits
  BY <1>1, <1>5, <1>6, <1>7, <1>10 DEF Fits
<1> QED
  BY <1>2, <1>3, <1>4, <1>11

(* The chunk is added to the body, or the body is too large with it.       *)
LEMMA AppendToBodyStep ==
    ASSUME RunInv, InMessage, AppendToBody, UNCHANGED <<input, startVars>>
    PROVE  ParseInv'
<1>0. /\ pc = "message" /\ state = "AppendToBody" /\ NextCharShiftBack /\ Fixed /\ pc' = pc
      /\ decodedBody' = decodedBody \o buffer /\ buffer' = <<>> /\ state' = "ChunkedBodySize"
      /\ UNCHANGED <<headers, contentLength, isChunkBody, hostSet, hasBody, canEof>>
  BY DEF AppendToBody, InState, NextCharShiftBack, Fixed, Running
<1>1. /\ StreamInv /\ input \in Straight /\ hasBody /\ TakesBody(input)
      /\ HeadersSaid(HeaderCount) /\ ~canEof
  BY <1>0, InMessageIs DEF InChunkState
<1>2. PICK i \in 1 .. Len(input.ends) :
                /\ input.framing = "chunked" /\ Passed(BodyPart(i + 1) - 1)
                /\ Rest = From(BodyPart(i + 1)) /\ Rest \in Texts
                /\ decodedBody = Data(0, Before(input, i))
                /\ buffer = Data(Before(input, i), input.ends[i])
  BY <1>0, InAppend
<1>3. StreamInv' /\ Rest' = Rest
  BY <1>0, <1>1, ReadsAndGivesBack
<1>4. /\ input' = input /\ limits' = limits /\ TakesBody(input)' = TakesBody(input)
      /\ HeadersSaid(HeaderCount)'
  BY <1>0, <1>1, HeadersStay
<1>5. decodedBody' = Data(0, Before(input, i + 1))
  <2>1. /\ Before(input, i) \in Nat /\ input.ends[i] \in Nat /\ Before(input, i) <= input.ends[i]
        /\ Before(input, i + 1) = input.ends[i]
    BY <1>1, <1>2, ChunkIs
  <2>2. Data(0, Before(input, i)) \o Data(Before(input, i), input.ends[i]) = Data(0, input.ends[i])
    BY <2>1, DataConcat
  <2> QED BY <1>0, <1>2, <2>1, <2>2
<1>6. ChunkSizeInv'
  <2>1. i + 1 \in 1 .. Len(input.ends) + 1 /\ Len(input.ends) \in Nat
    BY <1>1, EndsAre
  <2>2. At(BodyPart(i + 1), buffer)' /\ Lacks(buffer, Lf)'
    <3>1. Passed(BodyPart(i + 1) - 1)' /\ From(BodyPart(i + 1))' = From(BodyPart(i + 1))
      BY <1>0, <1>2, FixedKeeps
    <3>2. <<>> \in Texts /\ <<>> \o Rest = Rest /\ Lacks(<<>>, Lf)
      BY <1>2, NothingRead
    <3>3. Lacks(buffer, Lf)'
      BY <1>0, <3>2 DEF Lacks
    <3> QED BY <1>0, <1>2, <1>3, <3>1, <3>2, <3>3 DEF At, Texts
  <2>3. decodedBody' = Data(0, Before(input, i + 1))'
    BY <1>4, <1>5
  <2>4. i + 1 \in 1 .. Len(input'.ends) + 1 /\ input'.framing = "chunked"
    BY <1>2, <1>4, <2>1
  <2> QED BY <2>2, <2>3, <2>4 DEF ChunkSizeInv
<1>7. MessageInv'
  BY <1>0, <1>1, <1>2, <1>4, <1>6
     DEF MessageInv, InChunkState, HeaderLineInv, BodyInv, ChunkDataInv, AppendInv
<1> QED
  BY <1>0, <1>3, <1>7, MessageGoesOn

(* A word, a line or a chunk that is too long, wherever it is read.        *)
LEMMA ExceedBufferStep ==
    ASSUME RunInv, InMessage, ExceedBuffer, UNCHANGED <<input, startVars>>
    PROVE  ParseInv'
<1>0. pc = "message" /\ ~Fits /\ Throw("GenericExceededBuffer") /\ Fixed
  BY DEF ExceedBuffer, Fixed, streamVars, messageVars
<1>1. state \in {"HeaderLine", "Body", "ChunkedBodySize", "ChunkedBodyData", "AppendToBody"}
  BY <1>0, InMessageIs
<1>2. CASE state = "HeaderLine"
  BY <1>0, <1>2, HeaderExceeds
<1>3. CASE state = "Body"
  BY <1>0, <1>3, BodyExceeds
<1>4. CASE state = "ChunkedBodySize"
  BY <1>0, <1>4, ChunkSizeExceeds
<1>5. CASE state = "ChunkedBodyData"
  BY <1>0, <1>5, ChunkDataExceeds
<1>6. CASE state = "AppendToBody"
  BY <1>0, <1>6, InAppend
<1> QED
  BY <1>1, <1>2, <1>3, <1>4, <1>5, <1>6

-----------------------------------------------------------------------------
(* All steps together.                                                     *)

(* A step that leaves everything as it is keeps the invariant.             *)
LEMMA ParseStutters ==
    ASSUME ParseInv, UNCHANGED vars
    PROVE  ParseInv'
<1>0. /\ Fixed /\ UNCHANGED streamVars /\ UNCHANGED messageVars /\ UNCHANGED startVars
      /\ pc' = pc /\ outcome' = outcome
      /\ UNCHANGED <<taken, chars, lastChar, finished>>
      /\ UNCHANGED <<headers, contentLength, isChunkBody, hostSet, body, hasBody, state, buffer,
                     lastChunkSize, decodedBody, canEof, limits>>
  BY DEF vars, Fixed, streamVars, messageVars
<1>1. CASE pc = "done"
  <2>1. pc' = "done"
    BY <1>0, <1>1
  <2>2. ParsedAsSent'
    <3>1. ParsedAsSent
      BY DEF ParseInv
    <3>2. /\ closes' = closes /\ Whole' = Whole /\ IsRequest' = IsRequest
          /\ EndsAtEof(input)' = EndsAtEof(input) /\ Expected(input)' = Expected(input)
          /\ SentBody(input)' = SentBody(input) /\ input' = input
      BY <1>0, FixedKeeps DEF Fixed
    <3> QED BY <1>0, <3>1, <3>2 DEF ParsedAsSent
  <2> QED BY <2>1, <2>2 DEF ParseInv
<1>2. CASE pc = "built"
  <2>1. RunInv /\ InMessage
    BY <1>2 DEF ParseInv
  <2>2. StreamInv' /\ StartInv' /\ InMessage'
    <3>1. StreamInv /\ StartInv
      BY <2>1 DEF RunInv
    <3> QED BY <1>0, <2>1, <3>1, ReadsNothing, StartStays
  <2>3. BuiltInv'
    <3>1. /\ Passed(Len(Verdicts(input)) - 1) /\ HeadersSaid(HeaderCount)
          /\ body = SentBody(input)
      BY <1>2, <2>1 DEF RunInv, BuiltInv
    <3>2. HeadersSaid(HeaderCount)'
      BY <1>0, <3>1, HeadersStay
    <3>3. SentBody(input)' = SentBody(input)
      BY <1>0, FixedKeeps
    <3>4. Passed(Len(Verdicts(input)) - 1)'
      BY <1>0, <3>1, FixedKeeps
    <3> QED BY <1>0, <3>1, <3>2, <3>3, <3>4 DEF BuiltInv
  <2>4. pc' = "built"
    BY <1>0, <1>2
  <2> QED BY <2>2, <2>3, <2>4 DEF ParseInv, RunInv, MessageInv, ParsedAsSent
<1>3. CASE pc \in {"start", "message", "waiting"}
  <2>1. RunInv /\ (pc = "message" => InMessage)
    BY <1>3 DEF ParseInv
  <2>2. StreamInv' /\ Rest' = Rest
    <3>1. StreamInv
      BY <2>1 DEF RunInv
    <3> QED BY <1>0, <3>1, ReadsNothing
  <2>3. SameParse
    <3>1. pc = "message" => (hasBody <=> TakesBody(input))
      BY <2>1, InMessageIs
    <3> QED BY <1>0, <1>3, <2>1, <3>1 DEF SameParse
  <2> QED BY <1>0, <1>3, <2>1, <2>2, <2>3, ParseKeeps
<1> QED
  BY <1>1, <1>2, <1>3 DEF ParseInv

(* The invariant holds at the start: nothing of the first part is read.    *)
LEMMA ParseStarts ==
    ASSUME Init, input \in Straight
    PROVE  ParseInv
<1>1. /\ input \in Straight /\ pc = "start" /\ MessageInit
      /\ taken = 0 /\ chars = <<>> /\ lastChar = <<>> /\ finished = FALSE
      /\ startBuffer = <<>> /\ startLine = <<>>
      /\ startState = IF IsRequest THEN "Method" ELSE "ResponseVersion"
  BY DEF Init, StreamInit, RequestInit, ResponseInit, StartInit
<1>2. Sent \in Texts /\ Len(Sent) \in Nat /\ Sent = From(1)
  BY <1>1, PartRanges DEF Texts
<1>3. PICK n \in 0 .. Len(Sent) : text = SubSeq(Sent, 1, n)
  BY DEF Init, Sent
<1>4. text \in Texts /\ Len(text) = n
  <2>1. 1 \in 1 .. Len(Sent) + 1 /\ n \in 1 - 1 .. Len(Sent) /\ n - 1 + 1 = n
    BY <1>2
  <2> QED BY <1>2, <1>3, <2>1, SubIs
<1>5. Len(chars) = 0 /\ Len(lastChar) = 0 /\ Position = 0
  <2>1. Len(chars) = 0 /\ Len(lastChar) = 0
    BY <1>1
  <2>2. Position = 0 - 0 - 0
    BY <1>1, <2>1, Zenon DEF Position
  <2>3. 0 - 0 - 0 = 0
    OBVIOUS
  <2> QED BY <2>1, <2>2, <2>3
<1>6. StreamInv
  <2>1. taken \in 0 .. Len(text) /\ Len(text) <= Len(Sent) /\ text = SubSeq(Sent, 1, Len(text))
        /\ Len(chars) + Len(lastChar) <= taken
    BY <1>1, <1>2, <1>3, <1>4, <1>5
  <2>2. chars = SubSeq(text, taken - Len(chars) + 1, taken)
    <3>1. SubSeq(text, 1, 0) = <<>>
      <4>1. 1 \in Int /\ 0 \in Int /\ 0 < 1
        OBVIOUS
      <4> QED BY <4>1, SubSeqEmpty
    <3>2. taken - Len(chars) + 1 = 1 /\ taken = 0
      BY <1>1, <1>5
    <3> QED BY <1>1, <3>1, <3>2
  <2>3. chars \in Seq(Symbols) /\ limits \in Limits
    BY <1>1 DEF MessageInit
  <2> QED BY <1>1, <1>4, <2>1, <2>2, <2>3 DEF StreamInv, Texts
<1>7. At(1, <<>>)
  <2>1. Passed(1 - 1)
    <3>1. 1 .. 1 - 1 = {}
      OBVIOUS
    <3> QED BY <3>1 DEF Passed
  <2>2. Rest = Sent
    <3>1. SubSeq(Sent, 1, Len(Sent)) = Sent
      BY <1>2, SubSeqFull DEF Texts
    <3>2. 0 + 1 = 1
      OBVIOUS
    <3> QED BY <1>5, <3>1, <3>2 DEF Rest
  <2>3. <<>> \in Texts /\ <<>> \o Rest = Rest
    BY <1>2, <2>2, NothingRead
  <2> QED BY <1>2, <2>1, <2>2, <2>3 DEF At, Texts
<1>8. StartInv
  <2>1. ~InMessage /\ startState # "Uri" /\ startState # "Version" /\ startState # "Status"
    BY <1>1 DEF InMessage
  <2>2. StartLineInv
    <3>1. startLine \in Seq(Seq(Symbols)) /\ Len(startLine) = 0 /\ ~(Len(startLine) > 0)
      BY <1>1
    <3>2. StartCount \in Nat
      BY <1>1, Counts
    <3>3. startState = StartStates[1]
      BY <1>1 DEF StartStates, RequestStates, ResponseStates
    <3>4. Len(startLine) + 1 = 1 /\ Len(startLine) \in 0 .. StartCount
      BY <3>1, <3>2
    <3> QED BY <2>1, <3>1, <3>3, <3>4 DEF StartLineInv
  <2>3. MessageUnbegun
    BY <1>1 DEF MessageUnbegun, MessageInit
  <2>4. StartPartInv
    <3>1. Len(startLine) + 1 = 1 /\ Lacks(<<>>, Sp)
      BY <1>1 DEF Lacks
    <3> QED BY <1>1, <1>7, <2>1, <3>1 DEF StartPartInv
  <2> QED BY <2>1, <2>2, <2>3, <2>4 DEF StartInv
<1> QED
  BY <1>1, <1>6, <1>8 DEF ParseInv, RunInv, MessageInv, BuiltInv, ParsedAsSent, InMessage

(* Each step of the parser of the start line keeps it.                     *)
LEMMA PollStartKeeps ==
    ASSUME ParseInv, UNCHANGED input, (IsRequest /\ PollRequest) \/ (~IsRequest /\ PollResponse)
    PROVE  ParseInv'
<1>1. pc = "start" => RunInv
  BY DEF ParseInv
<1>2. pc = "built" => RunInv /\ InMessage
  BY DEF ParseInv
<1>3. CASE StartExceedsBuffer
  BY <1>1, <1>3, StartExceedsBufferStep DEF StartExceedsBuffer
<1>4. CASE StartPending
  BY <1>1, <1>4, StartPendingStep DEF StartPending
<1>5. CASE IsRequest /\ PollRequest /\ ~StartExceedsBuffer /\ ~StartPending
  <2>1. CASE RequestMethod
    BY <1>1, <1>5, <2>1, RequestMethodStep DEF RequestMethod, InStart
  <2>2. CASE RequestUri
    BY <1>1, <1>5, <2>2, RequestUriStep DEF RequestUri, InStart
  <2>3. CASE RequestVersion
    BY <1>1, <1>5, <2>3, RequestVersionStep DEF RequestVersion, InStart
  <2>4. CASE RequestMessage
    BY <1>1, <1>5, <2>4, RequestMessageStep DEF RequestMessage, InStart
  <2>5. CASE RequestFinished
    BY <1>1, <1>5, <2>5, RequestFinishedStep DEF RequestFinished
  <2>6. CASE RequestBuilt
    BY <1>2, <1>5, <2>6, RequestBuiltStep DEF RequestBuilt
  <2> QED BY <1>5, <2>1, <2>2, <2>3, <2>4, <2>5, <2>6 DEF PollRequest
<1>6. CASE ~IsRequest /\ PollResponse /\ ~StartExceedsBuffer /\ ~StartPending
  <2>1. CASE ResponseVersion
    BY <1>1, <1>6, <2>1, ResponseVersionStep DEF ResponseVersion, InStart
  <2>2. CASE ResponseStatus
    BY <1>1, <1>6, <2>2, ResponseStatusStep DEF ResponseStatus, InStart
  <2>3. CASE ResponseMessage
    BY <1>1, <1>6, <2>3, ResponseMessageStep DEF ResponseMessage, InStart
  <2>4. CASE ResponseFinished
    BY <1>1, <1>6, <2>4, ResponseFinishedStep DEF ResponseFinished
  <2>5. CASE ResponseBuilt
    BY <1>2, <1>6, <2>5, ResponseBuiltStep DEF ResponseBuilt
  <2> QED BY <1>6, <2>1, <2>2, <2>3, <2>4, <2>5 DEF PollResponse
<1> QED
  BY <1>3, <1>4, <1>5, <1>6

(* So does each step of the parser of the message,                         *)
LEMMA PollMessageKeeps ==
    ASSUME ParseInv, PollMessage, UNCHANGED <<input, startVars>>
    PROVE  ParseInv'
<1>1. pc = "message" => RunInv /\ InMessage
  BY DEF ParseInv
<1>2. CASE ExceedBuffer
  BY <1>1, <1>2, ExceedBufferStep DEF ExceedBuffer
<1>3. CASE MessagePending
  BY <1>1, <1>3, MessagePendingStep DEF MessagePending
<1>4. CASE MessageFinished
  BY <1>1, <1>4, MessageFinishedStep DEF MessageFinished
<1>5. CASE LineGrows("HeaderLine")
  BY <1>1, <1>5, HeaderGrowsStep DEF LineGrows, InState
<1>6. CASE HeaderLine
  BY <1>1, <1>6, HeaderLineStep DEF HeaderLine, InState
<1>7. CASE HeaderTerminator
  BY <1>1, <1>7, NoBodyStep, BodyFollowsStep DEF HeaderTerminator, InState
<1>8. CASE Body
  BY <1>1, <1>8, BodyStep DEF Body, InState
<1>9. CASE LineGrows("ChunkedBodySize")
  BY <1>1, <1>9, ChunkSizeGrowsStep DEF LineGrows, InState
<1>10. CASE ChunkedBodySize
  BY <1>1, <1>10, ChunkedBodySizeStep DEF ChunkedBodySize, InState
<1>11. CASE ChunkedBodyData
  BY <1>1, <1>11, ChunkedBodyDataStep DEF ChunkedBodyData, InState
<1>12. CASE AppendPending
  BY <1>1, <1>12, AppendPendingStep DEF AppendPending, InState
<1>13. CASE AppendToBody
  BY <1>1, <1>13, AppendToBodyStep DEF AppendToBody, InState
<1> QED
  BY <1>2, <1>3, <1>4, <1>5, <1>6, <1>7, <1>8, <1>9, <1>10, <1>11, <1>12, <1>13
     DEF PollMessage

(* and so does every step of a poll.                                       *)
LEMMA PollKeeps ==
    ASSUME ParseInv, Poll
    PROVE  ParseInv'
<1>1. UNCHANGED input
  BY DEF Poll
<1>2. ASSUME IsRequest, PollRequest PROVE ParseInv'
  BY <1>1, <1>2, PollStartKeeps
<1>3. ASSUME ~IsRequest, PollResponse PROVE ParseInv'
  BY <1>1, <1>3, PollStartKeeps
<1>4. ASSUME PollMessage, UNCHANGED startVars PROVE ParseInv'
  BY <1>1, <1>4, PollMessageKeeps
<1>5. \/ IsRequest /\ PollRequest
      \/ ~IsRequest /\ PollResponse
      \/ PollMessage /\ UNCHANGED startVars
  BY DEF Poll
<1> QED
  BY <1>2, <1>3, <1>4, <1>5

(* The parser is always where the text that was sent says it is: in a part *)
(* of it, all parts before that one being right, with no more made of them *)
(* than what they say - or it has answered what the first part that is     *)
(* wrong deserves. It is so for every set of messages, however their       *)
(* symbols are portioned into reads, with any limits and any size of the   *)
(* stream's buffer, whenever the message is one that the code has a right  *)
(* answer for: the size of none of its chunks wraps, and it is no request  *)
(* with a body of no given length.                                         *)
THEOREM ParseInvariant == Spec => [](input \in Straight => ParseInv)
<1>1. Init => (input \in Straight => ParseInv)
  BY ParseStarts
<1>2. (input \in Straight => ParseInv) /\ [Next]_vars => (input \in Straight => ParseInv)'
  <2> SUFFICES ASSUME input \in Straight => ParseInv, [Next]_vars, input' \in Straight
               PROVE  ParseInv'
    OBVIOUS
  <2>1. UNCHANGED input
    BY DEF Next, Poll, Fires, vars
  <2>2. ParseInv
    BY <2>1
  <2>3. CASE Fires
    <3>1. RunInv
      BY <2>2, <2>3 DEF ParseInv, Fires
    <3> QED BY <2>3, <3>1, FiresStep
  <2>4. CASE UNCHANGED vars
    BY <2>2, <2>4, ParseStutters
  <2>5. CASE Poll
    BY <2>2, <2>5, PollKeeps
  <2> QED BY <2>3, <2>4, <2>5 DEF Next
<1> QED
  BY <1>1, <1>2, PTL DEF Spec

(* ParsedAsSent for all of these: a message that the parser hands on is    *)
(* the one that was sent, and one that it refuses is refused for the first *)
(* thing that is wrong with it - a target or a Host that makes Uri throw   *)
(* among them.                                                             *)
THEOREM MessageParsed == Spec => [](~Wraps(input) /\ ~Undetermined(input) => ParsedAsSent)
<1>1. Init => input \in Messages
  BY DEF Init
<1>2. input \in Messages /\ [Next]_vars => (input \in Messages)'
  BY DEF Next, Poll, Fires, vars
<1>3. input \in Messages /\ (input \in Straight => ParseInv)
        => (~Wraps(input) /\ ~Undetermined(input) => ParsedAsSent)
  BY DEF ParseInv, Straight
<1> QED
  BY <1>1, <1>2, <1>3, ParseInvariant, PTL DEF Spec
-----------------------------------------------------------------------------
(* The connection: the parser, and then the service.                       *)

(* To the parser, all that the service does is nothing.                    *)
LEMMA HandlingParses == HandlingSpec => Spec
<1>1. HandlingInit => Init
  BY DEF HandlingInit
<1>2. [HandlingNext]_handlingVars => [Next]_vars
  BY DEF HandlingNext, handlingVars, CallService, AnswerError
<1> QED
  BY <1>1, <1>2, PTL DEF HandlingSpec, Spec

(* MessageParsed for the parser of a connection.                           *)
THEOREM HandledAsSent ==
    HandlingSpec => [](~Wraps(input) /\ ~Undetermined(input) => ParsedAsSent)
BY HandlingParses, MessageParsed, PTL

(* A connection whose service was not called, or is not going to be.       *)
Uncalled ==
    /\ server = None /\ chain = <<>>
    /\ check \in {"idle", "done"} /\ answer \notin Handlers
    /\ check = "idle" => NothingFound

LEMMA ServiceStarts == ServiceInit => ServiceInv
BY TypeInit, ServerInit, LocationInit, SettingsInit, CheckInit DEF ServiceInv

LEMMA ServiceStartsThen == (ServiceInit => ServiceInv)'
BY ServiceStarts, PTL

LEMMA ServiceKeeps ==
    ASSUME ServiceInv, [ServiceNext]_serviceVars
    PROVE  ServiceInv'
BY TypeStep, ServerStep, LocationStep, SettingsStep, CheckStep DEF ServiceInv

LEMMA ServiceGuards ==
    ASSUME ServiceNext
    PROVE  check \notin {"idle", "done"}
BY DEF ServiceNext, CheckVersion, MatchServer, DefaultServer, MatchLocation, EnterLocation,
       LocationsMatched, MatchBaseConfig, CheckAuthorization, CheckMethod, CheckInnerBodyLimit,
       ConnectProxy, TryDownload, FindRoot, SearchPath, ServeFile

(* The service in a connection has not begun, or is where it would be if   *)
(* it had been there from the start.                                       *)
THEOREM ServiceCalled == HandlingSpec => [](Uncalled \/ ServiceInv)
<1>1. HandlingInit => Uncalled
  BY DEF HandlingInit, Uncalled, NothingFound, Handlers
<1>2. (Uncalled \/ ServiceInv) /\ [HandlingNext]_handlingVars => (Uncalled \/ ServiceInv)'
  <2> SUFFICES ASSUME Uncalled \/ ServiceInv, [HandlingNext]_handlingVars
               PROVE  Uncalled' \/ ServiceInv'
    OBVIOUS
  <2>1. CASE CallService
    <3>1. Uncalled
      BY <2>1 DEF CallService, ServiceInv, TypeOK, Matched
    <3>2. NothingFound'
      BY <2>1, <3>1 DEF CallService, Uncalled, NothingFound, serverVars, locationVars
    <3>3. ServiceInit'
      BY <2>1, <3>2 DEF CallService, ServiceInit
    <3> QED BY <3>3, ServiceStartsThen
  <2>2. CASE AnswerError
    <3>1. Uncalled
      BY <2>2 DEF AnswerError, ServiceInv, TypeOK, Matched
    <3>2. StatusOf(outcome) \notin Handlers
      BY DEF StatusOf, Handlers
    <3>3. Uncalled'
      BY <2>2, <3>1, <3>2 DEF AnswerError, Answer, Uncalled, serverVars, locationVars
    <3> QED BY <3>3
  <2>3. CASE ServiceNext
    <3>1. ServiceInv
      BY <2>3, ServiceGuards DEF Uncalled
    <3> QED BY <2>3, <3>1, ServiceKeeps
  <2>4. CASE UNCHANGED serviceVars
    <3>1. CASE Uncalled
      <4>1. Uncalled'
        BY <2>4, <3>1 DEF Uncalled, NothingFound, serviceVars, serverVars, locationVars
      <4> QED BY <4>1
    <3>2. CASE ServiceInv
      BY <2>4, <3>2, ServiceKeeps
    <3> QED BY <3>1, <3>2
  <2> QED
    BY <2>1, <2>2, <2>3, <2>4 DEF HandlingNext, handlingVars
<1> QED
  BY <1>1, <1>2, PTL DEF HandlingSpec

LEMMA ServiceSays ==
    ASSUME ServiceInv
    PROVE  ServerOfHost /\ LongestLocation /\ ServedIsAllowed
<1>1. PICK from \in [1 .. Len(chain) + 1 -> 0 .. PathLength] : Walk(from)
  BY DEF ServiceInv, LocationInv
<1>2. check \in Matched => chain # <<>> /\ \A c \in DOMAIN Inner : EndOf(c) = NoMatch
  BY DEF ServiceInv, LocationInv
<1>3. LongestLocation
  BY <1>1, <1>2 DEF LongestLocation, Walk, EndOf
<1> QED
  BY <1>3 DEF ServiceInv, ServerInv, CheckInv

(* HostServed, LongestMatched and OnlyAllowed for the requests that the    *)
(* parser yields.                                                          *)
THEOREM HandledByConfig == HandlingSpec => [](ServerOfHost /\ LongestLocation /\ ServedIsAllowed)
<1>1. ASSUME Uncalled PROVE ServerOfHost /\ LongestLocation /\ ServedIsAllowed
  <2>1. ServerOfHost /\ ServedIsAllowed
    BY <1>1 DEF Uncalled, ServerOfHost, ServedIsAllowed
  <2> DEFINE from == [i \in 1 .. 1 |-> 0]
  <2>2. chain = <<>> /\ Len(chain) + 1 = 1 /\ DOMAIN chain = {} /\ check \notin Matched
    BY <1>1 DEF Uncalled, Matched
  <2>3. from \in [1 .. Len(chain) + 1 -> 0 .. PathLength] /\ from[1] = 0
    BY <2>2, RequestServiceAssumption
  <2>4. RunsFrom(from)
    BY <2>2, <2>3 DEF RunsFrom
  <2> HIDE DEF from
  <2>5. LongestLocation
    BY <2>2, <2>3, <2>4 DEF LongestLocation
  <2> QED BY <2>1, <2>5
<1>2. Uncalled \/ ServiceInv => ServerOfHost /\ LongestLocation /\ ServedIsAllowed
  BY <1>1, ServiceSays
<1> QED
  BY <1>2, ServiceCalled, PTL

HasHost == \E i \in DOMAIN headers : Header(headers[i]) = "host"

(* Of the host: _host_set is what it says, a request of HTTP/1.1 is not    *)
(* completed without it, and no other is served.                           *)
HostInv ==
    /\ \E lines : headers \in Seq(lines)
    /\ hostSet => HasHost
    /\ pc = "done" /\ outcome = "Completed" /\ IsRequest => (NeedsHost => HasHost)
    /\ check # "idle" => pc = "done"
    /\ check \notin {"idle", "done"} =>
        /\ outcome = "Completed" /\ IsRequest
        /\ request.version = "1.1" => NeedsHost
    /\ check = "server" => request.version = "1.1"

LEMMA HostStart ==
    ASSUME HandlingInit
    PROVE  HostInv
<1>1. headers = <<>> /\ hostSet = FALSE /\ pc = "start" /\ check = "idle"
  BY DEF HandlingInit, Init, MessageInit
<1> QED
  BY <1>1 DEF HostInv

(* The parser adds header lines, and remembers a host among them.          *)
LEMMA HostParsed ==
    ASSUME HostInv, Poll, UNCHANGED serviceVars
    PROVE  HostInv'
<1>1. pc # "done" /\ pc \in {"start", "message", "built"}
  BY DEF Poll, PollRequest, PollResponse, PollMessage, StartExceedsBuffer, StartPending,
         RequestMethod, RequestUri, RequestVersion, RequestMessage, RequestFinished, RequestBuilt,
         ResponseVersion, ResponseStatus, ResponseMessage, ResponseFinished, ResponseBuilt,
         InStart, ExceedBuffer, MessagePending, MessageFinished, LineGrows, HeaderLine,
         HeaderTerminator, Body, ChunkedBodySize, ChunkedBodyData, AppendPending, AppendToBody, InState
<1>2. check = "idle" /\ check' = "idle"
  BY <1>1 DEF HostInv, serviceVars
<1>3. PICK lines : headers \in Seq(lines)
  BY DEF HostInv
<1>4. (\E all : headers' \in Seq(all)) /\ (hostSet' => HasHost')
  <2>1. CASE HeaderLine /\ headers' = Append(headers, Line) /\ hostSet' = (hostSet \/ Header(Line) = "host")
    <3> DEFINE all == lines \cup {Line}
    <3>1. headers \in Seq(all) /\ Line \in all
      BY <1>3
    <3>2. Append(headers, Line) \in Seq(all)
      BY <3>1
    <3>3. DOMAIN headers = 1 .. Len(headers) /\ Len(headers) \in Nat
      BY <3>1
    <3>4. DOMAIN headers' = 1 .. Len(headers) + 1 /\ headers'[Len(headers) + 1] = Line
      BY <2>1, <3>1, <3>3, AppendProperties
    <3>5. \A i \in DOMAIN headers : i \in DOMAIN headers' /\ headers'[i] = headers[i]
      BY <2>1, <3>1, <3>3, <3>4, AppendProperties
    <3>6. ASSUME hostSet PROVE HasHost'
      <4>1. PICK i \in DOMAIN headers : Header(headers[i]) = "host"
        BY <3>6 DEF HostInv, HasHost
      <4> QED BY <3>5, <4>1 DEF HasHost, Header
    <3>7. ASSUME Header(Line) = "host" PROVE HasHost'
      <4>1. Len(headers) + 1 \in DOMAIN headers'
        BY <3>3, <3>4
      <4> QED BY <3>4, <3>7, <4>1 DEF HasHost, Header
    <3>8. headers' \in Seq(all)
      BY <2>1, <3>2
    <3> QED BY <2>1, <3>6, <3>7, <3>8
  <2>2. CASE UNCHANGED <<headers, hostSet>>
    BY <1>3, <2>2 DEF HostInv, HasHost
  <2>3. CASE PollMessage /\ ~HeaderLine
    <3>1. UNCHANGED <<headers, hostSet>>
      BY <2>3 DEF PollMessage, ExceedBuffer, MessagePending, MessageFinished, LineGrows,
                  HeaderTerminator, Body, ChunkedBodySize, ChunkedBodyData, AppendPending,
                  AppendToBody, messageVars
    <3> QED BY <2>2, <3>1
  <2>4. CASE HeaderLine
    <3>1. \/ UNCHANGED <<headers, hostSet>>
          \/ headers' = Append(headers, Line) /\ hostSet' = (hostSet \/ Header(Line) = "host")
      BY <2>4 DEF HeaderLine
    <3> QED BY <2>1, <2>2, <2>4, <3>1
  <2>5. CASE PollRequest \/ PollResponse
    <3>1. UNCHANGED <<headers, hostSet>>
      BY <2>5 DEF PollRequest, PollResponse, StartExceedsBuffer, StartPending, RequestMethod,
                  RequestUri, RequestVersion, RequestMessage, RequestFinished, RequestBuilt,
                  ResponseVersion, ResponseStatus, ResponseMessage, ResponseFinished,
                  ResponseBuilt, messageVars
    <3> QED BY <2>2, <3>1
  <2> QED
    BY <2>3, <2>4, <2>5 DEF Poll
<1>5. ASSUME pc' = "done", outcome' = "Completed", IsRequest', NeedsHost'
      PROVE  HasHost'
  <2>1. CASE RequestBuilt
    <3>1. NeedsHost => hostSet
      BY <1>5, <2>1 DEF RequestBuilt, Throw
    <3>2. UNCHANGED <<headers, startLine>>
      BY <2>1 DEF RequestBuilt, messageVars, startVars
    <3> QED BY <1>5, <3>1, <3>2 DEF HostInv, HasHost, NeedsHost
  <2>2. IsRequest
    BY <1>5 DEF Poll, IsRequest
  <2>3. CASE PollRequest /\ ~RequestBuilt
    BY <1>1, <1>5, <2>3 DEF PollRequest, StartExceedsBuffer, StartPending, RequestMethod, RequestUri,
       RequestVersion, RequestMessage, RequestFinished, StartThrows, Throw, StartGrows, StartPart, Running
  <2>4. CASE PollMessage
    <3>1. HeaderError(Line) # "Completed"
      BY DEF HeaderError
    <3>2. CASE HeaderLine
      BY <1>1, <1>5, <3>1, <3>2 DEF HeaderLine, Throw, Running
    <3>3. CASE ~HeaderLine
      BY <1>1, <1>5, <2>4, <3>3 DEF PollMessage, ExceedBuffer, MessagePending, MessageFinished,
         LineGrows, HeaderTerminator, Body, ChunkedBodySize, ChunkedBodyData, AppendPending,
         AppendToBody, Throw, Complete, Running
    <3> QED BY <3>2, <3>3
  <2> QED
    BY <2>1, <2>2, <2>3, <2>4 DEF Poll
<1> QED
  BY <1>2, <1>4, <1>5 DEF HostInv

(* Whatever is not a poll leaves what was parsed as it is.                 *)
LEMMA HostKept ==
    ASSUME HostInv, UNCHANGED <<headers, hostSet, input, startLine>>
    PROVE  /\ \E lines : headers' \in Seq(lines)
           /\ hostSet' => HasHost'
           /\ HasHost' = HasHost /\ NeedsHost' = NeedsHost /\ IsRequest' = IsRequest
BY DEF HostInv, HasHost, NeedsHost, IsRequest

(* The service never reads a host that a request does not have (the host   *)
(* is dereferenced unasked, main.cpp:1054): for any messages, in any       *)
(* portions, with any limits, and for those with a length that wraps or    *)
(* without one too.                                                        *)
THEOREM HostAsked == HandlingSpec => []ServedHasHost
<1>1. HandlingInit => HostInv
  BY HostStart
<1>2. HostInv /\ [HandlingNext]_handlingVars => HostInv'
  <2> SUFFICES ASSUME HostInv, [HandlingNext]_handlingVars PROVE HostInv'
    OBVIOUS
  <2>1. CASE Poll /\ UNCHANGED serviceVars
    BY <2>1, HostParsed
  <2>2. CASE Fires /\ UNCHANGED serviceVars
    <3>1. /\ UNCHANGED <<headers, hostSet, input, startLine, check, request, outcome>>
          /\ pc = "waiting" /\ pc' = "start"
      BY <2>2 DEF Fires, startVars, serviceVars
    <3>2. check = "idle"
      BY <3>1 DEF HostInv
    <3> QED BY <3>1, <3>2, HostKept DEF HostInv
  <2>3. CASE CallService
    <3>1. /\ UNCHANGED <<headers, hostSet, input, startLine, pc, outcome>>
          /\ pc = "done" /\ outcome = "Completed" /\ IsRequest /\ check' = "version"
      BY <2>3 DEF CallService, vars, messageVars, startVars
    <3>2. request'.version = "1.1" => NeedsHost
      BY <2>3 DEF CallService, Built, NeedsHost
    <3>3. /\ \E lines : headers' \in Seq(lines)
          /\ hostSet' => HasHost'
          /\ NeedsHost => HasHost
          /\ HasHost' = HasHost /\ NeedsHost' = NeedsHost /\ IsRequest' = IsRequest
      BY <3>1, HostKept DEF HostInv
    <3> QED BY <3>1, <3>2, <3>3 DEF HostInv
  <2>4. CASE AnswerError
    <3>1. /\ UNCHANGED <<headers, hostSet, input, startLine, pc, outcome>>
          /\ pc = "done" /\ check' = "done"
      BY <2>4 DEF AnswerError, Answer, vars, messageVars, startVars
    <3> QED BY <3>1, HostKept DEF HostInv
  <2>5. CASE ServiceNext /\ UNCHANGED vars
    <3>1. UNCHANGED <<headers, hostSet, input, startLine, pc, outcome>>
      BY <2>5 DEF vars, messageVars, startVars
    <3>2. UNCHANGED request /\ check \notin {"idle", "done"}
      BY <2>5, ServiceGuards DEF ServiceNext, CheckVersion, MatchServer, DefaultServer, MatchLocation,
         EnterLocation, LocationsMatched, MatchBaseConfig, CheckAuthorization, CheckMethod,
         CheckInnerBodyLimit, ConnectProxy, TryDownload, FindRoot, SearchPath, ServeFile
    <3>3. check' # "idle" /\ (check' = "server" => check = "server" \/ request.version = "1.1")
      BY <2>5 DEF ServiceNext, CheckVersion, MatchServer, DefaultServer, MatchLocation, EnterLocation,
         LocationsMatched, MatchBaseConfig, CheckAuthorization, CheckMethod, CheckInnerBodyLimit,
         ConnectProxy, TryDownload, FindRoot, SearchPath, ServeFile, Goto, Answer
    <3>4. /\ \E lines : headers' \in Seq(lines)
          /\ hostSet' => HasHost'
          /\ HasHost' = HasHost /\ NeedsHost' = NeedsHost /\ IsRequest' = IsRequest
      BY <3>1, HostKept
    <3>5. /\ pc = "done" /\ outcome = "Completed" /\ IsRequest
          /\ NeedsHost => HasHost
          /\ request.version = "1.1" => NeedsHost
          /\ check = "server" => request.version = "1.1"
      BY <3>2 DEF HostInv
    <3> QED BY <3>1, <3>2, <3>3, <3>4, <3>5 DEF HostInv
  <2>6. CASE UNCHANGED handlingVars
    <3>1. UNCHANGED <<headers, hostSet, input, startLine, pc, outcome, check, request>>
      BY <2>6 DEF handlingVars, vars, serviceVars, messageVars, startVars
    <3> QED BY <3>1, HostKept DEF HostInv
  <2> QED
    BY <2>1, <2>2, <2>3, <2>4, <2>5, <2>6 DEF HandlingNext, Next
<1>3. HostInv => ServedHasHost
  BY DEF HostInv, ServedHasHost, HasHost
<1> QED
  BY <1>1, <1>2, <1>3, PTL DEF HandlingSpec
=============================================================================
