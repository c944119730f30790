--------------------------- MODULE MCRequestHandling ---------------------------
(* Instances of RequestHandling for TLC: messages for the parsers, and     *)
(* calls of the service.                                                   *)
EXTENDS RequestHandling

Pad(n) == [i \in 1 .. n |-> <<"pad", i>>]

Get == <<<<"method", 0>>>>
Post == <<<<"method", 1>>>>
V10 == <<<<"version", 0>>>>
V11 == <<<<"version", 1>>>>
Host == <<<<"host", 0>>>>
OtherHost == <<<<"host", 1>>>>
BadHost == <<<<"host", 2>>>>
Referer(form) == <<<<"referer", form>>>>
ContentLength(n) == <<<<"length", n>>>>
Chunked == <<<<"chunked", 0>>>>
Encoding == <<<<"encoding", 0>>>>
Field(n) == <<<<"field", 0>>>> \o Pad(n)
Junk == <<<<"field", 0>>, <<"junk", 0>>>>

Request(m, u, v, h, f, c) ==
    [kind |-> "request", method |-> m, uri |-> u, version |-> v, headers |-> h,
     framing |-> f, ends |-> c]

Response(v, s, h, f, c) ==
    [kind |-> "response", version |-> v, status |-> s, headers |-> h,
     framing |-> f, ends |-> c]

(* Start lines at their limits and beyond.                                 *)
StartLines ==
    {Request(m, Pad(2), V10, <<>>, "eof", <<0>>) :
        m \in {Get, Post \o Pad(1), Post \o Pad(3)}}
    \cup {Request(Get, Pad(n), V10, <<>>, "eof", <<0>>) : n \in 3 .. 4}
    \cup {Request(Get, Pad(1) \o <<<<"junk", 0>>>> \o Pad(n), V10, <<>>, "eof", <<0>>) : n \in {1, 2}}
    \cup {Request(Get, Pad(1), V10 \o Pad(n), <<>>, "eof", <<0>>) : n \in 1 .. 2}
    \cup {Response(v, <<<<"code", 0>>>> \o s, <<>>, "eof", <<0>>) :
            v \in {V10, V10 \o Pad(1), V10 \o Pad(3)}, s \in {<<>>, <<Sp>>}}

(* Headers that are wrong, too long, given twice or missing.               *)
HeaderLists == {<<>>, <<Host>>, <<Host, Host>>, <<Field(1), Host>>, <<Field(2)>>,
                <<OtherHost>>, <<BadHost>>, <<Host, BadHost>>, <<Host, Referer(0)>>,
                <<Host, Referer(1)>>, <<Host, Referer(2)>>, <<BadHost \o Pad(2)>>,
                <<BadHost \o Junk>>, <<Junk, Host>>, <<<<<<"field", 0>>, Cr>>>>, <<Host, Encoding>>}

HeaderRequests ==
    {Request(Get, Pad(1), V11, h, "eof", <<0>>) : h \in HeaderLists}
    \cup {Request(m, Pad(1), V11, <<Host, ContentLength(1)>>, "length", <<1>>) : m \in {Get, Post}}

(* Bodies at their limits, in each framing.                                *)
Framings ==
    {<<<<ContentLength(n)>>, "length", <<n>>>> : n \in 0 .. 5}
    \cup {<<<<Chunked>>, "chunked", c>> :
            c \in {<<>>, <<1>>, <<2, 3>>, <<2, 4>>, <<2, 4, 6>>, <<3>>,
                   <<9>>, <<1, 10>>, <<2, 10>>, <<2, 4, 13>>}}
    \cup {<<<<Chunked>>, "hugeChunk", c>> : c \in {<<1>>, <<2, 4>>}}
    \cup {<<<<Chunked>>, f, <<>>>> : f \in {"longChunk", "badSize"}}
    \cup {<<<<ContentLength(3), Chunked, ContentLength(1)>>, "length", <<1>>>>}
    \cup {<<<<>>, "eof", <<n>>>> : n \in {0, 1, 4}}

BodyInputs ==
    {Request(Post, Pad(1), V10, f[1], f[2], f[3]) : f \in Framings}
    \cup {Response(V10, <<<<"code", 0>>, Sp>>, f[1], f[2], f[3]) : f \in Framings}

AllMessages == StartLines \cup HeaderRequests \cup BodyInputs

BothLimits == {[buffer |-> 3, body |-> 3], [buffer |-> 3, body |-> 5]}
-----------------------------------------------------------------------------
Unset == [k \in Keys |-> None]
With(k, v) == [Unset EXCEPT ![k] = Some(v)]

Asked == [version |-> "1.1", auth |-> "absent", method |-> "GET", size |-> 0,
          host |-> "h", address |-> "a"]

(* The pattern of a location by where it matches up to from each position. *)
Loc(inner, final, pattern, settings) ==
    [locations |-> inner, final |-> final, pattern |-> pattern, settings |-> settings]

Always == [i \in 0 .. PathLength |-> i]
Never == [i \in 0 .. PathLength |-> NoMatch]
ToEnd == [i \in 0 .. PathLength |-> PathLength]
Next1 == [i \in 0 .. PathLength |-> IF i = PathLength THEN NoMatch ELSE i + 1]

Server(binds, names, inner, settings) ==
    [binds |-> binds, names |-> names, locations |-> inner, settings |-> settings]

Config(http, servers, locations) ==
    [http |-> http, servers |-> servers, locations |-> locations]

(* Two servers of two addresses, with any names.                           *)
Servers == {Server(b, n, <<1>>, Unset) : b \in {{"a"}, {"b"}}, n \in {{}, {"h"}}}

ServerConfigs ==
    {Config(Unset, s, <<Loc(<<>>, FALSE, Always, Unset)>>) :
        s \in {t \in [1 .. 2 -> Servers] : \E i \in 1 .. 2 : "a" \in t[i].binds}}

(* Two locations that match some of a path, and two inside the first.      *)
LocationConfigs ==
    {Config(Unset, <<Server({"a"}, {}, <<1, 2>>, Unset)>>,
            <<Loc(<<3, 4>>, f, p, Unset), Loc(<<>>, FALSE, q, Unset),
              Loc(<<>>, FALSE, r, Unset), Loc(<<>>, FALSE, Next1, Unset)>>) :
        f \in BOOLEAN, p \in {Always, Never, Next1}, q \in {Never, Next1}, r \in {Always, Never, ToEnd}}

(* Settings on each level, of one kind, for requests with each kind of     *)
(* each part; and what a file can be served by.                            *)
Scripts == {With("cgi", FALSE), With("cgi", TRUE), Unset}

SettingKinds ==
    {Scripts, {Unset, With("auth", "credentials")}, {Unset, With("proxy", "p")},
     {Unset, With("upload", "d")}, {With("methods", {"PUT"}), With("methods", {}), Unset},
     {With("body_limit", 0), With("body_limit", 1), Unset}}

Nested == <<Loc(<<2>>, FALSE, Always, Unset), Loc(<<>>, FALSE, Always, Unset)>>

SettingConfigs ==
    UNION {{Config([Unset EXCEPT !["root"] = Some("/"), !["methods"] = Some({"GET", "PUT", "POST"})],
                   <<Server({"a"}, {}, <<1>>, srv)>>,
                   [Nested EXCEPT ![1].settings = outer, ![2].settings = inner]) :
                srv \in IF kind = Scripts THEN {With("autoindex", TRUE), With("index", "i")} ELSE {With("modules", "m")},
                outer \in kind, inner \in kind} : kind \in SettingKinds}

Requests ==
    {[Asked EXCEPT !.auth = a] : a \in {"absent", "right", "wrong", "malformed"}}
    \cup {[Asked EXCEPT !.method = m, !.size = 1] : m \in {"PUT", "POST"}}

AllCalls ==
    [request : {[Asked EXCEPT !.version = "1.0", !.method = m, !.size = n] :
                    m \in {"GET", "POST"}, n \in 0 .. 5},
     config : {Config(Unset, <<Server({"a"}, {}, <<>>, Unset)>>, <<>>)}]
    \cup [request : {Asked}, config : ServerConfigs \cup LocationConfigs]
    \cup [request : Requests, config : SettingConfigs]
=============================================================================
