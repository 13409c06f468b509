---------------------------- MODULE MCClientStart ----------------------------
(***************************************************************************)
(* Small instances of ClientStart: every way of giving up to three options *)
(* of a theme, some in the file and some on the command line; every short  *)
(* proxy url; and every length of what there is to load.                   *)
(***************************************************************************)
EXTENDS ClientStart

Numbers == "0" :> 0 @@ "1" :> 1 @@ "7" :> 7 @@ "99" :> 99 @@ "70000" :> 70000 @@ "-1" :> -1
Wild == {"a/+"}         \* fine to subscribe to, not to publish to
Malformed == {"a#"}     \* not even fine to subscribe to
NotToPublish == Wild \cup Malformed

OneByte == [length |-> 1, fails |-> FALSE]
Url(text) == [scheme |-> "socks5h", rest |-> text]
ToPub == <<<<"-t", "top">>>>
ToPubMsg == ToPub \o <<<<"-m", "msg">>>>

\* The options of a pool, up to n of them: some in the file, then base and the
\* others on the command line.
Splits(s) == {<<SubSeq(s, 1, k), SubSeq(s, k + 1, Len(s))>> : k \in 0..Len(s)}
Theme(program, base, pool, n) ==
    {[program |-> program, file |-> p[1], argv |-> base \o p[2], url |-> Url(<<"a">>),
      input |-> OneByte] : p \in UNION {Splits(s) : s \in BoundedSeq(pool, n)}}

Sessions == {<<"-i", "me">>, <<"-I", "pre">>, <<"-c">>, <<"-t", "top">>, <<"-t", "a#">>,
             <<"-T", "a/+">>, <<"-C", "0">>, <<"-r">>}
Security == {<<"--cert", "c">>, <<"--key", "k">>, <<"--cafile", "f">>, <<"--capath", "d">>,
             <<"--psk", "p">>, <<"--psk-identity", "i">>, <<"--ciphers", "c">>, <<"--insecure">>}
WillAuth == {<<"--will-topic", "w">>, <<"--will-topic", "a/+">>, <<"--will-payload", "p">>,
             <<"--will-retain">>, <<"--will-qos", "1">>, <<"--will-qos", "7">>,
             <<"-u", "u">>, <<"-P", "p">>}
Sources  == {<<"-m", "msg">>, <<"-f", "file">>, <<"-l">>, <<"-n">>, <<"-s">>, <<"-t", "a/+">>,
             <<"--help">>, <<"-p">>, <<"-m", "two", "words">>, <<"#", "-n">>, <<"-i", "me">>, <<"-c">>}
Network  == {<<"-p", "0">>, <<"-p", "70000">>, <<"-p", "99">>, <<"-k", "70000">>, <<"-k", "99">>,
             <<"-M", "7">>, <<"-V", "mqttv311">>, <<"-V", "5">>, <<"-A", "a">>, <<"-h", "h">>,
             <<"-S">>, <<"-d">>, <<"-q", "-1">>, <<"-q", "1">>, <<"-x">>}

\* Short urls, with a letter and with escapes; and urls as long as a full one.
Parts == {"a", "9", "%25", "%3a", "%40", "%", ":", "@"}
Full  == {<<u, ":", p, "@", "h", c, n>> : u \in Parts, p \in Parts, c \in {":", "@"}, n \in Parts}
Urls == UNION {
    {Url(text) : text \in BoundedSeq({":", "@", "9"}, 6)},
    {Url(text) : text \in BoundedSeq({":", "@", "a", "%40"}, 4)},
    {Url(text) : text \in Full},
    {Url(<<"h", ":">> \o port) : port \in {<<"6", "5", "5", "3", "5">>, <<"6", "5", "5", "3", "6">>, <<"0">>}},
    {[scheme |-> "http", rest |-> <<"a">>]}}
Inputs == [length : 0..4, fails : BOOLEAN]

StartJobs == UNION {
    Theme("sub", <<>>, Sessions, 3), Theme("sub", ToPub, Sources, 1),
    Theme("pub", ToPubMsg, Security, 3), Theme("pub", ToPubMsg, WillAuth, 3),
    Theme("pub", ToPub, Sources, 2), Theme("pub", ToPubMsg, Network, 2),
    Theme("pub", <<<<"-n">>>>, Sources, 1),
    {[program |-> "pub", file |-> <<>>, argv |-> ToPubMsg \o <<<<"--proxy", "URL">>>>,
      url |-> u, input |-> OneByte] : u \in Urls},
    {[program |-> "pub", file |-> <<>>, argv |-> ToPub \o <<m>>, url |-> Url(<<"a">>),
      input |-> i] : m \in {<<"-f", "file">>, <<"-s">>}, i \in Inputs}}
=============================================================================
