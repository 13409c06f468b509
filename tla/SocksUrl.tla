------------------------------- MODULE SocksUrl -------------------------------
(***************************************************************************)
(* The argument of --proxy: mosquitto__parse_socks_url(), one pass over    *)
(* the characters, and mosquitto__urldecode().                             *)
(*                                                                         *)
(* A url is a scheme and the characters that follow it.  A character is a  *)
(* string; the escapes %25, %3a and %40 count as one character each, and   *)
(* "%" is a percent sign that begins none of them.  No text the parser     *)
(* cuts out can be empty, so <<>> stands for NULL.                         *)
(***************************************************************************)
EXTENDS Integers, SequencesExt

NULL == <<>>
Digits == <<"0", "1", "2", "3", "4", "5", "6", "7", "8", "9">>
DefaultPort == 1080

\* What mosquitto__urldecode makes of an escape; %40 becomes a colon as well.
Escape == [c \in {"%25", "%3a", "%40"} |-> IF c = "%25" THEN "%" ELSE ":"]

\* mosquitto__urldecode fails on a text that is not Decodable.
Decodable(text) == ~Contains(text, "%")
Decoded(text) == [k \in DOMAIN text |->
                     IF text[k] \in DOMAIN Escape THEN Escape[text[k]] ELSE text[k]]

\* atoi(): the digits a text begins with.
atoi(text) ==
    LET Add(a, c) == IF a.more /\ Contains(Digits, c)
                     THEN [a EXCEPT !.n = 10 * @ + SelectInSeq(Digits, LAMBDA d : d = c) - 1]
                     ELSE [a EXCEPT !.more = FALSE]
    IN  FoldLeft(Add, [n |-> 0, more |-> TRUE], text).n

-----------------------------------------------------------------------------
(* The pass over the characters: part is the text since start *)

Begin == [part |-> NULL, first |-> NULL, username |-> NULL, password |-> NULL,
          host |-> NULL, have_auth |-> FALSE, bad |-> FALSE]

\* Mutant of At: what precedes the @ is taken for the user name as a whole.
AtUser(p) == [p EXCEPT !.username = p.part, !.part = NULL, !.have_auth = TRUE]

\* first is the code's username_or_host.  A colon before the @ ends a part only
\* the first time.
Colon(p) ==
    CASE p.have_auth /\ p.host # NULL  -> [p EXCEPT !.bad = TRUE]
      [] p.have_auth /\ p.host = NULL  -> [p EXCEPT !.host = p.part, !.part = NULL]
      [] ~p.have_auth /\ p.first = NULL -> [p EXCEPT !.first = p.part, !.part = NULL]
      [] OTHER                         -> [p EXCEPT !.part = Append(@, ":")]

At(p) ==
    CASE p.first # NULL -> [p EXCEPT !.username = p.first, !.password = p.part,
                                     !.first = NULL, !.part = NULL, !.have_auth = TRUE]
      [] p.first = NULL /\ p.username # NULL -> [p EXCEPT !.bad = TRUE]
      [] OTHER -> [p EXCEPT !.username = p.part, !.part = NULL, !.have_auth = TRUE]

Scan(p, c) ==
    IF p.bad THEN p
    ELSE IF c \notin {":", "@"} THEN [p EXCEPT !.part = Append(@, c)]
    ELSE IF p.part = NULL THEN [p EXCEPT !.bad = TRUE]
    ELSE IF c = ":" THEN Colon(p) ELSE At(p)

\* What the first n characters of a text come to.
Scanned(text) ==
    LET scanned[n \in 0..Len(text)] ==
            IF n = 0 THEN Begin ELSE Scan(scanned[n - 1], text[n])
    IN  scanned

\* What is left at the end is the port, or the host when there is none yet.
Remainder(p) ==
    IF p.part = NULL THEN [host |-> p.host, port |-> NULL]
    ELSE IF p.host # NULL THEN [host |-> p.host, port |-> p.part]
    ELSE IF p.first # NULL THEN [host |-> p.first, port |-> p.part]
    ELSE [host |-> p.part, port |-> NULL]

IsPort(n) == 1 <= n /\ n <= 65535
PortOf(text) == IF text = NULL THEN DefaultPort ELSE atoi(text)

\* The proxy settings, with ok = FALSE where the function returns 1.
parse_socks_url(url) ==
    LET p    == Scanned(url.rest)[Len(url.rest)]
        r    == Remainder(p)
        port == PortOf(r.port)
    IN  [ok |-> /\ url.scheme = "socks5h" /\ ~p.bad /\ r.host # NULL
                /\ Decodable(p.username) /\ Decodable(p.password)
                /\ IsPort(port),
         username |-> Decoded(p.username), password |-> Decoded(p.password),
         host |-> r.host, port |-> port]

-----------------------------------------------------------------------------
(* Reference: what a url of the form [username[:password]@]host[:port] says.   *)
(* The code is laxer than the form in three ways: a password may contain       *)
(* colons, so may the port's text when there is no user, and when there is one *)
(* the port's text may be empty.                                               *)

Cuts(text, c) == {<<SubSeq(text, 1, k - 1), SubSeq(text, k + 1, Len(text))>> :
                     k \in {j \in DOMAIN text : text[j] = c}}
Plain(text)  == text # <<>> /\ ~Contains(text, ":") /\ ~Contains(text, "@")
Opaque(text)  == text # <<>> /\ Head(text) # ":" /\ ~Contains(text, "@")
Port(text, user) == IF user THEN text = <<>> \/ Plain(text) ELSE Opaque(text)

Users(text) ==
    {[username |-> t, password |-> NULL] : t \in {x \in {text} : Plain(x)}}
    \cup {[username |-> x[1], password |-> x[2]] :
             x \in {y \in Cuts(text, ":") : Plain(y[1]) /\ Opaque(y[2])}}
Addresses(text, user) ==
    {[host |-> t, port |-> NULL] : t \in {x \in {text} : Plain(x)}}
    \cup {[host |-> x[1], port |-> x[2]] :
             x \in {y \in Cuts(text, ":") : Plain(y[1]) /\ Port(y[2], user)}}
Nobody == [username |-> NULL, password |-> NULL]
Said(u, a) ==
    [username |-> u.username, password |-> u.password, host |-> a.host, port |-> a.port]
Readings(text) ==
    {Said(Nobody, a) : a \in Addresses(text, FALSE)}
    \cup UNION {{Said(u, a) : u \in Users(x[1]), a \in Addresses(x[2], TRUE)} :
                   x \in Cuts(text, "@")}

\* Escapes as the comment on mosquitto__urldecode has them.
Meant(text) ==
    LET meant == [Escape EXCEPT !["%40"] = "@"]
    IN  [k \in DOMAIN text |-> IF text[k] \in DOMAIN meant THEN meant[text[k]] ELSE text[k]]

\* The proxy settings read from a url are what the url says, and a url that says
\* nothing is refused.  Only %40 in the user's part is not taken as meant.
ReadAsWritten(url) ==
    LET p  == parse_socks_url(url)
        rs == {r \in Readings(url.rest) :
                  /\ url.scheme = "socks5h"
                  /\ Decodable(r.username) /\ Decodable(r.password)
                  /\ r.port # NULL => IsPort(atoi(r.port))}
    IN  /\ p.ok <=> rs # {}
        /\ p.ok => \E r \in rs :
              /\ p.host = r.host
              /\ p.port = IF r.port = NULL THEN DefaultPort ELSE atoi(r.port)
              /\ \/ Contains(r.username \o r.password, "%40")
                 \/ p.username = Meant(r.username) /\ p.password = Meant(r.password)
=============================================================================
