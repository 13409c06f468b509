------------------------------ MODULE PubClient ------------------------------
(***************************************************************************)
(* mosquitto_pub: main() and the callbacks of libmosquitto.                *)
(*                                                                         *)
(* With -l main() reads stdin line by line while a thread of the library   *)
(* runs the callbacks; in the other modes main() itself calls              *)
(* mosquitto_loop() and the callbacks run inside it.  The broker and the   *)
(* library are external: a connection is refused, accepted or lost,        *)
(* messages are acknowledged in the order they were published.             *)
(***************************************************************************)
EXTENDS Integers, Sequences

CONSTANTS
    Modes,        \* values of cfg.pub_mode
    Block,        \* growth of the line buffer, 1024 in the code
    MaxMid,       \* largest message id, 65535 in the protocol
    Inputs,       \* what stdin may hold: sequences of Line
    MaxLosses,    \* bound: connections refused or lost
    MaxFailures   \* bound: calls of mosquitto_publish() that fail when connected

Line == [length : Nat, ended : BOOLEAN]   \* ended: by a newline
Mode == {"CMD", "STDIN_LINE", "STDIN_FILE", "FILE", "NULL"}

ASSUME PubAssumption ==
    /\ Modes \subseteq Mode
    /\ Block \in Nat /\ Block > 1 /\ MaxMid \in Nat \ {0}
    /\ Inputs \subseteq Seq(Line)
    /\ \A input \in Inputs : \A k \in 1..Len(input) : k < Len(input) => input[k].ended
    /\ MaxLosses \in Nat /\ MaxFailures \in Nat

VARIABLES
    mode, status, mid_sent, last_mid, last_mid_sent, connected, disconnect_sent,
    main,         \* where main() is
    rc,           \* its exit status, 0 or 1
    stdin,        \* the lines not yet read
    buf,          \* the line buffer: characters of the line read, by their index
    at,           \* main's locals pos, read_len, buf_len and how much of the line is read
    net,          \* library: the connection
    closing,      \* library: mosquitto_disconnect() has been called
    inflight,     \* library: ids published and not acknowledged
    cb,           \* the id my_publish_callback is running for, or 0
    sent,         \* ghost: the lines published, each with what was sent of it
    faults,       \* ghost: losses and failures so far
    lapped        \* ghost: an id was taken again while it was in use

file   == <<mode, status, mid_sent, last_mid, last_mid_sent, connected, disconnect_sent>>
reader == <<stdin, buf, at>>
lib    == <<net, closing, inflight, cb>>
used   == <<faults, lapped>>
vars   == <<file, main, rc, reader, lib, sent, used>>

NL == 0

Start == [pos |-> 0, read_len |-> Block, buf_len |-> Block, read |-> 0]

Init ==
    /\ mode \in Modes /\ status = "CONNECTING"
    /\ mid_sent = 0 /\ last_mid = -1 /\ last_mid_sent = -1
    /\ connected = TRUE /\ disconnect_sent = FALSE
    /\ main = "LOAD" /\ rc = 0
    /\ stdin \in IF mode = "STDIN_LINE" THEN Inputs ELSE {<<>>}
    /\ buf = <<>> /\ at = Start
    /\ net = "CLOSED" /\ closing = FALSE /\ inflight = <<>> /\ cb = 0
    /\ sent = <<>> /\ faults = [losses |-> 0, failures |-> 0] /\ lapped = FALSE

Threaded == mode = "STDIN_LINE"
Looping  == main \notin {"LOAD", "CONNECT", "DONE"}

\* main() up to the loop: the input is loaded or cannot be, the broker is
\* reached or not.
Load ==
    /\ main = "LOAD"
    /\ \/ mode \in {"FILE", "STDIN_FILE"} /\ main' = "DONE" /\ rc' = 1
       \/ main' = "CONNECT" /\ UNCHANGED rc
    /\ UNCHANGED <<file, reader, lib, sent, used>>
client_connect ==
    /\ main = "CONNECT"
    /\ \/ main' = "DONE" /\ rc' = 1 /\ UNCHANGED net
       \/ main' = "BODY" /\ net' = "CONNECTING" /\ UNCHANGED rc
    /\ UNCHANGED <<file, reader, closing, inflight, cb, sent, used>>

-----------------------------------------------------------------------------
(* libmosquitto *)

\* Mutant of NextMid: the ids do not start again.
NextMidUnwrapped(mid) == mid + 1

NextMid(mid) == (mid % MaxMid) + 1
InUse(mid) == mid = last_mid_sent \/ \E k \in 1..Len(inflight) : inflight[k] = mid

\* mosquitto_publish(): the id is taken, and the message goes out or is kept
\* for later; or the call fails, before or after the id is taken.
Accepted(mid) ==
    /\ mid_sent' = mid /\ inflight' = Append(inflight, mid)
    /\ lapped' = (lapped \/ InUse(mid))
    /\ UNCHANGED <<closing, faults>>
Failed(mid) ==
    /\ mid_sent' \in {mid_sent, mid} /\ UNCHANGED inflight
    /\ net = "UP" => faults.failures < MaxFailures
    /\ faults' = [faults EXCEPT !.failures = IF net = "UP" THEN @ + 1 ELSE @]
    /\ lapped' = (lapped \/ InUse(mid))
    /\ closing' = TRUE   \* both callers disconnect

\* Mutant of EndStatus: the end of a connection is never an error.
EndStatusZero == rc

\* The connection ends; the status mosquitto_loop() returns is 0 only when it
\* was asked for.  Only a main() that loops itself gets to see it.
EndStatus == IF ~Threaded /\ ~closing THEN 1 ELSE rc
Ended ==
    /\ net' = "CLOSED" /\ connected' = FALSE
    /\ rc' = EndStatus
    /\ UNCHANGED <<mode, status, mid_sent, last_mid, last_mid_sent, disconnect_sent>>

Refuse ==
    /\ net = "CONNECTING" /\ Looping /\ faults.losses < MaxLosses
    /\ Ended /\ faults' = [faults EXCEPT !.losses = @ + 1]
    /\ UNCHANGED <<main, reader, closing, inflight, cb, sent, lapped>>
Lose ==
    /\ net = "UP" /\ cb = 0 /\ Looping /\ faults.losses < MaxLosses
    /\ Ended /\ faults' = [faults EXCEPT !.losses = @ + 1]
    /\ UNCHANGED <<main, reader, closing, inflight, cb, sent, lapped>>
Disconnected ==
    /\ net = "UP" /\ closing /\ cb = 0 /\ Looping /\ Ended
    /\ UNCHANGED <<main, reader, closing, inflight, cb, sent, used>>

\* The thread of the library connects again until mosquitto_disconnect().
Reconnect ==
    /\ net = "CLOSED" /\ Threaded /\ Looping /\ ~closing /\ net' = "CONNECTING"
    /\ UNCHANGED <<file, main, rc, reader, closing, inflight, cb, sent, used>>

my_connect_callback ==
    /\ net = "CONNECTING" /\ Looping /\ net' = "UP"
    /\ IF mode = "STDIN_LINE"
       THEN status' = "CONNACK_RECVD" /\ UNCHANGED <<mid_sent, closing, inflight, used>>
       ELSE (Accepted(NextMid(mid_sent)) \/ Failed(NextMid(mid_sent))) /\ UNCHANGED status
    /\ UNCHANGED <<mode, last_mid, last_mid_sent, connected, disconnect_sent,
                   main, rc, reader, cb, sent>>

\* Mutant of LastOne: whatever is acknowledged ends the client.
AnyOne(mid) == TRUE

\* The acknowledgement ends the client: with -l it must be that of the last
\* line, else the first.
LastOne(mid) == IF mode = "STDIN_LINE" THEN mid = last_mid ELSE ~disconnect_sent

\* my_publish_callback, in two steps: a thread of its own may see the first.
Acknowledged ==
    /\ net = "UP" /\ inflight # <<>> /\ cb = 0 /\ Looping
    /\ cb' = Head(inflight) /\ last_mid_sent' = cb' /\ inflight' = Tail(inflight)
    /\ UNCHANGED <<mode, status, mid_sent, last_mid, connected, disconnect_sent,
                   main, rc, reader, net, closing, sent, used>>
my_publish_callback ==
    /\ cb # 0 /\ cb' = 0
    /\ IF LastOne(cb) THEN closing' = TRUE /\ disconnect_sent' = TRUE
       ELSE UNCHANGED <<closing, disconnect_sent>>
    /\ UNCHANGED <<mode, status, mid_sent, last_mid, last_mid_sent, connected,
                   main, rc, reader, net, inflight, sent, used>>

Broker == Disconnected \/ Reconnect \/ my_connect_callback \/ Acknowledged
          \/ my_publish_callback

-----------------------------------------------------------------------------
(* main() with -l *)

Reading == main = "BODY" /\ Threaded /\ status = "CONNACK_RECVD"

\* The next characters of the line, at most read_len - 1 of them.
Rest == Head(stdin).length + (IF Head(stdin).ended THEN 1 ELSE 0) - at.read
Char(k) == IF k <= Head(stdin).length THEN k ELSE NL
Chunk == LET count == IF Rest < at.read_len - 1 THEN Rest ELSE at.read_len - 1
         IN  [k \in 1..count |-> Char(at.read + k)]
Gathered == SubSeq(buf, 1, at.pos) \o Chunk
Full == Gathered[Len(Gathered)] = NL

\* Mutant of Grown: the first part of a long line is dropped.
GrownAfresh(a) ==
    [pos |-> 0, read_len |-> Block, buf_len |-> a.buf_len + Block,
     read |-> a.read + Len(Chunk)]

\* No newline yet: pos is moved on by Block - 1 whatever was read.
Grown(a) ==
    [pos |-> a.pos + Block - 1, read_len |-> Block, buf_len |-> a.buf_len + Block,
     read |-> a.read + Len(Chunk)]

Fgets ==
    /\ Reading /\ stdin # <<>> /\ Rest > 0 /\ ~Full
    /\ buf' = Gathered /\ at' = Grown(at)
    /\ UNCHANGED <<file, main, rc, stdin, lib, sent, used>>

\* A line that is complete is published; the next one starts with read_len = buf_len.
PublishLine ==
    /\ Reading /\ stdin # <<>> /\ Rest > 0 /\ Full
    /\ LET message == SubSeq(Gathered, 1, Len(Gathered) - 1)
           mid     == NextMid(mid_sent)
       IN  \/ /\ Accepted(mid)
              /\ sent' = Append(sent, [message |-> message, line |-> Head(stdin),
                                       pos |-> at.pos, buf_len |-> at.buf_len])
           \/ Failed(mid) /\ UNCHANGED sent
    /\ stdin' = Tail(stdin) /\ buf' = <<>>
    /\ at' = [Start EXCEPT !.read_len = at.buf_len, !.buf_len = at.buf_len]
    /\ main' = "CHECK"
    /\ UNCHANGED <<mode, status, last_mid, last_mid_sent, connected, disconnect_sent,
                   rc, net, cb>>

\* The end of stdin: a line without a newline is in the buffer and stays there.
EndOfInput ==
    /\ Reading /\ (stdin # <<>> => Rest = 0)
    /\ last_mid' = mid_sent /\ stdin' = <<>> /\ main' = "EOF"
    /\ UNCHANGED <<mode, status, mid_sent, last_mid_sent, connected, disconnect_sent,
                   rc, buf, at, lib, sent, used>>
Waiting ==
    /\ main = "EOF" /\ status' = "WAITING" /\ main' = "CHECK"
    /\ UNCHANGED <<mode, mid_sent, last_mid, last_mid_sent, connected, disconnect_sent,
                   rc, reader, lib, sent, used>>

\* Mutant of AllSent: left to the callback.
AllSentNever == FALSE

AllSent == last_mid_sent = last_mid /\ ~disconnect_sent
Poll ==
    /\ main = "BODY" /\ Threaded /\ status = "WAITING" /\ main' = "CHECK"
    /\ IF AllSent THEN closing' = TRUE /\ disconnect_sent' = TRUE
       ELSE UNCHANGED <<closing, disconnect_sent>>
    /\ UNCHANGED <<mode, status, mid_sent, last_mid, last_mid_sent, connected,
                   rc, reader, net, inflight, cb, sent, used>>
Spin ==
    /\ main = "BODY" /\ Threaded /\ status = "CONNECTING" /\ main' = "CHECK"
    /\ UNCHANGED <<file, rc, reader, lib, sent, used>>

\* while(rc == MOSQ_ERR_SUCCESS && connected), after which mosquitto_loop_stop()
\* waits for the thread of the library.
Again ==
    /\ main = "CHECK" /\ main' = IF connected THEN "BODY" ELSE "JOIN"
    /\ UNCHANGED <<file, rc, reader, lib, sent, used>>
Leave ==
    /\ \/ main = "JOIN" /\ closing /\ net = "CLOSED" /\ cb = 0
       \/ main = "BODY" /\ ~Threaded /\ cb = 0 /\ (rc # 0 \/ ~connected)
    /\ main' = "DONE"
    /\ UNCHANGED <<file, rc, reader, lib, sent, used>>

Main == Load \/ client_connect \/ Fgets \/ PublishLine \/ EndOfInput \/ Waiting \/ Poll
        \/ Spin \/ Again \/ Leave

Next == Main \/ Broker \/ Refuse \/ Lose

\* main() and the library's thread run, and the broker answers.
Spec == Init /\ [][Next]_vars /\ WF_vars(Main) /\ WF_vars(Broker)

-----------------------------------------------------------------------------
(* Properties *)

Ids == 1..MaxMid

\* The variables keep to their types.
TypeOK ==
    /\ mode \in Mode /\ status \in {"CONNECTING", "CONNACK_RECVD", "WAITING"}
    /\ mid_sent \in Ids \cup {0} /\ last_mid \in Ids \cup {-1, 0}
    /\ last_mid_sent \in Ids \cup {-1}
    /\ connected \in BOOLEAN /\ disconnect_sent \in BOOLEAN /\ closing \in BOOLEAN
    /\ main \in {"LOAD", "CONNECT", "BODY", "EOF", "CHECK", "JOIN", "DONE"} /\ rc \in 0..1
    /\ stdin \in Seq(Line) /\ buf \in Seq(Nat)
    /\ at \in [pos : Nat, read_len : Nat, buf_len : Nat, read : Nat]
    /\ net \in {"CLOSED", "CONNECTING", "UP"}
    /\ inflight \in Seq(Ids) /\ cb \in Ids \cup {0}

\* The client ends by itself only when stdin is read to its end and every
\* message has been acknowledged, whichever of the two threads finds out first
\* that the last id is the one acknowledged; unless an id was taken again while
\* it was in use.
DisconnectsWhenSent ==
    disconnect_sent => /\ Threaded => stdin = <<>>
                       /\ inflight = <<>> \/ lapped

\* Of a line all is published that was read in one piece, or with a buffer that
\* had not grown before.  Else the characters from Block to the end of that
\* buffer are missing, and only they: pos moves on by Block - 1 although the
\* first part was longer.
Before(s) == s.buf_len - Block * (s.pos \div (Block - 1))   \* buf_len when the line began
Gap(s)    == IF s.pos = 0 THEN 0 ELSE Before(s) - Block
SentButForGap ==
    \A k \in 1..Len(sent) :
        LET s == sent[k]
        IN  s.message = [c \in 1..(s.line.length - Gap(s)) |->
                            IF c < Block THEN c ELSE c + Gap(s)]

\* When main() loops itself, it exits with 0 only if no message that was
\* published is left without an acknowledgement.
ExitStatus == main = "DONE" /\ rc = 0 /\ ~Threaded => inflight = <<>>

\* The client ends; with -l, once a line has been published, unless the
\* connection ended unasked: then main() waits for a thread that goes on.
PubEnds ==
    (~Threaded \/ mid_sent # 0)
        ~> (main = "DONE" \/ (Threaded /\ ~connected /\ ~closing))

\* The usage text: mosquitto_pub "will publish a message on a single topic and
\* exit".
Exits == <>(main = "DONE")

\* The usage text of -l, "sending a separate message for each line": a message
\* is the line.
LineIsMessage ==
    \A k \in 1..Len(sent) : sent[k].message = [c \in 1..sent[k].line.length |-> c]
=============================================================================
