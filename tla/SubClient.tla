------------------------------ MODULE SubClient ------------------------------
(***************************************************************************)
(* mosquitto_sub: main(), which runs mosquitto_loop_forever(), and the     *)
(* callbacks that run inside it.  Every message that is wanted is printed  *)
(* and, unless -v is given, posted to the System V queue 123456, which     *)
(* outlives the process and which no program of the repository reads.      *)
(*                                                                         *)
(* The broker and libmosquitto are external: a connection is refused,      *)
(* accepted or lost, a lost one is made again, a topic may fail to be      *)
(* subscribed, and a broker sends messages of the topics subscribed on     *)
(* this connection (a clean session).                                      *)
(***************************************************************************)
EXTENDS Integers, Sequences, FiniteSets

CONSTANTS
    Topics,       \* topics of the broker
    Configs,      \* how the client is called: records of mosq_config
    QCap,         \* messages queue 123456 holds
    InCap,        \* messages on the connection that are not read yet
    MaxUnwanted,  \* bound: messages sent that the client does not want
    MaxReceived,  \* bound: messages the callback runs for, in one run
    MaxLosses,    \* bound: connections refused or lost, or calls that fail
    MaxRuns       \* bound: times the program is started again

\* msg_count = 0: no -C.  filter_outs stands for the topics the filters match.
mosq_config == [msg_count : Nat, no_retain : BOOLEAN, verbose : BOOLEAN,
                topics : SUBSET Topics, filter_outs : SUBSET Topics]
mosquitto_message == [topic : Topics, retain : BOOLEAN, payload : BOOLEAN]

ASSUME SubAssumption ==
    /\ Configs \subseteq mosq_config
    /\ QCap \in Nat /\ InCap \in Nat \ {0}
    /\ {MaxUnwanted, MaxReceived, MaxLosses, MaxRuns} \subseteq Nat

VARIABLES
    cfg, process_messages, msg_count,
    main, rc,     \* where main() is (BLOCKED: in a callback), its exit status
    net, closing, \* library: the connection; mosquitto_disconnect() was called
    subscribed,   \* broker: the topics subscribed on this connection
    failed,       \* library: the topics mosquitto_subscribe() has failed for on it
    inbox,        \* library: messages not yet given to the callback
    posted,       \* queue 123456: how many messages it holds
    received,     \* ghost: messages the callback has run for in this run
    handled,      \* ghost: which of them, by number, it has worked through
    left          \* what is left of the bounds

program == <<cfg, process_messages, msg_count, main, rc, closing, received, handled>>
vars    == <<program, net, subscribed, failed, inbox, posted, left>>

\* A process starts, with whatever the queue holds.
Started ==
    /\ cfg' \in Configs
    /\ process_messages' = TRUE /\ msg_count' = 0
    /\ main' = "CONNECT" /\ rc' = 0 /\ net' = "CLOSED" /\ closing' = FALSE
    /\ subscribed' = {} /\ failed' = {} /\ inbox' = <<>>
    /\ received' = <<>> /\ handled' = {}

Init ==
    /\ cfg \in Configs
    /\ process_messages = TRUE /\ msg_count = 0
    /\ main = "CONNECT" /\ rc = 0 /\ net = "CLOSED" /\ closing = FALSE
    /\ subscribed = {} /\ failed = {} /\ inbox = <<>> /\ received = <<>> /\ handled = {}
    /\ posted = 0
    /\ left = [unwanted |-> MaxUnwanted, losses |-> MaxLosses, runs |-> MaxRuns]

Use(what) == left[what] > 0 /\ left' = [left EXCEPT ![what] = @ - 1]

-----------------------------------------------------------------------------
(* The broker and libmosquitto *)

\* What the callback goes on with: neither a retained message with -R, nor one
\* whose topic a filter matches.
Wanted(m) == ~(m.retain /\ cfg.no_retain) /\ m.topic \notin cfg.filter_outs

Publish(m) ==
    /\ net = "UP" /\ ~closing /\ m.topic \in subscribed
    /\ Len(inbox) < InCap /\ Len(received) + Len(inbox) < MaxReceived
    /\ inbox' = Append(inbox, m)
    /\ UNCHANGED <<program, net, subscribed, failed, posted>>
PublishWanted ==
    \E m \in mosquitto_message : Wanted(m) /\ Publish(m) /\ UNCHANGED left
PublishUnwanted ==
    \E m \in mosquitto_message : ~Wanted(m) /\ Publish(m) /\ Use("unwanted")

\* The connection ends, and with it what it had in store.
Dropped == net' = "CLOSED" /\ subscribed' = {} /\ failed' = {} /\ inbox' = <<>>
Lose == /\ net # "CLOSED" /\ main = "LOOP" /\ Dropped /\ Use("losses")
        /\ UNCHANGED <<program, posted>>
Reconnect ==
    /\ net = "CLOSED" /\ main = "LOOP" /\ ~closing /\ net' = "CONNECTING"
    /\ UNCHANGED <<program, subscribed, failed, inbox, posted, left>>

\* Mutant of Subscriptions: only the first connection subscribes.
SubscriptionsOnce == IF received = <<>> THEN cfg.topics ELSE {}

\* Every connection that is accepted subscribes all topics.  The result of
\* mosquitto_subscribe() is not looked at: a topic it fails for is missing.
Subscriptions == cfg.topics
my_connect_callback ==
    /\ net = "CONNECTING" /\ main = "LOOP" /\ net' = "UP"
    /\ failed' \in SUBSET cfg.topics /\ subscribed' = Subscriptions \ failed'
    /\ IF failed' = {} THEN UNCHANGED left ELSE Use("losses")
    /\ UNCHANGED <<program, inbox, posted>>

-----------------------------------------------------------------------------
(* my_message_callback *)

Counting == cfg.msg_count > 0

\* Mutant of Ignored: the flag is not looked at.
IgnoredNever(m) == ~Wanted(m)

\* Once the count is reached, messages that were on their way are dropped.
Ignored(m) == ~process_messages \/ ~Wanted(m)

\* Only a message with a payload goes to the queue, and only without -v.
Posts(m) == ~cfg.verbose /\ m.payload

\* Mutant of Counted: messages without a payload do not count.
CountedPayload(m) == Counting /\ m.payload

Counted(m) == Counting

my_message_callback ==
    /\ net = "UP" /\ main = "LOOP" /\ inbox # <<>>
    /\ inbox' = Tail(inbox)
    /\ LET m == Head(inbox)
           count == IF Counted(m) THEN msg_count + 1 ELSE msg_count
           Done == Counted(m) /\ count = cfg.msg_count
       IN  /\ received' = Append(received, m)
           /\ \/ /\ Ignored(m)
                 /\ UNCHANGED <<posted, handled, msg_count, process_messages, closing>>
              \/ /\ ~Ignored(m)
                 /\ Posts(m) => posted < QCap
                 /\ posted' = IF Posts(m) THEN posted + 1 ELSE posted
                 /\ handled' = handled \cup {Len(received) + 1}
                 /\ msg_count' = count
                 /\ process_messages' = (process_messages /\ ~Done)
                 /\ closing' = (closing \/ Done)
    /\ UNCHANGED <<cfg, main, rc, net, subscribed, failed, left>>

\* While the queue is full msgsnd() waits, inside the callback and main()'s loop, for
\* a reader: nothing the connection does reaches the client any more.
msgsnd_waits ==
    /\ net = "UP" /\ main = "LOOP" /\ inbox # <<>>
    /\ ~Ignored(Head(inbox)) /\ Posts(Head(inbox)) /\ posted = QCap
    /\ main' = "BLOCKED"
    /\ UNCHANGED <<cfg, process_messages, msg_count, rc, closing, received, handled,
                   net, subscribed, failed, inbox, posted, left>>

-----------------------------------------------------------------------------
(* main() *)

client_connect ==
    /\ main = "CONNECT"
    /\ \/ main' = "DONE" /\ rc' = 1 /\ UNCHANGED net
       \/ main' = "LOOP" /\ net' = "CONNECTING" /\ UNCHANGED rc
    /\ UNCHANGED <<cfg, process_messages, msg_count, closing, received, handled,
                   subscribed, failed, inbox, posted, left>>

\* Mutant of Status: every end of the loop is a success.
StatusZero(result) == 0

\* mosquitto_loop_forever() returns: asked to, with 0 or MOSQ_ERR_NO_CONN, or with
\* an error that it does not try to get over.
Results == {"SUCCESS", "NO_CONN", "ERROR"}
Status(result) ==
    IF result = "SUCCESS" \/ (Counting /\ result = "NO_CONN") THEN 0 ELSE 1
Return(result) ==
    /\ main = "LOOP" /\ main' = "DONE" /\ rc' = Status(result) /\ Dropped
    /\ UNCHANGED <<cfg, process_messages, msg_count, closing, received, handled, posted>>
LoopEnds  == closing /\ UNCHANGED left /\ \E r \in {"SUCCESS", "NO_CONN"} : Return(r)
LoopFails == Use("losses") /\ Return("ERROR")

\* The program is started again, after it has ended or was killed.
Run == Started /\ Use("runs") /\ UNCHANGED posted

Library == Reconnect \/ my_connect_callback \/ my_message_callback \/ msgsnd_waits
Next == \/ client_connect \/ Library \/ LoopEnds \/ LoopFails
        \/ PublishWanted \/ PublishUnwanted \/ Lose \/ Run

\* The process runs, the broker takes connections, and wanted messages go on
\* being published.
Spec == /\ Init /\ [][Next]_vars
        /\ WF_vars(client_connect) /\ WF_vars(LoopEnds) /\ WF_vars(Library)
        /\ WF_vars(PublishWanted)

-----------------------------------------------------------------------------
(* Properties *)

\* The variables keep to their types and the queue to its capacity.
TypeOK ==
    /\ cfg \in mosq_config /\ process_messages \in BOOLEAN /\ closing \in BOOLEAN
    /\ msg_count \in 0..cfg.msg_count
    /\ main \in {"CONNECT", "LOOP", "BLOCKED", "DONE"} /\ rc \in 0..1
    /\ net \in {"CLOSED", "CONNECTING", "UP"}
    /\ subscribed \subseteq cfg.topics /\ failed \subseteq cfg.topics
    /\ {inbox, received} \subseteq Seq(mosquitto_message) /\ handled \subseteq 1..Len(received)
    /\ Len(inbox) <= InCap /\ posted \in 0..QCap

\* Whatever is still read after the count was reached, and however often the
\* connection was lost: the messages worked through (printed, posted, or without a
\* payload and -v only counted) are the first msg_count of those received that are
\* wanted, and all of those without -C.
WantedBefore(k) == {i \in 1..(k - 1) : Wanted(received[i])}
FirstWanted ==
    handled = {k \in 1..Len(received) :
                  /\ Wanted(received[k])
                  /\ Counting => Cardinality(WantedBefore(k)) < cfg.msg_count}

\* Nothing but the full queue, or a topic that could not be subscribed, keeps a
\* client with -C from ending, whatever it loses on the way.
HeldByQueue == main = "BLOCKED" /\ posted = QCap
CountEnds ==
    Counting /\ main = "LOOP" ~> main \in {"CONNECT", "DONE"} \/ HeldByQueue \/ failed # {}

\* The exit status is 0 only after msg_count messages.
StatusTells == main = "DONE" /\ rc = 0 => Counting /\ Cardinality(handled) = cfg.msg_count

\* The usage text of -C: "disconnect and exit after receiving the 'msg_count'
\* messages."
EndsAfterCount ==
    Counting /\ Len(SelectSeq(received \o inbox, Wanted)) >= cfg.msg_count
        ~> main = "DONE"
=============================================================================
