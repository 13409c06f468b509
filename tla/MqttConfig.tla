------------------------------ MODULE MqttConfig ------------------------------
(***************************************************************************)
(* client_config_load(), which mosquitto_pub and mosquitto_sub share: the  *)
(* options of the default config file, those of the command line, and the  *)
(* checks on the whole.  One step reads one line of the file or one option *)
(* with its value.                                                         *)
(*                                                                         *)
(* All optional features are compiled in (TLS, PSK, SRV, SOCKS).  An       *)
(* option stands for its aliases too, and a line for what one fgets()      *)
(* returns.  What a word means as a number, a topic or a url is given by   *)
(* constants: atoi() and the topic checks are external.                    *)
(***************************************************************************)
EXTENDS SocksUrl

CONSTANTS
    Jobs,          \* the ways the programs are called
    Number,        \* what atoi() makes of the words that begin with a number
    BadPubTopics,  \* words that mosquitto_pub_topic_check() rejects
    BadSubTopics   \* words that mosquitto_sub_topic_check() rejects

None == "(null)"    \* a char pointer that is NULL; no word

\* A job: the program, the lines of its config file and the settings of its command
\* line, each a sequence of words, what the word "URL" stands for, and what there is
\* to load.
ASSUME ConfigAssumption ==
    /\ \A j \in Jobs :
          /\ j.program \in {"pub", "sub"}
          /\ {j.file, j.argv} \subseteq Seq(Seq(STRING))
          /\ j.url \in [scheme : STRING, rest : Seq(STRING)]
          /\ \A s \in Range(j.file) \cup Range(j.argv) : None \notin Range(s)
    /\ \A w \in DOMAIN Number : Number[w] \in Int

VARIABLES
    job,    \* how the program was called
    cfg,    \* struct mosq_config
    lines,  \* lines of the config file, then settings of argv, not yet read
    words,  \* words of the line, or of argv, not yet processed
    pc,     \* where the program is
    rc      \* its exit status

configVars == <<job, cfg, lines, words, pc, rc>>

-----------------------------------------------------------------------------
(* Options *)

IntMax == 2147483647

\* The function a set of pairs is.
FunctionOf(pairs) == [x \in {p[1] : p \in pairs} |-> (CHOOSE p \in pairs : p[1] = x)[2]]

\* Options whose value is copied, with the field of mosq_config it goes to.
TextOptions ==
    {<<"-A", "bind_address">>, <<"--cafile", "cafile">>, <<"--capath", "capath">>,
     <<"--cert", "certfile">>, <<"--ciphers", "ciphers">>, <<"-h", "host">>,
     <<"--key", "keyfile">>, <<"--psk", "psk">>, <<"--psk-identity", "psk_identity">>,
     <<"--tls-version", "tls_version">>, <<"-u", "username">>, <<"-P", "password">>,
     <<"--will-payload", "will_payload">>}
Text == FunctionOf(TextOptions)

\* Options with a number, its field and its limits.
NumericOptions ==
    {<<"-p", <<"port", 1, 65535>> >>, <<"-k", <<"keepalive", -IntMax, 65535>> >>,
     <<"-q", <<"qos", 0, 2>> >>, <<"--will-qos", <<"will_qos", 0, 2>> >>,
     <<"-C", <<"msg_count", 1, IntMax>> >>, <<"-M", <<"max_inflight", -IntMax, IntMax>> >>}
Numeric == FunctionOf(NumericOptions)

\* Options without a value, with the flag that most of them set and two clear.
FlagOptions ==
    {<<"-d", "debug">>, <<"--insecure", "insecure">>, <<"--quiet", "quiet">>,
     <<"-r", "retain">>, <<"-S", "use_srv">>, <<"--will-retain", "will_retain">>,
     <<"-c", "clean_session">>, <<"-N", "eol">>, <<"-R", "no_retain">>, <<"-v", "verbose">>}
Flag == FunctionOf(FlagOptions)
Clears == {"-c", "-N"}

\* Options that say where the message comes from: without and with a value.
Source      == FunctionOf({<<"-l", "STDIN_LINE">>, <<"-n", "NULL">>, <<"-s", "STDIN_FILE">>})
SourceText  == FunctionOf({<<"-m", <<"CMD", "message">> >>, <<"-f", <<"FILE", "file_input">> >>})
Version     == FunctionOf({<<"mqttv31", 3>>, <<"mqttv311", 4>>})

PubOnly == {"-f", "-l", "-m", "-n", "-r", "-s"}
SubOnly == {"-C", "-T", "-c", "-N", "-R", "-v"}
WithValue == DOMAIN Text \cup DOMAIN Numeric \cup DOMAIN SourceText
             \cup {"-i", "-I", "-t", "-T", "-V", "--proxy", "--will-topic"}
Offered(program) ==
    (WithValue \cup DOMAIN Flag \cup DOMAIN Source) \ (IF program = "pub" THEN SubOnly ELSE PubOnly)

NoProxy == [ok |-> FALSE, username |-> NULL, password |-> NULL, host |-> NULL, port |-> 0]

TextFields == {Text[o] : o \in DOMAIN Text}
              \cup {"id", "id_prefix", "file_input", "message", "topic", "will_topic"}
Defaults ==
    [port |-> 1883, max_inflight |-> 20, keepalive |-> 60, clean_session |-> TRUE,
     eol |-> TRUE, protocol_version |-> 3, qos |-> 0, will_qos |-> 0, msg_count |-> 0,
     debug |-> FALSE, insecure |-> FALSE, quiet |-> FALSE, retain |-> FALSE,
     use_srv |-> FALSE, will_retain |-> FALSE, no_retain |-> FALSE, verbose |-> FALSE,
     pub_mode |-> "NONE", topics |-> <<>>, filter_outs |-> <<>>, socks5 |-> NoProxy]
init_config ==
    [f \in TextFields \cup DOMAIN Defaults |-> IF f \in TextFields THEN None ELSE Defaults[f]]

ConfigInit ==
    /\ job \in Jobs /\ cfg = init_config
    /\ lines = job.file /\ words = <<>>
    /\ pc = "FILE" /\ rc = 0

-----------------------------------------------------------------------------
(* client_config_line_proc(), one option *)

opt   == Head(words)
value == words[2]
NumberOf(word) == IF word \in DOMAIN Number THEN Number[word] ELSE 0
number == NumberOf(value)
Pub   == job.program = "pub"

\* The option applies to this program and its value, if it takes one, is there.
Applies(o) == /\ words # <<>> /\ opt = o /\ o \in Offered(job.program)
              /\ o \in WithValue => Len(words) > 1

Refuse(code) == /\ pc' = "REFUSED" /\ rc' = code
                /\ UNCHANGED <<job, cfg, lines, words>>

\* The option is taken: the fields have new values, the next option is due.
Take(new) ==
    /\ cfg' = new
    /\ words' = SubSeq(words, IF opt \in WithValue THEN 3 ELSE 2, Len(words))
    /\ UNCHANGED <<job, lines, pc, rc>>

TextOption == \E o \in DOMAIN Text : Applies(o) /\ Take([cfg EXCEPT ![Text[o]] = value])

\* Mutant of InRange: no lower limit.
NotAbove(o) == number <= Numeric[o][3]

InRange(o) == number \in Numeric[o][2]..Numeric[o][3]
NumberOption == \E o \in DOMAIN Numeric :
                    Applies(o) /\ InRange(o) /\ Take([cfg EXCEPT ![Numeric[o][1]] = number])

FlagOption == \E o \in DOMAIN Flag :
                  Applies(o) /\ Take([cfg EXCEPT ![Flag[o]] = (o \notin Clears)])

\* Mutant of OnlySource: a message may be given in several ways.
AnySource == TRUE

\* Only one type of message can be sent.
OnlySource == cfg.pub_mode = "NONE"

SourceOption == \E o \in DOMAIN Source :
                    Applies(o) /\ OnlySource /\ Take([cfg EXCEPT !.pub_mode = Source[o]])
SourceTextOption ==
    \E o \in DOMAIN SourceText :
        /\ Applies(o) /\ OnlySource
        /\ Take([cfg EXCEPT !.pub_mode = SourceText[o][1], ![SourceText[o][2]] = value])

IdOption ==
    \/ Applies("-i") /\ cfg.id_prefix = None /\ Take([cfg EXCEPT !.id = value])
    \/ Applies("-I") /\ cfg.id = None /\ Take([cfg EXCEPT !.id_prefix = value])

\* mosquitto_pub keeps the last topic, mosquitto_sub all of them.
TopicOption ==
    /\ Applies("-t")
    /\ \/ Pub  /\ value \notin BadPubTopics /\ Take([cfg EXCEPT !.topic = value])
       \/ ~Pub /\ value \notin BadSubTopics /\ Take([cfg EXCEPT !.topics = Append(@, value)])
FilterOption ==
    Applies("-T") /\ value \notin BadSubTopics /\ Take([cfg EXCEPT !.filter_outs = Append(@, value)])
WillTopicOption ==
    Applies("--will-topic") /\ value \notin BadPubTopics /\ Take([cfg EXCEPT !.will_topic = value])

VersionOption ==
    Applies("-V") /\ value \in DOMAIN Version /\ Take([cfg EXCEPT !.protocol_version = Version[value]])

\* The proxy settings of each url, so that a url is parsed once.
Proxy == [u \in {j.url : j \in Jobs} |-> parse_socks_url(u)]
ProxyOk == value = "URL" /\ Proxy[job.url].ok
ProxyOption ==
    Applies("--proxy") /\ ProxyOk /\ Take([cfg EXCEPT !.socks5 = Proxy[job.url]])

HelpOption == words # <<>> /\ opt = "--help" /\ Refuse(2)

\* Everything else: an unknown option, one of the other program, one without its
\* value, and a value or a combination that is not allowed.
LacksValue == words # <<>> /\ opt \in WithValue /\ Len(words) = 1
BadOption ==
    /\ words # <<>> /\ opt # "--help"
    /\ \/ opt \notin Offered(job.program)
       \/ LacksValue /\ (pc = "FILE" \/ lines = <<>>)
       \/ /\ Applies(opt)
          /\ \/ opt \in DOMAIN Numeric /\ ~InRange(opt)
             \/ opt \in DOMAIN Source \cup DOMAIN SourceText /\ ~OnlySource
             \/ opt = "-i" /\ cfg.id_prefix # None
             \/ opt = "-I" /\ cfg.id # None
             \/ opt = "-t" /\ value \in IF Pub THEN BadPubTopics ELSE BadSubTopics
             \/ opt = "-T" /\ value \in BadSubTopics
             \/ opt = "--will-topic" /\ value \in BadPubTopics
             \/ opt = "-V" /\ value \notin DOMAIN Version
             \/ opt = "--proxy" /\ ~ProxyOk
    /\ Refuse(1)

client_config_line_proc ==
    /\ pc \in {"FILE", "ARGV"}
    /\ \/ TextOption \/ NumberOption \/ FlagOption \/ SourceOption \/ SourceTextOption
       \/ IdOption \/ TopicOption \/ FilterOption \/ WillTopicOption \/ VersionOption
       \/ ProxyOption \/ HelpOption \/ BadOption

-----------------------------------------------------------------------------
(* client_config_load() *)

\* At most two words of a line count; a line that begins with # has none.
LineWords(line) == IF line # <<>> /\ Head(line) = "#" THEN <<>>
                   ELSE SubSeq(line, 1, IF Len(line) < 2 THEN Len(line) ELSE 2)

NextLine ==
    /\ pc = "FILE" /\ words = <<>> /\ lines # <<>>
    /\ words' = LineWords(Head(lines)) /\ lines' = Tail(lines)
    /\ UNCHANGED <<job, cfg, pc, rc>>

CommandLine ==
    /\ pc = "FILE" /\ words = <<>> /\ lines = <<>>
    /\ pc' = "ARGV" /\ lines' = job.argv
    /\ UNCHANGED <<job, cfg, words, rc>>

\* The next word of argv is due, and with it the setting that begins with it.
NextArgument ==
    /\ pc = "ARGV" /\ lines # <<>>
    /\ words = <<>> \/ LacksValue
    /\ words' = words \o Head(lines) /\ lines' = Tail(lines)
    /\ UNCHANGED <<job, cfg, pc, rc>>

\* The checks on the whole.
Complaint ==
    \/ cfg.will_topic = None /\ (cfg.will_payload # None \/ cfg.will_retain)
    \/ (cfg.certfile = None) # (cfg.keyfile = None)
    \/ cfg.psk # None /\ (cfg.cafile # None \/ cfg.capath # None \/ cfg.psk_identity = None)
    \/ ~Pub /\ (cfg.topics = <<>> \/ (~cfg.clean_session /\ (cfg.id_prefix # None \/ cfg.id = None)))

Checks ==
    /\ pc = "ARGV" /\ words = <<>> /\ lines = <<>>
    /\ IF Complaint THEN Refuse(1)
       ELSE /\ pc' = "ACCEPTED"
            /\ cfg' = [cfg EXCEPT !.host = IF @ = None THEN "localhost" ELSE @]
            /\ UNCHANGED <<job, lines, words, rc>>

client_config_load ==
    NextLine \/ CommandLine \/ NextArgument \/ client_config_line_proc \/ Checks

-----------------------------------------------------------------------------
(* Properties *)

\* What was declared, in the order it counts: the command line after the file.
Declared == [k \in DOMAIN job.file |-> LineWords(job.file[k])] \o job.argv
Settings == {k \in DOMAIN Declared : Declared[k] # <<>>}
Given(o)  == \E k \in Settings : Declared[k][1] = o
LastOf(o)   == LET k == CHOOSE k \in Settings :
                          /\ Declared[k][1] = o
                          /\ \A l \in Settings : Declared[l][1] = o => l <= k
             IN  Declared[k][2]

\* Every setting has its value, so that none takes the next one for it.
Complete == \A k \in Settings :
                Len(Declared[k]) = IF Declared[k][1] \in WithValue THEN 2 ELSE 1

Allowed(s) ==
    LET o == s[1]
        n == NumberOf(s[2])
    IN  /\ o \in Offered(job.program)
        /\ o \in DOMAIN Numeric => n >= Numeric[o][2] /\ n <= Numeric[o][3]
        /\ o \in {"--will-topic"} \cup (IF Pub THEN {"-t"} ELSE {}) => s[2] \notin BadPubTopics
        /\ o \in {"-T"} \cup (IF Pub THEN {} ELSE {"-t"}) => s[2] \notin BadSubTopics
        /\ o = "-V" => s[2] \in DOMAIN Version
        /\ o = "--proxy" => s[2] = "URL" /\ Proxy[job.url].ok

Consistent ==
    /\ \A k, l \in Settings :
          {Declared[k][1], Declared[l][1]} \subseteq DOMAIN Source \cup DOMAIN SourceText => k = l
    /\ ~(Given("-i") /\ Given("-I"))
    /\ Given("--will-payload") \/ Given("--will-retain") => Given("--will-topic")
    /\ Given("--cert") <=> Given("--key")
    /\ Given("--psk") => ~Given("--cafile") /\ ~Given("--capath") /\ Given("--psk-identity")
    /\ ~Pub => Given("-t") /\ (Given("-c") => Given("-i"))

\* The order of the settings, and which of them stand in the file, changes
\* nothing about whether they are accepted, and of several values for one option
\* the last one counts, the command line's before the file's.
AcceptedAsDeclared ==
    Complete =>
    /\ pc = "REFUSED"  => ~(Consistent /\ \A k \in Settings : Allowed(Declared[k]))
    /\ pc = "ACCEPTED" =>
          /\ Consistent /\ \A k \in Settings : Allowed(Declared[k])
          /\ \A o \in DOMAIN Text \ {"-h"} : cfg[Text[o]] = IF Given(o) THEN LastOf(o) ELSE None
          /\ cfg.host = IF Given("-h") THEN LastOf("-h") ELSE "localhost"
          /\ \A o \in DOMAIN Numeric : Given(o) => NumberOf(LastOf(o)) = cfg[Numeric[o][1]]
          /\ ~Pub => {cfg.topics[k] : k \in DOMAIN cfg.topics}
                     = {Declared[k][2] : k \in {l \in Settings : Declared[l][1] = "-t"}}

\* The settings of a proxy are what its url says.
ProxyAsWritten ==
    pc \in {"ACCEPTED", "REFUSED"} /\ Given("--proxy") => ReadAsWritten(job.url)
=============================================================================
