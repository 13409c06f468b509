------------------------------ MODULE ClientStart -----------------------------
(***************************************************************************)
(* mosquitto_pub and mosquitto_sub around their loops: main() reads the    *)
(* configuration (MqttConfig), loads the message, initialises the library, *)
(* makes a client, hands it the settings, connects, runs the loop, and     *)
(* takes everything down.  What the loops do is in PubClient and           *)
(* SubClient.  Every call whose result is looked at may fail, and each      *)
(* failure has its own way out; only the memory the options and the proxy   *)
(* url are copied to is always there.                                      *)
(*                                                                         *)
(* The file that -f names belongs to other processes as well, which may    *)
(* change its length while it is read.                                     *)
(***************************************************************************)
EXTENDS MqttConfig

CONSTANTS
    Block,      \* bytes load_stdin() reads at a time, 1024 in the code
    MaxLength,  \* longest message, 268435455 in the code
    MaxFile,    \* bound: length of a file
    MaxChanges  \* bound: times the file changes its length while it is read

ASSUME StartAssumption ==
    /\ Block \in Nat \ {0} /\ {MaxLength, MaxFile, MaxChanges} \subseteq Nat
    /\ \A j \in Jobs : j.input \in [length : 0..MaxFile, fails : BOOLEAN]

VARIABLES
    input,    \* what stdin or the file holds: its length, and whether reading fails
    msglen,   \* msglen
    pos,      \* how much of the message is loaded
    message,  \* load_stdin(): message points to a buffer
    lib,      \* the library: "down", "up" or "released"
    mosq,     \* the client: "none", "made", "connected" or "destroyed"
    clean,    \* the clean_session argument of mosquitto_new()
    told,     \* settings handed to the library: a call and what it was given
    changes   \* changes of the file left

loadVars  == <<input, msglen, pos, message, changes>>
libVars   == <<lib, mosq, clean, told>>
startVars == <<loadVars, libVars>>
vars      == <<configVars, startVars>>

Init ==
    /\ ConfigInit
    /\ input = job.input /\ changes = MaxChanges
    /\ msglen = 0 /\ pos = 0 /\ message = FALSE
    /\ lib = "down" /\ mosq = "none" /\ clean = TRUE /\ told = <<>>

\* The process goes on at another place, or ends.
GoTo(place) == pc' = place /\ UNCHANGED <<job, cfg, lines, words, rc>>
Exit(status) == pc' = "DONE" /\ rc' = status /\ UNCHANGED <<job, cfg, lines, words>>

Configure == client_config_load /\ UNCHANGED startVars

\* There is no memory for mosquitto_pub's line buffer, or for the name of the config
\* file: nothing has been read yet.
NoMemory == pc = "FILE" /\ words = <<>> /\ lines = job.file

\* A configuration that cannot be loaded or is refused: its memory is freed, the
\* usage text or a hint is printed, and the status is 1 for --help too.
client_config_cleanup ==
    (pc = "REFUSED" \/ NoMemory) /\ Exit(1) /\ UNCHANGED startVars

-----------------------------------------------------------------------------
(* mosquitto_pub loads its message *)

Accepted ==
    /\ pc = "ACCEPTED"
    /\ GoTo(IF ~Pub THEN "LIB_INIT"
            ELSE CASE cfg.pub_mode = "STDIN_FILE" -> "LOAD_STDIN"
                   [] cfg.pub_mode = "FILE"       -> "FOPEN"
                   [] OTHER                       -> "NEEDS")
    /\ UNCHANGED startVars

Least(a, b) == IF a < b THEN a ELSE b

\* One turn of while(!feof(stdin)).  A read that fails does not set feof, so the
\* loop goes on; its second realloc(message, 0) frees the buffer and returns
\* NULL, which is taken for a lack of memory, and the buffer is freed again.
load_stdin ==
    LET rlen == Least(Block, input.length - pos)
        eof  == rlen < Block /\ ~input.fails
    IN  /\ pc = "LOAD_STDIN"
        /\ \/ /\ pos + rlen = 0 /\ message
              /\ \/ pc' = "CRASHED" /\ UNCHANGED <<job, cfg, lines, words, rc>>
                 \/ Exit(1)
              /\ UNCHANGED <<pos, message, msglen>>
           \/ /\ ~(pos + rlen = 0 /\ message)
              /\ pos' = pos + rlen /\ message' = TRUE
              /\ IF ~eof THEN UNCHANGED <<configVars, msglen>>
                 ELSE /\ msglen' = pos'
                      /\ IF pos' = 0 THEN Exit(1) ELSE GoTo("NEEDS")
           \/ Exit(1) /\ UNCHANGED <<pos, message, msglen>>    \* no memory
        /\ UNCHANGED <<input, changes, libVars>>

\* The file is opened and its length is taken; or it cannot be opened, its length
\* cannot be used, or there is no memory for it.
LengthOk(n) == n > 0 /\ n <= MaxLength
load_file ==
    /\ pc = "FOPEN"
    /\ msglen' = input.length
    /\ \/ LengthOk(msglen') /\ GoTo("FREAD")
       \/ Exit(1)
    /\ UNCHANGED <<input, changes, pos, message, libVars>>

\* Mutants of FileLoaded: one fread() is enough; pos <= msglen in the loop.
FileLoadedOnce == TRUE
FileLoadedPast == pos' > msglen

\* One turn of while(pos < msglen): a read stops at the end of the file, and a
\* read that fails returns nothing.
FileLoaded == pos' = msglen
ReadFile ==
    /\ pc = "FREAD"
    /\ pos' = IF input.fails \/ input.length < pos THEN pos ELSE Least(msglen, input.length)
    /\ IF FileLoaded THEN GoTo("NEEDS") ELSE UNCHANGED configVars
    /\ UNCHANGED <<input, changes, msglen, message, libVars>>

\* Another process makes the file shorter or longer (external).
FileChanges ==
    /\ pc = "FREAD" /\ changes > 0 /\ changes' = changes - 1
    /\ \E n \in (0..MaxFile) \ {input.length} : input' = [input EXCEPT !.length = n]
    /\ UNCHANGED <<configVars, msglen, pos, message, libVars>>

Needs ==
    /\ pc = "NEEDS"
    /\ IF cfg.topic = None \/ cfg.pub_mode = "NONE" THEN Exit(1) ELSE GoTo("LIB_INIT")
    /\ UNCHANGED startVars

-----------------------------------------------------------------------------
(* The library *)

lib_init ==
    /\ pc = "LIB_INIT" /\ lib' = "up" /\ GoTo("ID")
    /\ UNCHANGED <<loadVars, mosq, clean, told>>

\* Every failure from here on: mosquitto_lib_cleanup() and return.
GiveUp(status) == Exit(status) /\ lib' = "released" /\ UNCHANGED <<loadVars, mosq, clean, told>>

\* The id is the user's, the prefix with the process id, or one made up.
client_id_generate ==
    /\ pc = "ID"
    /\ \/ /\ cfg' = [cfg EXCEPT !.id = IF cfg.id_prefix = None /\ @ # None THEN @ ELSE "generated"]
          /\ pc' = "NEW" /\ UNCHANGED <<job, lines, words, rc, startVars>>
       \/ (cfg.id_prefix # None \/ cfg.id = None) /\ GiveUp(1)    \* no memory

mosquitto_new ==
    /\ pc = "NEW"
    /\ \/ /\ mosq' = "made" /\ clean' = (Pub \/ cfg.clean_session)
          /\ GoTo("OPTS") /\ UNCHANGED <<loadVars, lib, told>>
       \/ GiveUp(1)

\* The calls of client_opts_set() in their order and then the one that connects,
\* the settings each is given, and when it is due.
Calls == <<"will_set", "username_pw_set", "tls_set", "tls_insecure_set", "tls_psk_set",
           "tls_opts_set", "max_inflight_messages_set", "socks5_set", "opts_set">>
CallArguments ==
    {<<"will_set", {"will_topic", "will_payload", "will_qos", "will_retain"}>>,
     <<"username_pw_set", {"username", "password"}>>,
     <<"tls_set", {"cafile", "capath", "certfile", "keyfile"}>>,
     <<"tls_insecure_set", {"insecure"}>>, <<"tls_psk_set", {"psk", "psk_identity"}>>,
     <<"tls_opts_set", {"tls_version", "ciphers"}>>,
     <<"max_inflight_messages_set", {"max_inflight"}>>, <<"socks5_set", {"socks5"}>>,
     <<"opts_set", {"protocol_version"}>>,
     <<"connect_bind", {"host", "port", "keepalive", "bind_address"}>>,
     <<"connect_srv", {"host", "keepalive", "bind_address"}>>}
Arguments == FunctionOf(CallArguments)

\* Mutant of HasCA: a directory of certificate authorities does not count.
HasCAFile == cfg.cafile # None

HasCA == cfg.cafile # None \/ cfg.capath # None
Due(call) ==
    CASE call = "will_set"         -> cfg.will_topic # None
      [] call = "username_pw_set"  -> cfg.username # None
      [] call = "tls_set"          -> HasCA
      [] call = "tls_insecure_set" -> cfg.insecure
      [] call = "tls_psk_set"      -> cfg.psk # None
      [] call = "tls_opts_set"     -> cfg.tls_version # None \/ cfg.ciphers # None
      [] call = "socks5_set"       -> cfg.socks5.ok
      [] OTHER                     -> TRUE
Told(call) == \E k \in DOMAIN told : told[k].call = call
Tell(call) == told' = Append(told, [call |-> call, with |-> [f \in Arguments[call] |-> cfg[f]]])

\* One call after the other; all but two of them may fail.
DueCalls == {k \in DOMAIN Calls : Due(Calls[k]) /\ ~Told(Calls[k])}
client_opts_set ==
    /\ pc = "OPTS"
    /\ \E k \in DueCalls :
          /\ \A l \in DueCalls : k <= l
          /\ \/ /\ Tell(Calls[k])
                /\ IF DueCalls = {k} THEN GoTo("CONNECT") ELSE UNCHANGED configVars
                /\ UNCHANGED <<loadVars, lib, mosq, clean>>
             \/ Calls[k] \notin {"max_inflight_messages_set", "opts_set"} /\ GiveUp(1)

\* Mutant of ConnectFails: the way out is the same as before mosquitto_lib_init().
ConnectFailsEarly == Exit(1) /\ UNCHANGED <<loadVars, libVars>>

ConnectFails == GiveUp(1)
client_connect ==
    /\ pc = "CONNECT"
    /\ \/ /\ Tell(IF cfg.use_srv THEN "connect_srv" ELSE "connect_bind")
          /\ mosq' = "connected" /\ GoTo("LOOP") /\ UNCHANGED <<loadVars, lib, clean>>
       \/ ConnectFails

\* The loop ends; or, with -l, there is no memory for a long line, and main()
\* returns from the middle of it.
LoopEnds ==
    /\ pc = "LOOP"
    /\ \/ mosq' = "destroyed" /\ GoTo("CLEANUP") /\ UNCHANGED <<loadVars, lib, clean, told>>
       \/ Pub /\ cfg.pub_mode = "STDIN_LINE" /\ Exit(1) /\ UNCHANGED startVars
lib_cleanup ==
    /\ pc = "CLEANUP" /\ lib' = "released" /\ (Exit(0) \/ Exit(1))
    /\ UNCHANGED <<loadVars, mosq, clean, told>>

Main ==
    \/ Configure \/ client_config_cleanup \/ Accepted \/ load_stdin \/ load_file \/ ReadFile
    \/ Needs \/ lib_init \/ client_id_generate \/ mosquitto_new \/ client_opts_set
    \/ client_connect \/ LoopEnds \/ lib_cleanup

Next == Main \/ FileChanges

\* main() keeps running; nobody has to change the file.
Spec == Init /\ [][Next]_vars /\ WF_vars(Main)

-----------------------------------------------------------------------------
(* Properties *)

Places == {"FILE", "ARGV", "ACCEPTED", "REFUSED", "LOAD_STDIN", "FOPEN", "FREAD", "NEEDS",
           "LIB_INIT", "ID", "NEW", "OPTS", "CONNECT", "LOOP", "CLEANUP", "DONE", "CRASHED"}

\* Every variable keeps to its type, and every number in the configuration that is
\* used at all is within its limits.
TypeOK ==
    /\ pc \in Places /\ rc \in 0..2
    /\ pos \in 0..MaxFile /\ msglen \in 0..MaxFile /\ changes \in 0..MaxChanges
    /\ input \in [length : 0..MaxFile, fails : BOOLEAN] /\ {message, clean} \subseteq BOOLEAN
    /\ lib \in {"down", "up", "released"}
    /\ mosq \in {"none", "made", "connected", "destroyed"}
    /\ \A k \in DOMAIN told : told[k].call \in DOMAIN Arguments
    /\ cfg.qos \in 0..2 /\ cfg.will_qos \in 0..2 /\ cfg.port >= 1 /\ cfg.port <= 65535
    /\ cfg.keepalive <= 65535 /\ cfg.pub_mode \in {"NONE", "CMD", "FILE"} \cup {Source[o] : o \in DOMAIN Source}

\* Whatever fails, and wherever, the library is used as it asks to be: the two
\* programs implement LibraryUse.
Library == INSTANCE LibraryUse WITH client <- mosq, ended <- pc \in {"DONE", "CRASHED"}
UsesLibrary == Library!Spec

\* Every setting with a value that the user declared for the connection is what the
\* library is told before it connects, from the last value given, except what has no
\* effect without another option; and a session is persistent only under an id of the
\* user's own.  (The options without a value are in no clause but as conditions.)
Means == FunctionOf({<<o, Text[o]>> : o \in DOMAIN Text}
                    \cup {<<o, Numeric[o][1]>> : o \in {"-p", "-k", "-M", "--will-qos"}}
                    \cup {<<"--will-topic", "will_topic">>})
WithoutEffect ==
    {o \in {"-P"} : ~Given("-u")}
    \cup {o \in {"--cert", "--key"} : ~Given("--cafile") /\ ~Given("--capath")}
    \cup {o \in {"--psk-identity"} : ~Given("--psk")}
    \cup {o \in {"--will-qos"} : ~Given("--will-topic")} \cup {o \in {"-p"} : Given("-S")}
ValueOf(o) == IF o \in DOMAIN Numeric THEN NumberOf(LastOf(o)) ELSE LastOf(o)
WasTold(f, v) == \E k \in DOMAIN told : f \in DOMAIN told[k].with /\ told[k].with[f] = v

SettingsReachLibrary ==
    pc = "LOOP" /\ Complete =>
    /\ \A o \in DOMAIN Means \ WithoutEffect : Given(o) => WasTold(Means[o], ValueOf(o))
    /\ Given("--proxy") => WasTold("socks5", Proxy[job.url])
    /\ Given("-V") => WasTold("protocol_version", Version[LastOf("-V")])
    /\ ~clean => Given("-i") /\ cfg.id = LastOf("-i")

\* A message is sent only when all of it has been read: as many bytes as the file
\* had when it was opened, or as stdin had, and never none or too many.
LoadedWhole ==
    Pub /\ lib # "down" /\ cfg.pub_mode \in {"FILE", "STDIN_FILE"} =>
    /\ pos = msglen /\ msglen > 0
    /\ cfg.pub_mode = "FILE" => msglen <= MaxLength
    /\ cfg.pub_mode = "STDIN_FILE" => msglen = job.input.length /\ ~job.input.fails

\* main() gets to its loop or ends.  It does not when a read goes on for ever: the
\* file became shorter than it was, or reading fails.
Endless == \/ pc = "FREAD" /\ (input.fails \/ input.length < msglen)
           \/ pc = "LOAD_STDIN" /\ input.fails /\ pos > 0
StartEnds == <>(pc \in {"LOOP", "CLEANUP", "DONE", "CRASHED"} \/ Endless)
=============================================================================
